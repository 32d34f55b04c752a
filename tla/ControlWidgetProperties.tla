----------------------- MODULE ControlWidgetProperties -----------------------
(***************************************************************************)
(* What the user may expect of the controls.                               *)
(***************************************************************************)
EXTENDS ControlWidget

Controls ==
    [connectOn : BOOLEAN, connectChecked : BOOLEAN, refreshOn : BOOLEAN,
     oneOn : BOOLEAN, liveOn : BOOLEAN, liveChecked : BOOLEAN,
     editors : {"none", "off", "on"}, current : BOOLEAN,
     label : {"Idle", "Connected", "Live"},
     grabbing : BOOLEAN, parameterUpdateActive : BOOLEAN]

\* What an event can be of.
Kinds == {"connection", "grabbing", "connect"} \cup Operations

\* One event of that kind at most waits.
Single(q, what) == \A i, j \in DOMAIN q : q[i].of = what /\ q[j].of = what => i = j

\* Type correctness.  A watcher has one event at most that waits, and none while its
\* operation runs; what has returned is awaited; _parameterUpdateActive tells whether an
\* update is under way or its end waits to be handled.
TypeOK ==
    /\ isOpened \in BOOLEAN /\ isGrabbing \in BOOLEAN /\ starting \in BOOLEAN
    /\ ending \in {"nobody", "worker", "pool"}
    /\ connecting \in [Threads -> Places] /\ watching \subseteq Threads
    /\ \A s, t \in watching : s = t
    /\ \A t \in watching : connecting[t] # "idle" /\ ~Pending("connect")
    /\ \A t \in Threads : connecting[t] \in Returned => t \in watching
    /\ running \subseteq Operations /\ reading \in {"none", "new", "old"}
    /\ events \in Seq([of : Kinds, on : BOOLEAN])
    /\ \A o \in Operations \cup {"connect"} : Single(events, o)
    /\ \A o \in running : ~Pending(o)
    /\ ui \in Controls
    /\ ui.parameterUpdateActive <=> "param" \in running \/ Pending("param")

\* Nothing is on its way to the widget.
Settled ==
    /\ events = << >> /\ running = {} /\ Connecting = {}
    /\ ~starting /\ ending = "nobody"

\* Two of open() and close() are under way: while one is, the end of another operation
\* or an old notification has enabled Connect, and it was clicked.
Overlapping ==
    \E s, t \in Connecting : s # t

\* A close() is between its stop() and its reset of the connection.
InClose == \E t \in Threads : connecting[t] \in {"notifying", "closing"}

\* An acquisition has begun there: neither the widget nor the facade prevents it.
GrabMeetsClose == starting /\ isGrabbing /\ InClose

\* An acquisition has begun while the stop() or the close() that ended the last one goes
\* on, on another thread.
GrabMeetsEnd == isGrabbing /\ (ending # "nobody" \/ InClose)

\* An acquisition is over, and its end notified, before its start is (Gocator.cpp:386).
Overtaken == starting /\ ~isGrabbing /\ ending = "nobody"

\* Once things have settled the label follows the flags; and as long as no two of open()
\* and close() overlap, Connect shows whether the facade is open, whichever of its four
\* handlers came last, and Refresh can be used while it is not
\* (QGocatorWidget.cpp:163-177, 373-377).
ConnectionShown ==
    /\ [](Settled => ui.label = IF ~isOpened THEN "Idle"
                                ELSE IF ui.grabbing THEN "Live" ELSE "Connected")
    /\ []~Overlapping =>
         [](Settled => (ui.connectChecked <=> isOpened) /\ (isOpened \/ ui.refreshOn))

\* No order of the ends of pool operations and of notifications leaves a control
\* disabled that the user needs, although eight handlers disable some of them and six
\* enable some (QGocatorWidget.cpp:163-202, 380-396, 482-488, 949-977): Connect can be
\* clicked, Live while the facade is open, GrabOne and the editors unless the widget
\* takes an acquisition to be under way.
NotLockedOut ==
    Settled => /\ ui.connectOn
               /\ ui.liveOn <=> isOpened
               /\ isOpened /\ ~ui.grabbing => ui.oneOn /\ ui.editors # "off"

\* An acquisition that the widget takes to be under way is, unless a notification of a
\* start was overtaken by that of its end; and one that is under way, whoever has started
\* it and even while open() has not returned, is shown and can be stopped with Live,
\* unless it met the end of another or open() and close() overlapped
\* (QGocatorWidget.cpp:169, 358-371, 375, 418).
AcquisitionShown ==
    /\ []~Overtaken => [](Settled /\ ui.grabbing => isGrabbing)
    /\ [](~GrabMeetsEnd /\ ~Overlapping) =>
         [](Settled /\ isGrabbing => ui.liveChecked /\ ui.grabbing)

\* "Stop acquisition before closing or destroying the facade" (README.md:63): whenever
\* Connect is clicked, and whatever of two open() and close() overlaps, no connection is
\* reset under an acquisition, as long as none begins between the stop() of a close() and
\* its reset (QGocatorWidget.cpp:325, Gocator.cpp:240-257).
FinishedBeforeClosed == []~GrabMeetsClose => [](isGrabbing => isOpened)

\* What the editors show once things have settled was read after the last write, as
\* the record of a write says: "verification": "follow-up-resource-read"
\* (QGocatorWidget.cpp:946).
WritesAreReadBack == Settled /\ isOpened /\ ui.editors # "none" => ui.current

\* Connect, when it is disabled, is enabled again (QGocatorWidget.cpp:382-392) as threads
\* go on and events are handled, unless acquisitions end for ever: with the diagnostic
\* log on, each end may start a reading of the values whose start forgets the end of the
\* last one.
ControlsReturn ==
    Fairness /\ <>[]~Pending("grabbing") => (~ui.connectOn ~> ui.connectOn)

\* Live, its tooltip and its accessible name are "synchronized with acquisition
\* state" (RELEASE_NOTE.md:20).
LiveShown == Settled => (ui.liveChecked <=> isGrabbing)
=============================================================================
