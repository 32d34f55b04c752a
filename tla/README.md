# Verification of Gocator

TLA+ modules, TLC configurations and TLAPS proofs for the C++ sources of this
repository (`C++/`): the acquisition and configuration facade for LMI Gocator
sensors, its internal clients, its Qt widget and its Playground adapter.

- [The system](#the-system): components, state, operations, what is hard
- [The model of the facade](#the-model-of-the-facade)
- [The model of the session](#the-model-of-the-session)
- [The model of the configuration](#the-model-of-the-configuration)
- [The model of the synchronous acquisition](#the-model-of-the-synchronous-acquisition)
- [The model of the frames](#the-model-of-the-frames)
- [The model of the graphics frames](#the-model-of-the-graphics-frames)
- [The model of the widget](#the-model-of-the-widget)
- [The model of the devices](#the-model-of-the-devices)
- [Properties and runs](#properties-and-runs)
- [What the code does not keep](#what-the-code-does-not-keep)
- [Proofs](#proofs)
- [Plan](#plan)
- [Not modelled](#not-modelled)

## The system

| Component | Source | State | Operations | Hard part |
|---|---|---|---|---|
| Facade | `Gocator.cpp` | three atomics, the connection, the GDP client, frame counters, the stop worker, two mutexes | `open`, `close`, `grab`, `stop`, `handleData`, the destructors | three threads, one of them launched by another and joined by the third |
| Observers | `Gocator.cpp`, `GocatorGraphicsFrameStream.cpp`, `GocatorSourceController.cpp` | two maps of callbacks, the stream's gate, the controller's flag | register, deregister, notify, drain | snapshots called without the lock |
| Plugin session | `GocatorPlugin.cpp` | title state, widget, controller, facade | create, destroy | order of the teardown |
| Qt widget | `QGocatorWidget.cpp`, `GocatorControlUi.cpp` | four future watchers, enabled controls, displayed state, the list of devices | discover, connect, grab, live, edit a parameter, shut down | pool threads and queued notifications |
| Sensor configuration | `GocatorSettingsManager.cpp`, `GocatorParameterSet.cpp`, `GocatorResourceClient.cpp`; `configure` in `Gocator.cpp` | the sensor's resources | read, apply, choose an output | one request of several fails |
| Synchronous acquisition | `GocatorAcquisition.cpp` | connection, GDP client | `receiveOne`, `grabOne`, `grabUntilValidProfile`, conversions | the sensor must be stopped on every path |
| Connection | `GocatorConnection.cpp` | the SDK's system | connect, start, stop | `stopNoThrow` hides failures |
| Discovery | `GocatorDiscovery.cpp`, `discoverDevices` and `resolveTarget` in `Gocator.cpp` | none; the widget's list shows what was found | discover, choose a target | devices that answer late, a list that changes under the user's choice |
| SDK runtime | `GocatorSdkRuntime.cpp` | one static | initialise | none of its own |
| GraphicsFrame conversion | `GocatorDataSetGraphicsFrameAdapter.cpp` | none | data set to frame | which message wins, array sizes, null values counted by parallel threads |
| GoPxL SDK | `GoPxL-SDK/` (vendored headers and binaries) | connected flag, queue, threads | `Connect`, `ReceiveDataAsync`, `Close`, `Start`, `Stop` | external |

How they interact. The widget and the source controller call the facade: from
the GUI thread (`grab`, `stop`) and from Qt's thread pool (`open`, `close`,
parameters). The facade owns a `GocatorConnection` for commands and, during an
acquisition, a `GoGdpClient` for data. The client's data thread calls
`handleData`, which calls the registered grab callbacks (the frame stream, which
converts the data set and hands a frame to the controller's consumer) and, when
the frame target is reached, launches the stop worker. `stop()`, from whichever
thread, notifies the status observers (widget, controller, plugin session).

What makes each component correct:

- *Facade*: acquisitions do not overlap; each one ends exactly once, with its
  data thread gone; objects outlive their uses; a reached target ends its own
  acquisition and no other; every call returns; a closed or destroyed facade has
  released everything.
- *Observers*: no callback into a destroyed object; what they show settles on
  what is the case.
- *Plugin session* and *widget*: teardown waits for what is still running; the
  controls allow only what the facade can take, show what is the case and can all
  be used again.
- *Discovery* and the *list of devices*: what is connected to is what was chosen.
- *Sensor configuration*: exactly the intended output after a success; a known
  state after a failure.
- *Synchronous acquisition*: the sensor is stopped on every path that started
  it; the frame returned is one of this call.
- *Conversions*: statistics equal those of the valid samples; the frame shown is
  that of the first message that can be; no array is read behind its end.

## The model of the facade

`GocatorFacade` models `Gocator::Impl`. Three threads run: **api**, the thread
that calls the public operations (one at a time: README.md describes one owner
of the facade; the widget's pool thread is in `PluginSession`); the
SDK's **data** thread; and the **worker** `stopWorker`. A step of the model ends
where another thread can observe or disturb what follows: every access to an
atomic, every blocking call, every call to the SDK. A critical section of
`stopWorkerMutex` contains no such call and is one step. `stopMutex`, which
`stop()` holds across blocking calls, is a variable naming its holder.

| Variable | Code |
|---|---|
| `isOpened`, `isGrabbing`, `stopRequested`, `frameSeq`, `frameTarget` | the fields of the same names |
| `connection`, `gdpClient` | the unique pointers are set (`resources` is set and reset with `connection`) |
| `stopWorker` | `stopWorker.joinable()` |
| `stopMutex` | holder of `stopMutex` |
| `pc["api"]`, `op` | where the caller is, in which operation |
| `pc["worker"]` | where the worker is; `"none"` when no thread exists, `"done"` when it ended and is not joined |
| `data` | where the SDK's data thread is; `"done"` when it ended and is not joined |
| `gdpConnected`, `queued` | `GoGdpClient::IsConnected()` and the number of data sets in its queue |
| `sensor` | the sensor is scanning |
| `shown` | the last `GrabbingStatus` notification |
| `faulty` | the sensor may already scan, a Stop command may fail, the link may break; chosen at the start of a behaviour, so that one model has the behaviours in which they do and those in which they do not |
| `session`, `delivered`, `ends`, `workerFor` | history: acquisitions begun, callbacks and end notifications of the current one, the acquisition that launched the worker |

| Actions | Code |
|---|---|
| `CallOpen`, `OpenResolve`, `OpenConnect`, `OpenLog`, `OpenThrows` | `open()` and its handler, which calls `close()` |
| `CallClose`, `CloseClient`, `CloseConnection`, `CloseOpened`, `Construct` | `close()`, `~Gocator` (which calls it), `~Impl` (which calls it again and joins the worker), a new object |
| `JoinStopWorker`, `WorkerJoined` | `joinStopWorker()` |
| `CallGrab`, `GrabCheck`, `GrabConnect`, `GrabArm`, `GrabReceive`, `GrabStart`, `GrabNotify`, `GrabThrows` | `grab()` and its handler, which calls `stop()` |
| `StopEnter`, `StopFlag`, `StopSensor`, `StopClose`, `StopDrain`, `StopNotify` | `stop()`, by the caller and by the worker |
| `DataLoop`, `DataDequeue` | the SDK's data thread (external) |
| `DataCheck`, `DataCall`, `DataCount`, `DataRequest`, `DataSpawn` | `handleData()`, `requestStopFromCallback()` |
| `SensorSend`, `LinkDrop` | the sensor and the network (external) |

`open()`, `close()`, `grab()` and `stop()` share the bodies of `stop()` and
`joinStopWorker()`; `AfterStop` and `AfterJoin` say where the caller goes on.

What the SDK is taken to do, from its headers and from how `Gocator.cpp` uses
it: `Connect` and the request for the GDP port succeed or throw;
`ReceiveDataAsync` starts the data thread; the thread runs while the client is
connected and takes data sets from a queue; a broken link marks the client
disconnected without telling the facade; `Close()` marks it disconnected and
joins the thread when it was connected, and the destructor joins it in any case;
`Start` and `Stop` may fail, and a `Start` that timed out may have started the
sensor.

`Acquisition` is the abstract specification: `Open`, `Close`, `Start`,
`Deliver`, `Finish` over `open`, `live`, `frames`. `ImplementsAcquisition` in
`GocatorFacadeProperties` says that the facade implements it, with `live` mapped
to `Live`: from the store of `isGrabbing` until `stop()` has notified the end
and released `stopMutex`.

The assumption on the caller. With `OverlappingGrabs = FALSE` the caller does
not call `grab()` while `isGrabbing()`. The code means to skip such a call but
does not always (see `GrabSkippedWhileLive` below), and most properties fail
once it does not. `stop()` and `close()` may be called at any time, in
particular while a counted acquisition is ending by itself.

## The model of the session

`PluginSession` models a Playground session and its end: `GocatorPluginSession`
owns the facade, the source controller (which owns a frame stream) and the title
state, and points to the Qt widget. Three of these observe the status; the
stream, and a stream that another consumer may make, observe the data. The
facade copies its observers under a lock and calls them without it, so that an
observer may be called after it was deregistered; what makes this harmless is
spread over four files and depends on the order of the teardown.

Each thread is a list of steps still to take (`agenda`): the GUI thread, the
widget's pool thread, the stop worker; the data thread has a label (`data`) as
in `GocatorFacade`. A step that calls a function replaces itself with the
function's steps, so that `Close` reads like `close()` and `EndSession` like the
destructor followed by those of the members.

| Variable | Code |
|---|---|
| `isOpened`, `isGrabbing`, `stopRequested`, `stopWorker`, `stopMutex` | as in `GocatorFacade` |
| `connected` | the GDP client is connected |
| `statusObservers`, `grabCallbacks` | the maps of the same names |
| `calling[t]`, `pending` | what is left of the copies that `notifyStatus()` and `handleData()` took |
| `serving`, `leased` | the stream whose callback runs, the leases its gate has given |
| `shut` | gates after `beginShutdown()` |
| `titleActive` | `GocatorPluginTitleState::_active` |
| `alive` | objects that are not destroyed |

| Actions | Code |
|---|---|
| `CallGrab`, `CallStop`, `ConnectToggled`, `AskFacade` | the widget's and the controller's calls, from the GUI thread and from the pool |
| `CreateSession`, `CreateDockWidgets`, `DestroySession`, `MakeStream`, `DropStream` | what the host does |
| `Join`, `Joined`, `OpenFacade`, `Closed`, `GrabFacade`, `Receive`, `StopFacade`, `Flag`, `Disconnect`, `Drain`, `Unlock` | the steps of `open()`, `close()`, `grab()`, `stop()` that a teardown meets, coarser than in `GocatorFacade` |
| `Notify`, `CallObserver`, `Called` | `notifyStatus()` |
| `TellController`, `TellWidget`, `TellTitle`, `ReadTitle`, `Publish`, `Use` | the observers |
| `DataTake`, `DataCall`, `DataUse`, `DataCount`, `DataSpawn` | `handleData()` and the stream's callback |
| `Deactivate`, `Deregister`, `WaitForPool`, `ShutGate`, `Drained`, `Gone` | the steps of the destructors |

What is assumed. The gate is external: `beginShutdown()` ends the giving of
leases and `waitForDrain()` waits for those that are out. The host does not
delete the widget before the session, ends its own streams before the session,
and does not call `grab()` while `isGrabbing()` (see the findings) or while the
pool opens or closes the facade. The pool runs one operation of the widget at a
time: the widget disables Connect while one runs, and its destructor waits for the
last one that it watches. `ControlWidget` shows how a second `open()` or `close()`
can start beside one that still runs (`Overlapping`); the first is then watched no
more, nothing waits for it, and `FacadeOutlivesItsThreads` speaks of behaviours in
which this does not happen.

## The model of the configuration

`SensorSettings` models the operations that configure a sensor: `configure()` of
the facade and `prepareProfileOutput()`, `prepareSurfaceOutput()`,
`readAllConfig()` and `applyConfig()` of `GocatorSettingsManager`. Each is a
chain of REST requests. The order of the requests is data (`ConfigureChain`,
`PrepareChain`, `ReadChain`, `ApplyChain`) and so is what happens when one fails
(`Ignored`); the steps of the model are the requests.

| Variable | Code |
|---|---|
| `sensor` | the resources of the sensor: its engine, the parameters of scanner, scanner root, sensor and tools, the enabled flag of the protocol, the outputs, whether it scans |
| `op`, `request` | the operation under way and its next request |
| `asked` | the arguments of the operation |
| `found` | the engine id it works with |
| `config` | the `GocatorParameterSet` |
| `left` | the tools still to read or to write |
| `result` | how the last operation ended |

| Actions | Code |
|---|---|
| `CallConfigure`, `CallPrepareProfile`, `CallPrepareSurface`, `CallReadAll`, `CallApply` | the calls |
| `Detect`, `DetectFails` | `detectPrimaryScanner()`, and `detectEngineId()` with its default |
| `Ask`, `AskFails`, `Skip` | a request that writes: answered, failed with or without effect, or left out because the set lacks the part |
| `ReadPart`, `ListTools`, `ReadTool`, `ReadFails` | `readAllConfig()`, `listTools()`, which hides its failure |
| `ApplyTool` | the last loop of `applyConfig()`, which ignores failures |
| `Return` | the end of each |
| `ConnectOther` | `disconnect()` and `connect()` of a sensor in another state or with another engine, between reading a set and applying it |

What is assumed. A request takes effect at once or not at all; nothing else
writes to the sensor meanwhile. A resource of a scanner exists under the
sensor's own engine only, so a request that names another engine fails. The
sensor takes any source name for an output: refusing it is one of the failures.
`GoJson` accepts keys without a leading slash, as `addParameter("scanner", ...)`
needs. `configure()` catches its exceptions and returns, which is `"failed"`
here; its early return on a closed facade is `GocatorFacade`'s matter. Of the
parameters, the scan mode, the scan length, the exposure and one value each for
root and tools are kept; the others travel with them.

## The model of the synchronous acquisition

`SyncAcquisition` models `GocatorAcquisition`, with which a caller takes frames
one at a time. There is one thread; what makes it hard is the surroundings: the
control connection and the data connection may break at any time, every command
may fail before or after its effect, nothing may come before the timeout, and
the client's buffer may hold data sets from before the call, because
`stopNoThrow()` hides a sensor that goes on scanning.

| Variable | Code |
|---|---|
| `connected` | `connection_.isConnected()` |
| `gdpClient` | the client: none, not connected, connected |
| `buffer` | the data sets that the SDK's client has buffered (external), each with its kind and whether it was there when the operation was called |
| `scanning` | the sensor is scanning |
| `op`, `frameCount`, `stopAfterReceive` | the operation and its arguments |
| `pc` | where it is |
| `received`, `result` | the frames it has received; how it ended |
| `started`, `stopFailed` | history: how its commands to the sensor ended |

| Actions | Code |
|---|---|
| `CallConnect`, `CallReceiveOne`, `CallGrabOne`, `CallGrabUntilValidProfile`, `CallStart`, `CallStop`, `CallDisconnect`, `CallClear` | the public operations |
| `Connect`, `ConnectClient` | `connect()`: the connection, then the client at the port that the sensor tells |
| `Start`, `StartFails` | `start()`, which is outside the try block of a grab |
| `Clear`, `Receive`, `ReceiveFails` | `receiveOne()`: `ClearData()`, `ReceiveDataSync()` with its timeout, the conversion |
| `Stop` | `stopNoThrow()`, at the end of a grab or in its handler |
| `SensorSend`, `LinkDrop` | the sensor and the network (external) |

## The model of the frames

`DataSetFrames` models `frameFromDataSet()` and the conversions it calls, for one
message of a data set: one point of a profile or one byte of an image is a step.
The message's two widths, that of its ranges and that of its intensities, are
independent of each other, and either array may be missing. `frame` holds the
counts, the set of valid points and the statistics; coordinates (floating-point
copies), identifiers, the lists of spots and the mean of an image's bytes are left out,
and an image's `hasByteStats`, which the code sets behind its loop, is set before it.

`Read` chooses the conversion. `ReadAs` is the class the code takes a message
for, `ClassOf` the one it has. They differ for one type: a `UNIFORM_SURFACE`
message is cast with `static_cast` to `GoGdpImage`
(`GocatorAcquisition.cpp:249-251`), and its accessors are those of an unrelated
class. What they return is undefined, so the model goes on with any message of
that type, and the properties claim nothing of its frame.

## The model of the graphics frames

`GraphicsFrames` models `convertGraphicsFrame()`, with which the plugin's frame
stream turns a data set into the one frame that it hands on. A data set is a
sequence of messages; of a message the model has its type, its identifier, its
size, the size of its array of ranges, which the sensor sends by itself, and the
places of the array that were measured.

| Variable | Code |
|---|---|
| `dataSet`, `at` | the data set, the message the loop is at |
| `phase` | reading the stamp, at a message, in its parallel loop, done |
| `stamp` | `readStamp()`'s result |
| `todo`, `taken` | the cells that no OpenMP thread has taken yet, the cell that each one works on |
| `counted`, `reduced`, `validPointCount` | each thread's share of the count, the threads whose share is in the sum, the sum |
| `validMask` | the cells whose byte of the mask is 1 |
| `shown` | the frame: its message, its identifier, the cells that its mask calls valid |
| `refused` | history: messages whose frame was not valid |

| Actions | Code |
|---|---|
| `ReadStamp` | `readStamp()` |
| `NextMessage` | the loop over the messages: the checks of the four conversions (`Convertible`), the frame with a full mask |
| `TakeCell`, `PutCell`, `Reduce` | the parallel loop with `reduction(+:validPointCount)`; how the cells are divided is OpenMP's choice |
| `MakeFrame` | behind the loop: a mask without an invalid cell is cleared, which means that all are valid (`Mask`); `frame.isValid()` (external) may refuse the frame |

The cell number counts over the message's width and length and the code uses it
as the place in the array, without the array's own width. `Convertible` accepts
an array that is wider than the message. Then every read is still inside the
array (`ReadsInside`), but cells get ranges of other cells: `MaskIsExact`
therefore speaks of arrays as wide as their message. No line of the repository
says which arrays the sensor sends.

A count that is too small would cost nothing (the mask stays); one that is too
large would call invalid cells valid. That is why the property compares the mask
and not the count.

## The model of the widget

`ControlWidget` models `QGocatorWidget` while it is connected to a facade: which
of its controls are enabled and what they show. Three kinds of actors change
them: the user, operations on Qt's thread pool whose ends are delivered by
future watchers, and notifications of the facade, which are queued to the GUI
thread. Eight handlers disable controls and six enable them again. The parameters
are written and read on the pool; the model keeps whether what the editors show
was read after the last write.

| Variable | Code |
|---|---|
| `isOpened`, `isGrabbing` | of the facade |
| `starting` | the GUI thread is in `grab()`, between the store of `isGrabbing` (`Gocator.cpp:378`) and the notification of the start (`:386`) or the failure |
| `ending` | who is in `stop()` between the exchange of `isGrabbing` (`:399`) and the notification of the end (`:416`): nobody, the stop worker or a pool thread in `close()`. `stopMutex` lets one in at a time |
| `connecting` | for each of the pool's `Threads` where `open()` or `close()` is on it |
| `watching` | the thread whose end `_connectWatcher` awaits, if any: `setFuture()` leaves the one before unwatched |
| `running` | the other operations on the pool: discovery, a parameter, the reading of all values |
| `reading` | what the reading of all values has: nothing yet, values from after the last write, values from before it |
| `events` | what was posted to the GUI thread, in order |
| `ui` | the controls (`connectOn`: `Connect` is enabled, `connectChecked`: it is checked, and so on), `_grabbing`, `_parameterUpdateActive`; `editors` is `"none"` when no editor exists; `label` is the status; `current`: the editors show what was read after the last write |

| Actions | Code |
|---|---|
| `RefreshClicked`, `ConnectToggled`, `GrabOneClicked`, `GrabLiveToggled`, `ParameterChanged` | the user |
| `HostCalls` | `grab()` and `stop()` by the source controller |
| `GrabReturns` | the second half of a `grab()`, which notifies the start, or fails and stops; the first half (`GrabFacade`) is part of the click or the call |
| `AcquisitionEnds`, `WorkerNotifies` | the stop worker of a frame target that is reached: its exchange, its notification |
| `Opening`, `Resolving`, `Opened`, `Stopping`, `Notifying`, `Closing`, `Closed` | the steps of `open()` and `close()` that set a flag or notify; a failed `open()` goes on in `close()` |
| `Returning` | the watched `open()` or `close()` has returned, and its watcher's event is posted |
| `Reading`, `Writing` | `getParametersData()`, `setParameterValue()` |
| `Finishing` | the end of a discovery or of a reading |
| `ConnectFinished`, `DiscoverFinished`, `ParamFinished`, `FeaturesFinished` | the handlers of the watchers |
| `GrabbingChanged`, `ConnectionChanged` | `handleStatusChanged()`; the log's category, whose being enabled has the end of an acquisition read all values, is left open at each end |

`setFuture()` of a watcher that still has an event of its last future pending
drops that event (`Forgotten`).

Flags and notifications are separate steps, so that the worker can notify the end of
an acquisition before `grab()` has notified its start, as in `facade_stale`; and the
user and the host may do at any moment what the controls allow: click a grab while
`close()` runs or before `open()` has returned, click Connect while another `open()` or
`close()` goes on. Nothing is assumed of them but `MaxPending`, which holds them back
while as many operations and events are under way (pool and facade post beyond it).
While the GUI thread is in `grab()` it neither handles events nor is anything clicked.
What `grab()`, `stop()` and `close()` do to client, data thread and sensor is
`GocatorFacade`'s matter, and the widget's end, when all of this is still under way,
`PluginSession`'s.

Four situations are named, because a property is false of the code once one of
them has occurred:

- `Overlapping`: two of `open()` and `close()` are under way. Connect is disabled while
  one is, but the end of another operation (a reading of the values that the end of an
  acquisition has begun) and a status of the last connection that still waits enable it
  (`QGocatorWidget.cpp:394`, `:409`).
- `Overtaken`: an acquisition is over, its end notified, and its start is not: `grab(1)`
  of GrabOne, whose worker is faster than `Gocator.cpp:386`.
- `GrabMeetsClose`: `grab()` sets `isGrabbing` while a `close()` is between its `stop()` and
  its reset of `isOpened`: GrabOne and Live stay enabled during a `close()`.
- `GrabMeetsEnd`: an acquisition is under way while the `stop()` or the `close()` of the
  one before still goes on on another thread. It contains `GrabMeetsClose`.

## The model of the devices

`DeviceChoice` models how a device is chosen: discovery, the editable list of
`QGocatorWidget`, and what `open()` makes of the address it is given. The list is
filled by a discovery, edited and selected from by the user, replaced when a
discovery ends (the list stays enabled meanwhile), and changed when a connection
is shown. Its entries read like names (`formatDeviceName()`), stand for
addresses, and may be renamed on connection, while its text may be an entry's, an
address or anything between two keystrokes.

| Variable | Code |
|---|---|
| `combo` | `_ipCombo`: entries with text and data, current index (0 for none), edited text |
| `discovering` | `_discoverWatcher` runs |
| `connection` | where a connection is: none, opening, opened, shown, closing |
| `target` | the address given to `open()` |
| `opened` | the address the facade is connected to |
| `chosen` | history: what the user or the host has chosen last |

| Actions | Code |
|---|---|
| `Edit`, `Select`, `Enter` | the user, in the list (Qt; Return appends the edited text) |
| `SetIpAddress`, `SetDiscoveredDevices` | the host and the session |
| `RefreshClicked`, `DiscoverFinished` | `onRefreshClicked()`, `applyDiscoveredDevices()` |
| `ConnectToggled` | `onConnectToggled()`, with `ipAddress()` |
| `OpenSucceeds`, `OpenFails`, `CloseEnds` | `open()` and `close()` on the pool, `resolveTarget()` |
| `ApplyConnectionState` | `applyConnectionState(true)`, once for the notification and once for the end of `open()` |

`Answers` is what a discovery may return: the devices that answer in time, in any
order. `discoverDevices()` tries a classic discovery when the standard one finds
nothing; `resolveTarget()`, for an empty address, does not, and takes the first
device that can be connected locally. What is assumed: texts are trimmed and not
empty when they matter; no two devices answer with the
same address; a device's names are different from all addresses and from the names of
other devices (they end in the address); the host sets an address
only while the list is enabled. The address is all that `open()` gets: the control
port that a discovery reported is used by `resolveTarget()` and not for a device
that was selected in the list.

## Properties and runs

The properties of a component are in the module `...Properties` beside its own.
Each of these modules begins with a type invariant. All are proved; those of the
session and the widget, which say more than types, are checked by their runs, too.

| Property | Says |
|---|---|
| `StopsTakeTurns` | the two callers of `stop()` never overlap inside it (a lemma of the proofs) |
| `ObjectsOutliveTheirUses` | the pointers that `grab()`, `stop()` and the data thread use are set there, although `stop()` resets one of them |
| `QuietBeforeReceive` | no thread of an earlier acquisition is left when `grab()` prepares the next |
| `NoCallbackAfterStop` | when no acquisition is under way no data thread exists |
| `FramesNumberedFromZero` | a callback's `frameSeq` counts the callbacks before it in its own acquisition |
| `StopRequestNotLost` | the request of a reached target always finds room for its worker |
| `WorkerStopsItsOwn` | a late worker stops no later acquisition |
| `EndNotifiedOnce` | each end is notified once, whoever raced to cause it |
| `NothingLeft` | what is left after `close()` and after the destructor |
| `ImplementsAcquisition` | refinement of `Acquisition` |
| `TargetEndsAcquisition`, `EveryCallReturns` | liveness: a reached target ends the acquisition; no call blocks for ever |
| `SensorStoppedWhenIdle`, `CountedGrabEnds` | in behaviours that are not `faulty`: idle means stopped; a counted grab ends by itself |
| `CallsReachTheLiving` | (session) a notification under way reaches only living observers, and no registration outlives its observer |
| `FramesReachTheLiving` | (session) a data set is converted only by a living stream, for a living controller |
| `FacadeOutlivesItsThreads` | (session) the facade is destroyed after the last thread has left it |
| `CallsReturn` | (session) liveness: the teardown and every other call end |
| `OutputComesLast` | (configuration) an output is added only after the mode, exposure and length that were asked for are set and the protocol is enabled |
| `AddedIsOfTheEngine` | (configuration) an assumed engine adds no output of the wrong engine |
| `PreparedMeansOnlyOutput` | (configuration) the prepared output is the only one, whatever was there before |
| `AppliedInOrder`, `AppliedIsTheConfig` | (configuration) a failed `applyConfig()` has applied a beginning of the set, one that returns the whole, but for the tools |
| `StoppedOnEveryPath` | (synchronous) a grab that started the sensor leaves it stopped, returning or throwing |
| `FrameIsNew` | (synchronous) no frame from before the call is returned |
| `FirstUsefulFrame` | (synchronous) `grabUntilValidProfile()` returns the first image or valid profile, or the last of the frames it may receive |
| `CallEnds` | (synchronous) liveness: every operation ends |
| `StatisticsAreExact` | (frames) the counts and statistics are those of the measured points and of the intensities seen |
| `FirstIsShown` | (graphics frames) the frame is that of the first message that can be converted and is valid, its identifier that of the first stamp, wherever the stamp is |
| `ReadsInside` | (graphics frames) no thread reads behind the end of an array |
| `MaskIsExact` | (graphics frames) the mask calls valid what was measured, however the threads share the cells |
| `ConnectionShown` | (widget) once things settle the label follows the flags; where no two of `open()` and `close()` overlap, Connect shows whether the facade is open and Refresh can be used while it is not |
| `NotLockedOut` | (widget) no order of ends and notifications leaves Connect or Live disabled that the user needs, or GrabOne and the editors while the widget shows no acquisition; without any exception |
| `AcquisitionShown` | (widget) an acquisition that is shown once things settle is under way, but for `Overtaken`; one that is under way, even one that began before `open()` returned, is shown and Live stops it, but for `GrabMeetsEnd` and `Overlapping` |
| `FinishedBeforeClosed` | (widget) however many `open()` and `close()` overlap, none closes the facade under an acquisition, but for `GrabMeetsClose` |
| `ControlsReturn` | (widget) liveness: a disabled Connect is enabled again |
| `ChoiceKept` | (devices) a chosen device stays chosen through discoveries, failures and connections |
| `OpensTheChosen` | (devices) what is opened is the last choice; when `open()` is given no address, a device that can be connected locally |
| `ConnectedIsShown` | (devices) while connected the list stands for that device |

| Run | Configuration | Question |
|---|---|---|
| `facade` | `Facade.cfg` | all safety properties, the refinement and the liveness properties under `FairSpec`, in faulty behaviours and in others |
| `facade_stale`, `facade_overlap` | `FacadeStale.cfg`, `FacadeOverlap.cfg` | the two findings on the facade, below |
| `session` | `Session.cfg` | the session's properties, with an acquisition, a pool operation and a notification under way when it is destroyed, and that the teardown, which blocks the GUI thread on the pool, the worker, the data thread and the gate, ends |
| `settings` | `Settings.cfg` | the properties of the configuration, with a failure at any request |
| `settings_surface` | `SettingsSurface.cfg` | the finding on the configuration |
| `sync` | `Sync.cfg` | the properties of the synchronous acquisition, with failing commands, breaking links and old data |
| `conversions` | `Conversions.cfg` | the two conversions of a data set, in `MCConversions`: the statistics against their definitions over all messages of up to three points, and the graphics frame of every data set of up to three messages with two OpenMP threads |
| `widget` | `Widget.cfg` | the properties of the widget, with every order of ends and notifications |
| `widget_live`, `widget_readback` | `WidgetLive.cfg`, `WidgetReadback.cfg` | the findings on the widget |
| `devices` | `Devices.cfg` | the properties of the list, with three devices: one that any discovery finds, one that only a standard one finds first or later, one classic |

Bounds of the facade. `MaxSessions = 2`: a second acquisition is what a worker, a data thread
or a count left over from the first could disturb; a third adds no new
predecessor. Between them the facade may be closed, destroyed and made anew.
`MCTargets == {0, 1, 2}`: continuous, a target reached by the first frame and
one reached later. `MaxQueue = 2` and `MaxFrames = 3`: enough for a target of 2
to be reached with a further data set waiting. `MaxQueue` and `MaxFrames` bound
the device, not the code. Deadlock is checked in every run.

Bounds of the session. It has no counters: `Others`, one stream of another
consumer, is the only parameter (two give no further kind of interleaving, since
the data thread runs one callback at a time). Sessions, acquisitions and
connections repeat for ever.

Bounds of the configuration. Two engines, one of them the confocal one that the
code singles out; two values of a parameter, one that is there and one that is
asked for; one tool: tools are written independently of each other, and the
proofs cover any number.

Bounds of the others. `FrameCounts = {0, 2, 3}`: fewer frames than one, which
the code raises to one, and counts with one and two unsuccessful frames before
the last. `MaxQueue = 2` bounds the client's buffer: a data set that is there and
one behind it. `Widths = {0, 1, 3}`, two heights besides the null value and two
intensities: empty, one point (first, smallest and largest at once) and three,
with each order of extremes; surfaces are left out of the run for their number
and are covered by the proofs. The messages of graphics frames (`MCPackets`) have
arrays that are longer, shorter, wider and as large as the message, a size of zero
and one beyond `IntMax = 4`; three of them in a row have a stamp before, between
or behind. Two threads are what a race on the mask or the sum takes. A conversion
ends, so `Conversions.cfg` has `CHECK_DEADLOCK FALSE`. `MaxItems = 2` bounds the
answers to a discovery and the entries to which Return adds one, with three
addresses to choose from, one of which is always missing from the list.
`Threads` has two pool threads, which is what an `open()` or a `close()` beside another
takes, and `MaxPending = 2` lets the user and the host act while one operation runs or
one event waits, so that up to three operations and any number of their events and of
the facade's are under way. All four named situations occur within these bounds. The
two findings need one thread. TLC finds the properties to hold with one thread and
`MaxPending = 3` (1.2 million states), too, and the theorems cover every number of
threads and every `MaxPending`.

Fairness. `FairSpec` gives weak fairness to the body of an operation once it
was called, to each thread inside `stop()` and to the data thread: the operating
system schedules threads that can run. `stopMutex` needs no more than weak
fairness: a `stop()` that finds nothing to do takes and releases it in one step,
and one that finds an acquisition keeps it once per acquisition, so the lock
stays free for the other thread from some point on. Nothing makes the program call an operation or the sensor send;
`CountedGrabEnds` supposes weak fairness of `SensorSend` in its own premise,
because it speaks of a sensor that goes on sending. `PluginSession`'s `FairSpec` is the same
for its four threads, whose teardown steps are a fairness condition of their own;
neither the host nor the sensor has to do anything. In `SyncAcquisition` the
calling thread runs on, and a receive that gets nothing times out. In
`ControlWidget` (`Fairness`, the premise of `ControlsReturn`, since no other property needs
it) pool threads and the stop worker run, and the GUI thread returns from `grab()` and
takes its events; nobody has to click. `ControlsReturn` supposes that acquisitions do not end for ever: with
the diagnostic log on, each end may start a reading of all values, and the start
of a reading forgets the end of the one before, which would have enabled the
controls.

## What the code does not keep

Five statements of the repository that the models show to be broken, each by a
run that TLC must find violated:

- `StatusSettles`. `grab()` notifies `GrabbingStatus = true` at
  `Gocator.cpp:386`, after `start()` and without `stopMutex`. With a small frame
  target the worker's `stop()` can have notified `false` before. The observers
  then show an acquisition that is over until the next one, against
  RELEASE_NOTE.md:20 ("synchronized with acquisition state").
- `GrabSkippedWhileLive`. `grab()` joins the worker first (`Gocator.cpp:353`)
  and checks `isGrabbing` after. A worker launched in between that has already
  exchanged `isGrabbing` lets `grab()` go on ("Grab skipped: Gocator is already
  grabbing." is not printed) and replace `gdpClient` while the worker's `stop()`
  still uses it.
- `SurfaceIsAsked`. `prepareSurfaceOutput()` replaces the first "Profile" of the
  source id ("Try to find a surface source", `GocatorSettingsManager.cpp:253`).
  For `LMIConfocalLineProfiler` that is inside the engine's name: it asks for
  `topUniformProfileLayer0` of an engine "LMIConfocalLineSurfacer". `configure()`
  builds the right name.
- `LiveShown`. A click on Live when `grab()` is skipped or fails before it sets
  `isGrabbing` leaves Live checked with no acquisition: nothing is notified that
  would uncheck it, against RELEASE_NOTE.md:20, which also speaks of Live.
- `WritesAreReadBack`. Each write of a parameter is logged with "verification":
  "follow-up-resource-read" (`QGocatorWidget.cpp:946`), and its end calls
  `updateFeatureValues()`. While a reading of all values runs the editors are
  disabled, but the end of an acquisition (a failed GrabOne, the host's stop) and
  `applyConnectionState()` enable them: `setRunningState()` looks at
  `_parameterUpdateActive` only. A
  value edited then may be written after the running reading has read it. The end
  of the write starts no reading, because one is running, and that one shows the
  value from before: the follow-up read does not happen and the editor stays
  wrong until the next write.

Met while modelling, and not the subject of a run:

- `handleData()` drops data sets only once `isGrabbing` is false, which the worker
  does later: `grab(1)` may run the callbacks for several data sets.
- `listTools()` swallows a failed request, so that `readAllConfig()` returns a set
  without tools as if it were whole (action `ListTools`).
- The cast of a surface to an image (action `Read` of `DataSetFrames`).
- What the start that was overtaken does to the widget (`Overtaken`). The widget handles
  `false`, then `true`: the label reads "Live", Live is checked, and GrabOne and the
  editors stay disabled although nothing is acquired, until an acquisition has ended
  once more. A click on Live, which reads "Stop live acquisition", finds nothing to stop
  and notifies nothing; the next click starts one. `NotLockedOut` therefore
  promises GrabOne and the editors only while the widget shows no acquisition, and
  `AcquisitionShown` names the exception.
- A grab that begins while `close()` is on the pool (`GrabMeetsClose`): the acquisition
  goes on without a connection, or it ends behind the notification of the close, and the
  widget is left showing the one without the other. The two calls also use and reset the
  same client and connection on two threads, which no model here follows:
  `GocatorFacade` has one caller.
- A grab before `open()` has returned. The first `applyConnectionState(true)` enables
  GrabOne, Live and the editors; the second, for the end of `open()`, calls
  `setRunningState(false)` behind the status of the acquisition
  (`QGocatorWidget.cpp:418`), and GrabOne and the editors stay enabled during it.
  The same happens when `open()` is called once more during an acquisition that the host
  has started. `AcquisitionShown` promises what is left: the acquisition is shown, and
  Live stops it.
- Two of `open()` and `close()` that overlap (`Overlapping`). What they notify may come in
  another order than what they do to `isOpened`, and only the last is watched: Connect
  may then read "Connect" although the facade is open, and Refresh stay disabled although
  it is not. `isOpened` itself is tested and set in two steps, so that `open()` may be
  run twice.
- A `close()` on the pool can reset the resource client (`Gocator.cpp:248`) while
  a reading or a write on another pool thread, which has tested `isOpened`, uses
  it. The overlap has the cause of `WritesAreReadBack`: the end of one operation
  enables what another has disabled. In the model the call is one step.
- Arrays of ranges that are wider than their message (`MaskIsExact`).
- `applyConnectionState(true)` fills the editors with synchronous requests on the
  GUI thread, which README.md:65 tells users of the facade not to do.
- The source controller sets its own `_isGrabbing` before it calls `grab()`, which
  may be skipped.
- An array of frames is numbered by the stream's sequence, not by the identifier
  that the adapter gave it (`GocatorGraphicsFrameStream.cpp:65`).

## Proofs

`GocatorFacadeProofs` proves, for every value of the constants allowed by
`FacadeAssumption`, `TypeCorrect` (any caller) and, for a caller that does not
overlap grabs, the ten other invariants and the refinement. Liveness is TLC's
alone: it and `ENABLED` are out of the prover's reach.

The argument. None of the invariants is inductive by itself; `IInv` is their
strengthening:

- `OpInv`: which operation can be at which label, and which destructor phase;
- `LockInv`: `stopMutex` is held exactly by the thread inside `stop()`, and
  `isGrabbing` is false while it is held;
- `ConnectionInv`: where `connection` is set, and that an acquisition implies
  it;
- `ClientInv`: where `gdpClient` and the data thread exist, as a function of
  where the threads are;
- `WorkerInv`: the worker exists exactly when `stopWorker` is joinable or the
  caller is joining it, belongs to the current acquisition, and beside a data
  thread only once `stopRequested` is set, so that the data thread requests no
  other;
- `CountInv`: how `frameSeq` lags behind `delivered`;
- `EndNotifiedOnce` and `TypeOK` themselves.

`SensorStoppedWhenIdle` needs one more, `ReliableInv`, relative to `IInv`: in a
behaviour that is not faulty a scanning sensor has an acquisition that is still to
be stopped, and before `start()` it sends nothing that could launch a worker, so that
the Stop cannot overtake the Start.

The heart is `WorkerInv`: `stopRequested` is reset only by a `grab()` that has
joined the previous worker, so at most one worker exists and it belongs to the
acquisition that launched it. `Invariance` proves `Spec => []IInv`, with one
lemma per group of actions; each invariant follows from `IInv` at once; the
refinement maps `GrabArm` to `Start`, `DataCall` to `Deliver`, `StopNotify` to
`Finish`, `OpenConnect` to `Open`, `CloseOpened` to `Close` and every other step
to a stutter.

`SensorSettingsProofs` proves, for every set of engines, values and tools
allowed by `SettingsAssumption`, all six properties of the `settings` run. Its
`IInv` says what a chain has achieved before each of its requests: `ChainInv`
(each operation is at a request of its own chain), `ReadInv` (the tools to read
or write exist), `FoundInv` (past the first write, the engine is the sensor's:
this is what makes the default of `detectEngineId()` harmless), `AskedInv`,
`OutputInv` and `AppliedInv` (what the requests so far have set). `AskingSteps`
and `ApplySteps` first reduce the next-state relation to the steps an operation
can take; `FollowingIs` gives the next request. The action properties follow
from `IInv` before the step and the step itself. Tools are functions over sets,
so no induction is needed.

`SyncAcquisitionProofs` proves `TypeCorrect`, `OnlyNewFrames`, `UsefulFirst` and
`AlwaysStopped` for every set of frame counts and every buffer. Its `IInv` adds
to `TypeOK`, `FrameIsNew` and the shape of `FirstUsefulFrame`: `OpInv` (which
operation can be where), `BeforeStart` (nothing is received and nothing started
before the sensor is), `BufferInv` (what is in the buffer after `ClearData()` is
new), `LoopInv` (in the loop every frame so far was empty and one more may be
received) and `EndInv` (what holds of the frames when the result is known).

`DataSetFramesProofs` proves `TypeCorrect` and `ExactStatistics` for every set of
types, surfaces included, and for messages of any width. The three parts of
`StatisticsAreExact` are nearly inductive: `DoneInv` adds that no
more is done than the message has and that an unread message has an empty frame.
`Measured` and `Seen` grow by at most one element in a step, so cardinalities and
extremes follow from those of the step before, with no induction over data.

`GraphicsFramesProofs` proves `GraphicsTypeCorrect`, `FirstIsShownHolds`,
`ReadsInsideHolds` and `MaskIsExactHolds` for any messages, data sets of any
length and any number of threads. `GInv` is made of
`StampInv`, `PassedInv` (every message before `at` was refused or cannot be
converted), `LoopInv` (a cell is to do, or with one thread, or done), `MaskInv` (a
cleared byte is that of a cell that was not measured, no cell is counted twice, and
the sum is the number of cells that the reduced threads have counted) and
`ResultInv`. The mask is cleared only when the sum is the number of all cells, and
then no cell can have been invalid; this is where finite cardinalities are needed.

`DeviceChoiceProofs` proves `TypeCorrect`, `ChoiceSurvives`, `ChosenIsOpened` and
`OpenedIsShown` for all sets of addresses and lists of any length. What makes them
inductive is in `TypeOK`, where an entry has an address or reads like one, and not
both, so that what the user types is never taken for a name; and in
`ConnectionInv`, how far the connection is and that the address given to `open()` is
the one the list still stands for.

`PluginSessionProofs` proves `TypeCorrect`, `CallsReachTheLivingHolds`,
`FramesReachTheLivingHolds` and `FacadeOutlivesItsThreadsHolds` for every set `Others`
of streams. A thread's state is its agenda, the sequence of what it has yet to do,
which steps replace by other steps. The idea of `IInv` is that what a thread has yet
to do tells what it has done: as long as a stream's `gone` is on the agenda, either
its `drained` comes before it or the stream is drained already (`Before`). With
`Once` (a step is on an agenda once) and `Leading` (a notification that has begun is
finished first) this is enough, and no induction over agendas is needed. Its parts:

- `NotifyInv`, `MutexInv`, `WorkerInv`, `JoinInv`: what the agendas say of the
  notifications, of the holder of `stopMutex`, of the worker and of who joins it;
- `DataInv`: what the data thread may still call lives or has shut its gate;
- `RegisteredInv`, `GateInv`, `ControllerInv`, `PoolInv`, `GrabInv`: the order of the
  teardown, an object at a time;
- `FacadeInv`: the facade drains the data thread, joins the worker and is destroyed,
  in the last steps of its agenda;
- `UseInv` and the three properties.

`Step(t, s, more)` says once for all threads what a step `s` that is replaced by
`more` may change, so that each part is proved for `Step` instead of for each of the
steps; the destructors' agendas (`EndSession` and its parts) are shown to be `Ordered`
where they begin. That the whole order of `~GocatorPluginSession` is one that keeps
the invariant is the lemma `SessionOrders`.

`ControlWidgetProofs` proves, for any number of pool threads and whatever is under way,
`TypeCorrect`, `NotLockedOutHolds`, `ConnectionShownHolds`, `AcquisitionShownHolds` and
`FinishedBeforeClosedHolds`. No hypothesis on user or host is needed; where a property
has an exception, it is in the property's formula.

The properties speak of a widget that has handled all that waited for it. Their
invariant has to say what a sequence of events is going to do. Two
statements replace a recursion over that sequence: `Waits(q, S)`, an event of `S`
waits; and `Redressed(q, W, R)`, after every event of `W` waits one of `R`. While the
facade is closed, say, every waiting event that checks Connect is followed by one that
unchecks it, and Connect is unchecked already or such an event waits (`CheckedInv`).
Both survive that an event is taken or appended. A watcher's `setFuture()` may take
an event out of the middle: the type invariant says that there is one at most
(`Single`), so that `Forgotten` is a removal of one index. A flag that a thread has
changed and not yet notified is the third excuse (`Unsaid`, `ending`, `starting`).

- `IInv`, in every behaviour: `TypeOK`, `ConnectInv`, `LiveInv`, `GrabOneInv` and `LabelInv`,
  one for each control: it is right, or something that will put it right runs or waits.
- `OneInv`, while no two of `open()` and `close()` overlap: `RunInv` (each is watched and
  knows whether the facade is open), `CheckedInv`, `RefreshInv`.
- `EndInv`, until a start is overtaken: with no acquisition no start is the last word.
- `CloseInv`, until a grab meets a close: a `close()` that has stopped stays without an
  acquisition, and an acquisition has a connection.
- `StartInv`, on top of `OneInv` and `CloseInv` and until an acquisition meets the end of
  another: behind all that clears Live comes the start that was notified.

`Kept` says of a step that it keeps these five, each under its condition. The actions are
first reduced to classes (`StatusStep`, `BeginStep`, `ToggleStep`, `EndStep`, `RunStep`
and, for the handlers, `Answers`; `Reading` and `Returning` remain by themselves), and each
class is shown to keep each part. The theorems then combine `NextKeeps` with the
property's own premise, `[]~Overlapping` and the like, in temporal logic.

What stays with TLC: liveness (`TargetEndsAcquisition`, `EveryCallReturns`,
`CountedGrabEnds`, `CallsReturn`, `CallEnds`, `ControlsReturn`) and the five statements
that are violated.

## Plan

Done: facade, session, configuration, synchronous acquisition, both conversions,
widget, devices, and the theorems on all of them. What could follow:

An abstract facade with its notifications, which `GocatorFacade` is shown to
implement and `ControlWidget` and `PluginSession` use, in place of the steps of `grab()`,
`stop()`, `open()` and `close()` that each of them has of its own. `Acquisition` is its
part without notifications. And a `PluginSession` whose pool runs several operations
at a time.

## Not modelled

The repository has some 64,000 lines in C and C++, of which 59,000 are the vendored
headers of the GoPxL SDK (`GoPxL-SDK/`), whose implementation is binary; these are
declarations of a library, modelled only as the code uses them. The repository's own
code has some 5,000 lines. Of these are not modelled:

- `listSources` and the reading of schemas, which are single requests or read-only;
  `configureScanTuning`, up to four updates that do not depend on each other; the
  setters of single values of the facade (`setExposure` and the like), which are
  `setParameterValue()`, a step of `ControlWidget`;
- the widget's setters that keep a value in `_pendingParams` until editors exist:
  nothing in the repository calls them;
- logging, JSON formatting, the mapping of a schema to editors, widget layout, icons
  and the translation of texts, the floating-point coordinates and the intensity
  copies of the conversions: no property speaks of them;
- `GocatorSdkRuntime`, one function-local static;
- the plugin's metadata and the tests, which have no state of the system.
