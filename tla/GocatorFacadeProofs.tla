------------------------ MODULE GocatorFacadeProofs ------------------------
(***************************************************************************)
(* GocatorFacade for every value of the constants: type correctness, and,  *)
(* for a caller that does not call grab() while isGrabbing(), an inductive *)
(* invariant that implies the safety properties of                         *)
(* GocatorFacadeProperties, and the refinement of Acquisition.             *)
(***************************************************************************)
EXTENDS GocatorFacadeProperties, TLAPS

\* Which operation the api thread can be in at each label.
OpInv ==
    /\ pc["api"] \in {"open_resolve", "open_connect", "open_log"} => op = "open"
    /\ pc["api"] \in {"grab_check", "grab_connect", "grab_arm", "grab_receive",
                      "grab_start", "grab_notify"} => op = "grab"
    /\ pc["api"] \in {"close_client", "close_connection", "close_opened"} =>
         op \in {"open", "close", "destroy", "destruct"}
    /\ pc["api"] \in {"join", "joining"} =>
         op \in {"open", "close", "grab", "destroy", "destruct", "members"}
    /\ pc["api"] \in {"stop_enter"} \cup InStop =>
         op \in {"open", "close", "grab", "stop", "destroy", "destruct"}
    /\ pc["api"] = "gone" => op = "members"

LockInv ==
    /\ StopsTakeTurns
    /\ stopMutex # "none" => ~isGrabbing

\* The connection while it is being made, used and given up.
ConnectionInv ==
    /\ Live => isOpened /\ connection
    /\ isOpened => connection \/ pc["api"] = "close_opened"
    /\ connection /\ ~isOpened =>
         /\ op = "open"
         /\ pc["api"] \in {"open_connect", "join", "joining", "stop_enter",
                           "close_client", "close_connection"}
    /\ pc["api"] \in {"grab_connect", "grab_arm", "grab_receive", "grab_start"} =>
         isOpened /\ connection
    /\ pc["api"] = "open_connect" => connection
    /\ pc["api"] \in {"close_client", "close_connection", "close_opened"} => ~Live
    /\ pc["api"] = "close_opened" => ~connection
    /\ pc["api"] \in {"open_resolve", "open_connect"} => ~isOpened
    /\ op \in {"destruct", "members"} => ~isOpened

\* The client serves an acquisition until stop() has drained it.
Serving ==
    \/ isGrabbing
    \/ \E p \in Threads : pc[p] \in {"stop_flag", "stop_sensor", "stop_close", "stop_drain"}

ClientInv ==
    /\ Serving => gdpClient
    /\ data # "none" => Serving
    /\ gdpClient => isOpened
    /\ pc["api"] \in {"grab_arm", "grab_receive"} => gdpClient
    /\ pc["api"] = "grab_receive" => isGrabbing
    /\ pc["api"] \in {"close_connection", "close_opened"} => ~gdpClient

\* There is at most one worker, its handle is stopWorker or the one being
\* joined, and grab() begins an acquisition without one.
WorkerInv ==
    /\ stopWorker => pc["worker"] # "none"
    /\ pc["worker"] # "none" => stopWorker \/ pc["api"] = "joining"
    /\ pc["api"] = "joining" => ~stopWorker /\ pc["worker"] # "none"
    /\ pc["worker"] # "none" => workerFor = session
    /\ data # "none" /\ pc["worker"] # "none" => stopRequested /\ data # "spawn"
    /\ data = "spawn" => stopRequested
    /\ op = "grab" /\ pc["api"] \in {"join", "joining", "grab_check", "grab_connect", "grab_arm"} =>
         ~isGrabbing
    /\ pc["api"] \in {"grab_check", "grab_connect", "grab_arm", "grab_receive"} =>
         pc["worker"] = "none" /\ data = "none"
    /\ pc["api"] = "gone" => pc["worker"] = "none"

\* How far the count of frames lags behind the callbacks.
CountInv ==
    data # "none" \/ pc["api"] = "grab_receive" =>
        delivered = IF data = "count" THEN frameSeq + 1 ELSE frameSeq

\* In a behaviour that is not faulty the sensor scans for an acquisition that
\* is still to be stopped, and does not before start(): no data set can have
\* launched a worker that sends Stop before Start.
ReliableInv ==
    ~faulty =>
        /\ sensor => isGrabbing \/ \E p \in Threads : pc[p] \in {"stop_flag", "stop_sensor"}
        /\ pc["api"] \in {"grab_connect", "grab_arm", "grab_receive", "grab_start"} => ~sensor
        /\ pc["api"] \in {"grab_arm", "grab_receive", "grab_start"} => queued = 0
        /\ pc["api"] = "grab_start" =>
             /\ isGrabbing /\ pc["worker"] = "none"
             /\ data \in {"loop", "dequeue", "done"}

IInv ==
    /\ TypeOK
    /\ OpInv
    /\ LockInv
    /\ ConnectionInv
    /\ ClientInv
    /\ WorkerInv
    /\ CountInv
    /\ EndNotifiedOnce

-----------------------------------------------------------------------------
(* Type correctness. *)

\* The fields begin with their types.
LEMMA InitFields == Init => FieldsOK
  <1> SUFFICES ASSUME Init PROVE FieldsOK
    OBVIOUS
  <1>1. sensor \in BOOLEAN
    BY DEF Init
  <1>2. QED
    BY <1>1 DEF Init, FieldsOK, Ops, DataLabels

\* A behaviour is faulty or not from its beginning.
LEMMA FaultyStep == faulty \in BOOLEAN /\ [Next]_vars => faulty' \in BOOLEAN
  <1>1. [Next]_vars => faulty' = faulty
    BY DEF Next, vars
  <1>2. QED
    BY <1>1

\* The fields keep their types.
LEMMA FieldsStep == FieldsOK /\ faulty \in BOOLEAN /\ [Next]_vars => FieldsOK'
  <1> SUFFICES ASSUME FieldsOK, faulty \in BOOLEAN, [Next]_vars PROVE FieldsOK'
    OBVIOUS
  <1> USE FacadeAssumption DEF FieldsOK, flags, objects, counts, stopping, link, history
  <1>1. CASE CallOpen
    BY <1>1 DEF CallOpen, Call, Ops
  <1>2. CASE Call("stop", "stop_enter")
    BY <1>2 DEF Call, Ops
  <1>3. CASE CallClose
    BY <1>3 DEF CallClose, Call, Ops
  <1>4. CASE CallGrab
    BY <1>4 DEF CallGrab, Call, Ops
  <1>5. CASE Construct
    BY <1>5 DEF Construct, Ops
  <1>6. CASE OpenResolve
    BY <1>6 DEF OpenResolve
  <1>7. CASE OpenConnect
    BY <1>7 DEF OpenConnect
  <1>8. CASE OpenThrows \/ OpenLog
    BY <1>8 DEF OpenThrows, OpenLog, Go
  <1>9. CASE JoinStopWorker
    BY <1>9 DEF JoinStopWorker
  <1>10. CASE WorkerJoined
    BY <1>10 DEF WorkerJoined
  <1>11. CASE CloseClient
    BY <1>11 DEF CloseClient, DrainClient, DataLabels
  <1>12. CASE CloseConnection
    BY <1>12 DEF CloseConnection
  <1>13. CASE CloseOpened
    BY <1>13 DEF CloseOpened, Ops
  <1>14. CASE GrabCheck
    BY <1>14 DEF GrabCheck, Go
  <1>15. CASE GrabConnect
    BY <1>15 DEF GrabConnect
  <1>16. ASSUME NEW n \in Targets, GrabArm(n) PROVE FieldsOK'
    <2>1. frameTarget' \in Nat /\ session' \in Nat
      BY <1>16 DEF GrabArm
    <2>2. QED
      BY <1>16, <2>1 DEF GrabArm
  <1>17. CASE GrabReceive
    BY <1>17 DEF GrabReceive, DataLabels
  <1>18. CASE GrabStart
    BY <1>18 DEF GrabStart
  <1>19. CASE GrabThrows
    BY <1>19, ZenonT(60) DEF GrabThrows
  <1>20. CASE GrabNotify
    BY <1>20 DEF GrabNotify
  <1>21. CASE DataLoop
    BY <1>21 DEF DataLoop, DataLabels
  <1>22. CASE DataDequeue
    BY <1>22 DEF DataDequeue, DataLabels
  <1>23. CASE DataCheck
    BY <1>23 DEF DataCheck, DataLabels
  <1>24. CASE DataCall
    BY <1>24 DEF DataCall, DataLabels
  <1>25. CASE DataCount
    BY <1>25 DEF DataCount, DataLabels
  <1>26. CASE DataRequest
    BY <1>26 DEF DataRequest, AfterExchange, DataLabels
  <1>27. CASE DataSpawn
    BY <1>27 DEF DataSpawn, DataLabels
  <1>28. CASE SensorSend
    BY <1>28 DEF SensorSend
  <1>29. CASE LinkDrop
    BY <1>29 DEF LinkDrop
  <1>30. ASSUME NEW p \in Threads, StopEnter(p) PROVE FieldsOK'
    BY <1>30 DEF StopEnter
  <1>31. ASSUME NEW p \in Threads, StopFlag(p) PROVE FieldsOK'
    BY <1>31 DEF StopFlag
  <1>32. ASSUME NEW p \in Threads, StopSensor(p) PROVE FieldsOK'
    BY <1>32 DEF StopSensor
  <1>33. ASSUME NEW p \in Threads, StopClose(p) PROVE FieldsOK'
    BY <1>33 DEF StopClose
  <1>34. ASSUME NEW p \in Threads, StopDrain(p) PROVE FieldsOK'
    BY <1>34 DEF StopDrain, DrainClient, DataLabels
  <1>35. ASSUME NEW p \in Threads, StopNotify(p) PROVE FieldsOK'
    <2>1. ends' \in Nat
      BY <1>35 DEF StopNotify
    <2>2. QED
      BY <1>35, <2>1 DEF StopNotify
  <1>36. CASE UNCHANGED vars
    BY <1>36 DEF vars
  <1>37. QED
    BY <1>1, <1>2, <1>3, <1>4, <1>5, <1>6, <1>7, <1>8, <1>9, <1>10,
       <1>11, <1>12, <1>13, <1>14, <1>15, <1>16, <1>17, <1>18, <1>19,
       <1>20, <1>21, <1>22, <1>23, <1>24, <1>25, <1>26, <1>27, <1>28,
       <1>29, <1>30, <1>31, <1>32, <1>33, <1>34, <1>35, <1>36
    DEF Next, Body, Stop, DataThread

\* The threads keep to their labels.
LEMMA LabelsStep == LabelsOK /\ [Next]_vars => LabelsOK'
  <1> SUFFICES ASSUME LabelsOK, [Next]_vars PROVE LabelsOK'
    OBVIOUS
  <1> USE DEF LabelsOK, Threads, InStop, ApiLabels, WorkerLabels
  <1>1. CASE CallOpen
    BY <1>1 DEF CallOpen, Call, Step
  <1>2. CASE Call("stop", "stop_enter")
    BY <1>2 DEF Call, Step
  <1>3. CASE CallClose
    BY <1>3 DEF CallClose, Call, Step
  <1>4. CASE CallGrab
    BY <1>4 DEF CallGrab, Call, Step
  <1>5. CASE Construct
    BY <1>5 DEF Construct, Step
  <1>6. CASE OpenResolve
    BY <1>6 DEF OpenResolve, Step
  <1>7. CASE OpenConnect
    BY <1>7 DEF OpenConnect, Step
  <1>8. CASE OpenThrows \/ OpenLog
    BY <1>8 DEF OpenThrows, OpenLog, Go, Step
  <1>9. CASE JoinStopWorker
    BY <1>9 DEF JoinStopWorker, Step, AfterJoin
  <1>10. CASE WorkerJoined
    BY <1>10 DEF WorkerJoined, Step, AfterJoin
  <1>11. CASE CloseClient
    BY <1>11 DEF CloseClient, Step, DrainClient
  <1>12. CASE CloseConnection
    BY <1>12 DEF CloseConnection, Step
  <1>13. CASE CloseOpened
    BY <1>13 DEF CloseOpened, Step
  <1>14. CASE GrabCheck
    BY <1>14 DEF GrabCheck, Go, Step
  <1>15. CASE GrabConnect
    BY <1>15 DEF GrabConnect, Step
  <1>16. ASSUME NEW n \in Targets, GrabArm(n) PROVE LabelsOK'
    BY <1>16 DEF GrabArm, Step
  <1>17. CASE GrabReceive
    BY <1>17 DEF GrabReceive, Step
  <1>18. CASE GrabStart
    BY <1>18 DEF GrabStart, Step
  <1>19. CASE GrabThrows
    BY <1>19 DEF GrabThrows, Step
  <1>20. CASE GrabNotify
    BY <1>20 DEF GrabNotify, Step
  <1>21. CASE DataLoop
    BY <1>21 DEF DataLoop
  <1>22. CASE DataDequeue
    BY <1>22 DEF DataDequeue
  <1>23. CASE DataCheck
    BY <1>23 DEF DataCheck
  <1>24. CASE DataCall
    BY <1>24 DEF DataCall
  <1>25. CASE DataCount
    BY <1>25 DEF DataCount
  <1>26. CASE DataRequest
    BY <1>26 DEF DataRequest, AfterExchange
  <1>27. CASE DataSpawn
    BY <1>27 DEF DataSpawn
  <1>28. CASE SensorSend
    BY <1>28 DEF SensorSend
  <1>29. CASE LinkDrop
    BY <1>29 DEF LinkDrop
  <1>30. ASSUME NEW p \in Threads, StopEnter(p) PROVE LabelsOK'
    BY <1>30 DEF StopEnter, Step, AfterStop
  <1>31. ASSUME NEW p \in Threads, StopFlag(p) PROVE LabelsOK'
    BY <1>31 DEF StopFlag, Step
  <1>32. ASSUME NEW p \in Threads, StopSensor(p) PROVE LabelsOK'
    BY <1>32 DEF StopSensor, Step
  <1>33. ASSUME NEW p \in Threads, StopClose(p) PROVE LabelsOK'
    BY <1>33 DEF StopClose, Step
  <1>34. ASSUME NEW p \in Threads, StopDrain(p) PROVE LabelsOK'
    BY <1>34 DEF StopDrain, Step, DrainClient
  <1>35. ASSUME NEW p \in Threads, StopNotify(p) PROVE LabelsOK'
    BY <1>35 DEF StopNotify, Step, AfterStop
  <1>36. CASE UNCHANGED vars
    BY <1>36 DEF vars
  <1>37. QED
    BY <1>1, <1>2, <1>3, <1>4, <1>5, <1>6, <1>7, <1>8, <1>9, <1>10,
       <1>11, <1>12, <1>13, <1>14, <1>15, <1>16, <1>17, <1>18, <1>19,
       <1>20, <1>21, <1>22, <1>23, <1>24, <1>25, <1>26, <1>27, <1>28,
       <1>29, <1>30, <1>31, <1>32, <1>33, <1>34, <1>35, <1>36
    DEF Next, Body, Stop, DataThread

\* Every field keeps its type and every thread its labels, whatever the caller does.
THEOREM TypeCorrect == Spec => []TypeOK
  <1>1. Init => LabelsOK
    BY DEF Init, LabelsOK, Threads, ApiLabels, WorkerLabels
  <1>2. Init => faulty \in BOOLEAN
    BY DEF Init
  <1>3. Init => TypeOK
    BY <1>1, <1>2, InitFields DEF TypeOK
  <1>4. TypeOK /\ [Next]_vars => TypeOK'
    BY FieldsStep, FaultyStep, LabelsStep DEF TypeOK
  <1>5. QED
    BY <1>3, <1>4, PTL DEF Spec

-----------------------------------------------------------------------------
(* The parts of the invariant, one lemma each. *)

\* OpInv is preserved: a call stays the operation it was.
LEMMA OpStep == IInv /\ ~OverlappingGrabs /\ [Next]_vars => OpInv'
  <1> SUFFICES ASSUME IInv, ~OverlappingGrabs, [Next]_vars PROVE OpInv'
    OBVIOUS
  <1>a. LabelsOK /\ OpInv
    BY DEF IInv, TypeOK
  <1> USE DEF LabelsOK, OpInv, Threads, InStop, flags, objects, counts,
    stopping, link, history
  <1>b. CASE UNCHANGED <<pc, op>>
    BY <1>a, <1>b
  <1>1. CASE CallOpen
    BY <1>1, <1>a DEF CallOpen, Call, Step
  <1>2. CASE Call("stop", "stop_enter")
    BY <1>2, <1>a DEF Call, Step
  <1>3. CASE CallClose
    BY <1>3, <1>a DEF CallClose, Call, Step
  <1>4. CASE CallGrab
    BY <1>4, <1>a DEF CallGrab, Call, Step
  <1>5. CASE Construct
    BY <1>5, <1>a DEF Construct, Step
  <1>6. CASE OpenResolve
    BY <1>6, <1>a DEF OpenResolve, Step
  <1>7. CASE OpenConnect
    BY <1>7, <1>a DEF OpenConnect, Step
  <1>8. CASE OpenThrows \/ OpenLog
    BY <1>8, <1>a DEF OpenThrows, OpenLog, Go, Step
  <1>9. CASE JoinStopWorker
    BY <1>9, <1>a DEF JoinStopWorker, Step, AfterJoin
  <1>10. CASE WorkerJoined
    BY <1>10, <1>a DEF WorkerJoined, Step, AfterJoin
  <1>11. CASE CloseClient
    BY <1>11, <1>a DEF CloseClient, Step, DrainClient
  <1>12. CASE CloseConnection
    BY <1>12, <1>a DEF CloseConnection, Step
  <1>13. CASE CloseOpened
    BY <1>13, <1>a DEF CloseOpened, Step
  <1>14. CASE GrabCheck
    BY <1>14, <1>a DEF GrabCheck, Go, Step
  <1>15. CASE GrabConnect
    BY <1>15, <1>a DEF GrabConnect, Step
  <1>16. ASSUME NEW n \in Targets, GrabArm(n) PROVE OpInv'
    BY <1>16, <1>a DEF GrabArm, Step
  <1>17. CASE GrabReceive
    BY <1>17, <1>a DEF GrabReceive, Step
  <1>18. CASE GrabStart
    BY <1>18, <1>a DEF GrabStart, Step
  <1>19. CASE GrabThrows
    BY <1>19, <1>a DEF GrabThrows, Step
  <1>20. CASE GrabNotify
    BY <1>20, <1>a DEF GrabNotify, Step
  <1>21. CASE DataSpawn
    BY <1>21, <1>a DEF DataSpawn
  <1>22. ASSUME NEW p \in Threads, StopEnter(p) PROVE OpInv'
    BY <1>22, <1>a DEF StopEnter, Step, AfterStop
  <1>23. ASSUME NEW p \in Threads, StopFlag(p) PROVE OpInv'
    BY <1>23, <1>a DEF StopFlag, Step
  <1>24. ASSUME NEW p \in Threads, StopSensor(p) PROVE OpInv'
    BY <1>24, <1>a DEF StopSensor, Step
  <1>25. ASSUME NEW p \in Threads, StopClose(p) PROVE OpInv'
    BY <1>25, <1>a DEF StopClose, Step
  <1>26. ASSUME NEW p \in Threads, StopDrain(p) PROVE OpInv'
    BY <1>26, <1>a DEF StopDrain, Step, DrainClient
  <1>27. ASSUME NEW p \in Threads, StopNotify(p) PROVE OpInv'
    BY <1>27, <1>a DEF StopNotify, Step, AfterStop
  <1>28. CASE DataLoop \/ DataDequeue \/ DataCheck \/ DataCall \/ DataCount \/
           DataRequest \/ SensorSend \/ LinkDrop \/ UNCHANGED vars
    BY <1>28, <1>b DEF vars, DataLoop, DataDequeue, DataCheck, DataCall,
      DataCount, DataRequest, SensorSend, LinkDrop
  <1>29. QED
    BY <1>1, <1>2, <1>3, <1>4, <1>5, <1>6, <1>7, <1>8, <1>9, <1>10, <1>11,
      <1>12, <1>13, <1>14, <1>15, <1>16, <1>17, <1>18, <1>19, <1>20, <1>21,
      <1>22, <1>23, <1>24, <1>25, <1>26, <1>27, <1>28 DEF Next, Body, Stop,
      DataThread

\* LockInv is preserved: the worker is the only other caller of stop().
LEMMA LockStep == IInv /\ ~OverlappingGrabs /\ [Next]_vars => LockInv'
  <1> SUFFICES ASSUME IInv, ~OverlappingGrabs, [Next]_vars PROVE LockInv'
    OBVIOUS
  <1>a. FieldsOK /\ LabelsOK /\ LockInv /\ WorkerInv
    BY DEF IInv, TypeOK
  <1> USE DEF FieldsOK, LabelsOK, LockInv, WorkerInv, StopsTakeTurns, Threads,
    InStop, flags, objects, counts, stopping, link, history
  <1>b. CASE UNCHANGED <<pc, stopMutex, isGrabbing>>
    BY <1>a, <1>b
  <1>1. CASE CallOpen
    BY <1>1, <1>a DEF CallOpen, Call, Step
  <1>2. CASE Call("stop", "stop_enter")
    BY <1>2, <1>a DEF Call, Step
  <1>3. CASE CallClose
    BY <1>3, <1>a DEF CallClose, Call, Step
  <1>4. CASE CallGrab
    BY <1>4, <1>a DEF CallGrab, Call, Step
  <1>5. CASE Construct
    BY <1>5, <1>a DEF Construct, Step
  <1>6. CASE OpenResolve
    BY <1>6, <1>a DEF OpenResolve, Step
  <1>7. CASE OpenConnect
    BY <1>7, <1>a DEF OpenConnect, Step
  <1>8. CASE OpenThrows \/ OpenLog
    BY <1>8, <1>a DEF OpenThrows, OpenLog, Go, Step
  <1>9. CASE JoinStopWorker
    BY <1>9, <1>a DEF JoinStopWorker, Step, AfterJoin
  <1>10. CASE WorkerJoined
    BY <1>10, <1>a DEF WorkerJoined, Step, AfterJoin
  <1>11. CASE CloseClient
    BY <1>11, <1>a DEF CloseClient, Step, DrainClient
  <1>12. CASE CloseConnection
    BY <1>12, <1>a DEF CloseConnection, Step
  <1>13. CASE CloseOpened
    BY <1>13, <1>a DEF CloseOpened, Step
  <1>14. CASE GrabCheck
    BY <1>14, <1>a DEF GrabCheck, Go, Step
  <1>15. CASE GrabConnect
    BY <1>15, <1>a DEF GrabConnect, Step
  <1>16. ASSUME NEW n \in Targets, GrabArm(n) PROVE LockInv'
    BY <1>16, <1>a DEF GrabArm, Step
  <1>17. CASE GrabReceive
    BY <1>17, <1>a DEF GrabReceive, Step
  <1>18. CASE GrabStart
    BY <1>18, <1>a DEF GrabStart, Step
  <1>19. CASE GrabThrows
    BY <1>19, <1>a DEF GrabThrows, Step
  <1>20. CASE GrabNotify
    BY <1>20, <1>a DEF GrabNotify, Step
  <1>21. CASE DataSpawn
    BY <1>21, <1>a DEF DataSpawn
  <1>22. ASSUME NEW p \in Threads, StopEnter(p) PROVE LockInv'
    BY <1>22, <1>a DEF StopEnter, Step, AfterStop
  <1>23. ASSUME NEW p \in Threads, StopFlag(p) PROVE LockInv'
    BY <1>23, <1>a DEF StopFlag, Step
  <1>24. ASSUME NEW p \in Threads, StopSensor(p) PROVE LockInv'
    BY <1>24, <1>a DEF StopSensor, Step
  <1>25. ASSUME NEW p \in Threads, StopClose(p) PROVE LockInv'
    BY <1>25, <1>a DEF StopClose, Step
  <1>26. ASSUME NEW p \in Threads, StopDrain(p) PROVE LockInv'
    BY <1>26, <1>a DEF StopDrain, Step, DrainClient
  <1>27. ASSUME NEW p \in Threads, StopNotify(p) PROVE LockInv'
    BY <1>27, <1>a DEF StopNotify, Step, AfterStop
  <1>28. CASE DataLoop \/ DataDequeue \/ DataCheck \/ DataCall \/ DataCount \/
           DataRequest \/ SensorSend \/ LinkDrop \/ UNCHANGED vars
    BY <1>28, <1>b DEF vars, DataLoop, DataDequeue, DataCheck, DataCall,
      DataCount, DataRequest, SensorSend, LinkDrop
  <1>29. QED
    BY <1>1, <1>2, <1>3, <1>4, <1>5, <1>6, <1>7, <1>8, <1>9, <1>10, <1>11,
      <1>12, <1>13, <1>14, <1>15, <1>16, <1>17, <1>18, <1>19, <1>20, <1>21,
      <1>22, <1>23, <1>24, <1>25, <1>26, <1>27, <1>28 DEF Next, Body, Stop,
      DataThread

\* ConnectionInv is preserved: the connection outlives the acquisition.
LEMMA ConnectionStep == IInv /\ ~OverlappingGrabs /\ [Next]_vars => ConnectionInv'
  <1> SUFFICES ASSUME IInv, ~OverlappingGrabs, [Next]_vars PROVE ConnectionInv'
    OBVIOUS
  <1>a. FieldsOK /\ LabelsOK /\ OpInv /\ LockInv /\ WorkerInv /\ ConnectionInv
    BY DEF IInv, TypeOK
  <1> USE DEF LabelsOK, OpInv, LockInv, StopsTakeTurns, Live, WorkerInv,
    ConnectionInv, Threads, InStop, flags, objects, counts, stopping, link,
    history
  <1>b. CASE UNCHANGED <<pc, op, isOpened, isGrabbing, connection, stopMutex>>
    BY <1>a, <1>b
  <1>1. CASE CallOpen
    BY <1>1, <1>a DEF CallOpen, Call, Step
  <1>2. CASE Call("stop", "stop_enter")
    BY <1>2, <1>a DEF Call, Step
  <1>3. CASE CallClose
    BY <1>3, <1>a DEF CallClose, Call, Step
  <1>4. CASE CallGrab
    BY <1>4, <1>a DEF CallGrab, Call, Step
  <1>5. CASE Construct
    BY <1>5, <1>a DEF Construct, Step
  <1>6. CASE OpenResolve
    BY <1>6, <1>a DEF OpenResolve, Step
  <1>7. CASE OpenConnect
    BY <1>7, <1>a DEF OpenConnect, Step
  <1>8. CASE OpenThrows \/ OpenLog
    BY <1>8, <1>a DEF OpenThrows, OpenLog, Go, Step
  <1>9. CASE JoinStopWorker
    BY <1>9, <1>a DEF JoinStopWorker, Step, AfterJoin
  <1>10. CASE WorkerJoined
    BY <1>10, <1>a DEF WorkerJoined, Step, AfterJoin
  <1>11. CASE CloseClient
    BY <1>11, <1>a DEF CloseClient, Step, DrainClient
  <1>12. CASE CloseConnection
    BY <1>12, <1>a DEF CloseConnection, Step
  <1>13. CASE CloseOpened
    BY <1>13, <1>a DEF CloseOpened, Step
  <1>14. CASE GrabCheck
    BY <1>14, <1>a DEF GrabCheck, Go, Step
  <1>15. CASE GrabConnect
    BY <1>15, <1>a DEF GrabConnect, Step
  <1>16. ASSUME NEW n \in Targets, GrabArm(n) PROVE ConnectionInv'
    BY <1>16, <1>a DEF GrabArm, Step
  <1>17. CASE GrabReceive
    BY <1>17, <1>a DEF GrabReceive, Step
  <1>18. CASE GrabStart
    BY <1>18, <1>a DEF GrabStart, Step
  <1>19. CASE GrabThrows
    BY <1>19, <1>a DEF GrabThrows, Step
  <1>20. CASE GrabNotify
    BY <1>20, <1>a DEF GrabNotify, Step
  <1>21. CASE DataSpawn
    BY <1>21, <1>a DEF DataSpawn
  <1>22. ASSUME NEW p \in Threads, StopEnter(p) PROVE ConnectionInv'
    BY <1>22, <1>a DEF StopEnter, Step, AfterStop
  <1>23. ASSUME NEW p \in Threads, StopFlag(p) PROVE ConnectionInv'
    BY <1>23, <1>a DEF StopFlag, Step
  <1>24. ASSUME NEW p \in Threads, StopSensor(p) PROVE ConnectionInv'
    BY <1>24, <1>a DEF StopSensor, Step
  <1>25. ASSUME NEW p \in Threads, StopClose(p) PROVE ConnectionInv'
    BY <1>25, <1>a DEF StopClose, Step
  <1>26. ASSUME NEW p \in Threads, StopDrain(p) PROVE ConnectionInv'
    BY <1>26, <1>a DEF StopDrain, Step, DrainClient
  <1>27. ASSUME NEW p \in Threads, StopNotify(p) PROVE ConnectionInv'
    BY <1>27, <1>a DEF StopNotify, Step, AfterStop
  <1>28. CASE DataLoop \/ DataDequeue \/ DataCheck \/ DataCall \/ DataCount \/
           DataRequest \/ SensorSend \/ LinkDrop \/ UNCHANGED vars
    BY <1>28, <1>b DEF vars, DataLoop, DataDequeue, DataCheck, DataCall,
      DataCount, DataRequest, SensorSend, LinkDrop
  <1>29. QED
    BY <1>1, <1>2, <1>3, <1>4, <1>5, <1>6, <1>7, <1>8, <1>9, <1>10, <1>11,
      <1>12, <1>13, <1>14, <1>15, <1>16, <1>17, <1>18, <1>19, <1>20, <1>21,
      <1>22, <1>23, <1>24, <1>25, <1>26, <1>27, <1>28 DEF Next, Body, Stop,
      DataThread

\* ClientInv is preserved: gdpClient outlives its data thread.
LEMMA ClientStep == IInv /\ ~OverlappingGrabs /\ [Next]_vars => ClientInv'
  <1> SUFFICES ASSUME IInv, ~OverlappingGrabs, [Next]_vars PROVE ClientInv'
    OBVIOUS
  <1>a. FieldsOK /\ LabelsOK /\ OpInv /\ LockInv /\ ConnectionInv /\ WorkerInv /\ ClientInv
    BY DEF IInv, TypeOK
  <1> USE DEF FieldsOK, LabelsOK, OpInv, LockInv, StopsTakeTurns, Live, Serving,
    ConnectionInv, WorkerInv, ClientInv, Threads, InStop, flags, objects,
    counts, stopping, link, history
  <1>b. CASE UNCHANGED <<pc, data, isOpened, isGrabbing, gdpClient>>
    BY <1>a, <1>b
  <1>1. CASE CallOpen
    BY <1>1, <1>a DEF CallOpen, Call, Step
  <1>2. CASE Call("stop", "stop_enter")
    BY <1>2, <1>a DEF Call, Step
  <1>3. CASE CallClose
    BY <1>3, <1>a DEF CallClose, Call, Step
  <1>4. CASE CallGrab
    BY <1>4, <1>a DEF CallGrab, Call, Step
  <1>5. CASE Construct
    BY <1>5, <1>a DEF Construct, Step
  <1>6. CASE OpenResolve
    BY <1>6, <1>a DEF OpenResolve, Step
  <1>7. CASE OpenConnect
    BY <1>7, <1>a DEF OpenConnect, Step
  <1>8. CASE OpenThrows \/ OpenLog
    BY <1>8, <1>a DEF OpenThrows, OpenLog, Go, Step
  <1>9. CASE JoinStopWorker
    BY <1>9, <1>a DEF JoinStopWorker, Step, AfterJoin
  <1>10. CASE WorkerJoined
    BY <1>10, <1>a DEF WorkerJoined, Step, AfterJoin
  <1>11. CASE CloseClient
    BY <1>11, <1>a DEF CloseClient, Step, DrainClient
  <1>12. CASE CloseConnection
    BY <1>12, <1>a DEF CloseConnection, Step
  <1>13. CASE CloseOpened
    BY <1>13, <1>a DEF CloseOpened, Step
  <1>14. CASE GrabCheck
    BY <1>14, <1>a DEF GrabCheck, Go, Step
  <1>15. CASE GrabConnect
    BY <1>15, <1>a DEF GrabConnect, Step
  <1>16. ASSUME NEW n \in Targets, GrabArm(n) PROVE ClientInv'
    BY <1>16, <1>a DEF GrabArm, Step
  <1>17. CASE GrabReceive
    BY <1>17, <1>a DEF GrabReceive, Step
  <1>18. CASE GrabStart
    BY <1>18, <1>a DEF GrabStart, Step
  <1>19. CASE GrabThrows
    BY <1>19, <1>a DEF GrabThrows, Step
  <1>20. CASE GrabNotify
    BY <1>20, <1>a DEF GrabNotify, Step
  <1>21. CASE DataLoop
    BY <1>21, <1>a DEF DataLoop
  <1>22. CASE DataDequeue
    BY <1>22, <1>a DEF DataDequeue
  <1>23. CASE DataCheck
    BY <1>23, <1>a DEF DataCheck
  <1>24. CASE DataCall
    BY <1>24, <1>a DEF DataCall
  <1>25. CASE DataCount
    BY <1>25, <1>a DEF DataCount
  <1>26. CASE DataRequest
    BY <1>26, <1>a DEF DataRequest, AfterExchange
  <1>27. CASE DataSpawn
    BY <1>27, <1>a DEF DataSpawn
  <1>28. ASSUME NEW p \in Threads, StopEnter(p) PROVE ClientInv'
    BY <1>28, <1>a DEF StopEnter, Step, AfterStop
  <1>29. ASSUME NEW p \in Threads, StopFlag(p) PROVE ClientInv'
    BY <1>29, <1>a DEF StopFlag, Step
  <1>30. ASSUME NEW p \in Threads, StopSensor(p) PROVE ClientInv'
    BY <1>30, <1>a DEF StopSensor, Step
  <1>31. ASSUME NEW p \in Threads, StopClose(p) PROVE ClientInv'
    BY <1>31, <1>a DEF StopClose, Step
  <1>32. ASSUME NEW p \in Threads, StopDrain(p) PROVE ClientInv'
    BY <1>32, <1>a DEF StopDrain, Step, DrainClient
  <1>33. ASSUME NEW p \in Threads, StopNotify(p) PROVE ClientInv'
    BY <1>33, <1>a DEF StopNotify, Step, AfterStop
  <1>34. CASE SensorSend \/ LinkDrop \/ UNCHANGED vars
    BY <1>34, <1>b DEF vars, SensorSend, LinkDrop
  <1>35. QED
    BY <1>1, <1>2, <1>3, <1>4, <1>5, <1>6, <1>7, <1>8, <1>9, <1>10, <1>11,
      <1>12, <1>13, <1>14, <1>15, <1>16, <1>17, <1>18, <1>19, <1>20, <1>21,
      <1>22, <1>23, <1>24, <1>25, <1>26, <1>27, <1>28, <1>29, <1>30, <1>31,
      <1>32, <1>33, <1>34 DEF Next, Body, Stop, DataThread

\* WorkerInv is preserved: joins and launches of the worker alternate.
LEMMA WorkerStep == IInv /\ ~OverlappingGrabs /\ [Next]_vars => WorkerInv'
  <1> SUFFICES ASSUME IInv, ~OverlappingGrabs, [Next]_vars PROVE WorkerInv'
    OBVIOUS
  <1>a. FieldsOK /\ LabelsOK /\ OpInv /\ LockInv /\ ConnectionInv /\ ClientInv /\ WorkerInv
    BY DEF IInv, TypeOK
  <1> USE DEF FieldsOK, LabelsOK, OpInv, LockInv, StopsTakeTurns, Live, Serving,
    ConnectionInv, ClientInv, WorkerInv, Threads, InStop, flags, objects,
    counts, stopping, link, history
  <1>b. CASE UNCHANGED <<pc, op, data, isGrabbing, stopRequested, stopWorker, session, workerFor>>
    BY <1>a, <1>b
  <1>1. CASE CallOpen
    BY <1>1, <1>a DEF CallOpen, Call, Step
  <1>2. CASE Call("stop", "stop_enter")
    BY <1>2, <1>a DEF Call, Step
  <1>3. CASE CallClose
    BY <1>3, <1>a DEF CallClose, Call, Step
  <1>4. CASE CallGrab
    BY <1>4, <1>a DEF CallGrab, Call, Step
  <1>5. CASE Construct
    BY <1>5, <1>a DEF Construct, Step
  <1>6. CASE OpenResolve
    BY <1>6, <1>a DEF OpenResolve, Step
  <1>7. CASE OpenConnect
    BY <1>7, <1>a DEF OpenConnect, Step
  <1>8. CASE OpenThrows \/ OpenLog
    BY <1>8, <1>a DEF OpenThrows, OpenLog, Go, Step
  <1>9. CASE JoinStopWorker
    BY <1>9, <1>a DEF JoinStopWorker, Step, AfterJoin
  <1>10. CASE WorkerJoined
    BY <1>10, <1>a DEF WorkerJoined, Step, AfterJoin
  <1>11. CASE CloseClient
    BY <1>11, <1>a DEF CloseClient, Step, DrainClient
  <1>12. CASE CloseConnection
    BY <1>12, <1>a DEF CloseConnection, Step
  <1>13. CASE CloseOpened
    BY <1>13, <1>a DEF CloseOpened, Step
  <1>14. CASE GrabCheck
    BY <1>14, <1>a DEF GrabCheck, Go, Step
  <1>15. CASE GrabConnect
    BY <1>15, <1>a DEF GrabConnect, Step
  <1>16. ASSUME NEW n \in Targets, GrabArm(n) PROVE WorkerInv'
    BY <1>16, <1>a DEF GrabArm, Step
  <1>17. CASE GrabReceive
    BY <1>17, <1>a DEF GrabReceive, Step
  <1>18. CASE GrabStart
    BY <1>18, <1>a DEF GrabStart, Step
  <1>19. CASE GrabThrows
    BY <1>19, <1>a DEF GrabThrows, Step
  <1>20. CASE GrabNotify
    BY <1>20, <1>a DEF GrabNotify, Step
  <1>21. CASE DataLoop
    BY <1>21, <1>a DEF DataLoop
  <1>22. CASE DataDequeue
    BY <1>22, <1>a DEF DataDequeue
  <1>23. CASE DataCheck
    BY <1>23, <1>a DEF DataCheck
  <1>24. CASE DataCall
    BY <1>24, <1>a DEF DataCall
  <1>25. CASE DataCount
    BY <1>25, <1>a DEF DataCount
  <1>26. CASE DataRequest
    BY <1>26, <1>a DEF DataRequest, AfterExchange
  <1>27. CASE DataSpawn
    BY <1>27, <1>a DEF DataSpawn
  <1>28. ASSUME NEW p \in Threads, StopEnter(p) PROVE WorkerInv'
    BY <1>28, <1>a DEF StopEnter, Step, AfterStop
  <1>29. ASSUME NEW p \in Threads, StopFlag(p) PROVE WorkerInv'
    BY <1>29, <1>a DEF StopFlag, Step
  <1>30. ASSUME NEW p \in Threads, StopSensor(p) PROVE WorkerInv'
    BY <1>30, <1>a DEF StopSensor, Step
  <1>31. ASSUME NEW p \in Threads, StopClose(p) PROVE WorkerInv'
    BY <1>31, <1>a DEF StopClose, Step
  <1>32. ASSUME NEW p \in Threads, StopDrain(p) PROVE WorkerInv'
    BY <1>32, <1>a DEF StopDrain, Step, DrainClient
  <1>33. ASSUME NEW p \in Threads, StopNotify(p) PROVE WorkerInv'
    BY <1>33, <1>a DEF StopNotify, Step, AfterStop
  <1>34. CASE SensorSend \/ LinkDrop \/ UNCHANGED vars
    BY <1>34, <1>b DEF vars, SensorSend, LinkDrop
  <1>35. QED
    BY <1>1, <1>2, <1>3, <1>4, <1>5, <1>6, <1>7, <1>8, <1>9, <1>10, <1>11,
      <1>12, <1>13, <1>14, <1>15, <1>16, <1>17, <1>18, <1>19, <1>20, <1>21,
      <1>22, <1>23, <1>24, <1>25, <1>26, <1>27, <1>28, <1>29, <1>30, <1>31,
      <1>32, <1>33, <1>34 DEF Next, Body, Stop, DataThread

\* CountInv is preserved: frameSeq counts the callbacks.
LEMMA CountStep == IInv /\ ~OverlappingGrabs /\ [Next]_vars => CountInv'
  <1> SUFFICES ASSUME IInv, ~OverlappingGrabs, [Next]_vars PROVE CountInv'
    OBVIOUS
  <1>a. FieldsOK /\ LabelsOK /\ OpInv /\ WorkerInv /\ ConnectionInv /\ ClientInv /\ CountInv
    BY DEF IInv, TypeOK
  <1> USE DEF FieldsOK, LabelsOK, OpInv, WorkerInv, ConnectionInv, ClientInv,
    CountInv, Threads, InStop, flags, objects, counts, stopping, link, history
  <1>b. CASE UNCHANGED <<pc, data, delivered, frameSeq>>
    BY <1>a, <1>b
  <1>1. CASE CallOpen
    BY <1>1, <1>a DEF CallOpen, Call, Step
  <1>2. CASE Call("stop", "stop_enter")
    BY <1>2, <1>a DEF Call, Step
  <1>3. CASE CallClose
    BY <1>3, <1>a DEF CallClose, Call, Step
  <1>4. CASE CallGrab
    BY <1>4, <1>a DEF CallGrab, Call, Step
  <1>5. CASE Construct
    BY <1>5, <1>a DEF Construct, Step
  <1>6. CASE OpenResolve
    BY <1>6, <1>a DEF OpenResolve, Step
  <1>7. CASE OpenConnect
    BY <1>7, <1>a DEF OpenConnect, Step
  <1>8. CASE OpenThrows \/ OpenLog
    BY <1>8, <1>a DEF OpenThrows, OpenLog, Go, Step
  <1>9. CASE JoinStopWorker
    BY <1>9, <1>a DEF JoinStopWorker, Step, AfterJoin
  <1>10. CASE WorkerJoined
    BY <1>10, <1>a DEF WorkerJoined, Step, AfterJoin
  <1>11. CASE CloseClient
    BY <1>11, <1>a DEF CloseClient, Step, DrainClient
  <1>12. CASE CloseConnection
    BY <1>12, <1>a DEF CloseConnection, Step
  <1>13. CASE CloseOpened
    BY <1>13, <1>a DEF CloseOpened, Step
  <1>14. CASE GrabCheck
    BY <1>14, <1>a DEF GrabCheck, Go, Step
  <1>15. CASE GrabConnect
    BY <1>15, <1>a DEF GrabConnect, Step
  <1>16. ASSUME NEW n \in Targets, GrabArm(n) PROVE CountInv'
    BY <1>16, <1>a DEF GrabArm, Step
  <1>17. CASE GrabReceive
    BY <1>17, <1>a DEF GrabReceive, Step
  <1>18. CASE GrabStart
    BY <1>18, <1>a DEF GrabStart, Step
  <1>19. CASE GrabThrows
    BY <1>19, <1>a DEF GrabThrows, Step
  <1>20. CASE GrabNotify
    BY <1>20, <1>a DEF GrabNotify, Step
  <1>21. CASE DataLoop
    BY <1>21, <1>a DEF DataLoop
  <1>22. CASE DataDequeue
    BY <1>22, <1>a DEF DataDequeue
  <1>23. CASE DataCheck
    BY <1>23, <1>a DEF DataCheck
  <1>24. CASE DataCall
    BY <1>24, <1>a DEF DataCall
  <1>25. CASE DataCount
    BY <1>25, <1>a DEF DataCount
  <1>26. CASE DataRequest
    BY <1>26, <1>a DEF DataRequest, AfterExchange
  <1>27. CASE DataSpawn
    BY <1>27, <1>a DEF DataSpawn
  <1>28. ASSUME NEW p \in Threads, StopEnter(p) PROVE CountInv'
    BY <1>28, <1>a DEF StopEnter, Step, AfterStop
  <1>29. ASSUME NEW p \in Threads, StopFlag(p) PROVE CountInv'
    BY <1>29, <1>a DEF StopFlag, Step
  <1>30. ASSUME NEW p \in Threads, StopSensor(p) PROVE CountInv'
    BY <1>30, <1>a DEF StopSensor, Step
  <1>31. ASSUME NEW p \in Threads, StopClose(p) PROVE CountInv'
    BY <1>31, <1>a DEF StopClose, Step
  <1>32. ASSUME NEW p \in Threads, StopDrain(p) PROVE CountInv'
    BY <1>32, <1>a DEF StopDrain, Step, DrainClient
  <1>33. ASSUME NEW p \in Threads, StopNotify(p) PROVE CountInv'
    BY <1>33, <1>a DEF StopNotify, Step, AfterStop
  <1>34. CASE SensorSend \/ LinkDrop \/ UNCHANGED vars
    BY <1>34, <1>b DEF vars, SensorSend, LinkDrop
  <1>35. QED
    BY <1>1, <1>2, <1>3, <1>4, <1>5, <1>6, <1>7, <1>8, <1>9, <1>10, <1>11,
      <1>12, <1>13, <1>14, <1>15, <1>16, <1>17, <1>18, <1>19, <1>20, <1>21,
      <1>22, <1>23, <1>24, <1>25, <1>26, <1>27, <1>28, <1>29, <1>30, <1>31,
      <1>32, <1>33, <1>34 DEF Next, Body, Stop, DataThread

\* EndNotifiedOnce is preserved: one notification leaves stop() per start.
LEMMA EndStep == IInv /\ ~OverlappingGrabs /\ [Next]_vars => EndNotifiedOnce'
  <1> SUFFICES ASSUME IInv, ~OverlappingGrabs, [Next]_vars PROVE EndNotifiedOnce'
    OBVIOUS
  <1>a. FieldsOK /\ LabelsOK /\ OpInv /\ LockInv /\ ConnectionInv /\ WorkerInv /\ EndNotifiedOnce
    BY DEF IInv, TypeOK
  <1> USE DEF FieldsOK, LabelsOK, OpInv, ConnectionInv, LockInv, StopsTakeTurns,
    Live, WorkerInv, EndNotifiedOnce, Threads, InStop, flags, objects, counts,
    stopping, link, history
  <1>b. CASE UNCHANGED <<ends, isGrabbing, stopMutex>>
    BY <1>a, <1>b
  <1>1. CASE Construct
    BY <1>1, <1>a DEF Construct, Step
  <1>2. ASSUME NEW n \in Targets, GrabArm(n) PROVE EndNotifiedOnce'
    BY <1>2, <1>a DEF GrabArm, Step
  <1>3. ASSUME NEW p \in Threads, StopEnter(p) PROVE EndNotifiedOnce'
    BY <1>3, <1>a DEF StopEnter, Step, AfterStop
  <1>4. ASSUME NEW p \in Threads, StopNotify(p) PROVE EndNotifiedOnce'
    BY <1>4, <1>a DEF StopNotify, Step, AfterStop
  <1>5. CASE DataLoop \/ DataDequeue \/ DataCheck \/ DataCall \/ DataCount \/
           DataRequest \/ DataSpawn \/ SensorSend \/ LinkDrop \/ CallOpen \/
           Call("stop", "stop_enter") \/ CallClose \/ CallGrab \/ OpenResolve \/
           OpenConnect \/ OpenLog \/ OpenThrows \/ JoinStopWorker \/ WorkerJoined \/
           CloseClient \/ CloseConnection \/ CloseOpened \/ GrabCheck \/
           GrabConnect \/ GrabReceive \/ GrabStart \/ GrabThrows \/ GrabNotify
           \/ UNCHANGED vars
    BY <1>5, <1>b DEF vars, DataLoop, DataDequeue, DataCheck, DataCall,
      DataCount, DataRequest, DataSpawn, SensorSend, LinkDrop, CallOpen, Call,
      Step, CallClose, CallGrab, OpenResolve, OpenConnect, OpenLog, OpenThrows, Go,
      JoinStopWorker, WorkerJoined, CloseClient, DrainClient, CloseConnection,
      CloseOpened, GrabCheck, GrabConnect, GrabReceive, GrabStart, GrabThrows,
      GrabNotify
  <1>6. ASSUME NEW p \in Threads, StopFlag(p) \/ StopSensor(p) \/ StopClose(p) \/ StopDrain(p) PROVE EndNotifiedOnce'
    BY <1>6, <1>b DEF StopFlag, StopSensor, StopClose, StopDrain
  <1>7. QED
    BY <1>1, <1>2, <1>3, <1>4, <1>5, <1>6 DEF Next, Body, Stop, DataThread

-----------------------------------------------------------------------------
(* The inductive invariant. *)

\* The initial states satisfy it.
LEMMA InitInv == Init => IInv
  <1> SUFFICES ASSUME Init PROVE IInv
    OBVIOUS
  <1>1. FieldsOK
    BY InitFields
  <1>2. LabelsOK
    BY DEF Init, LabelsOK, Threads, ApiLabels, WorkerLabels
  <1>3. pc["api"] = "idle" /\ pc["worker"] = "none"
    BY DEF Init, Threads
  <1>4. OpInv /\ LockInv /\ WorkerInv /\ CountInv /\ EndNotifiedOnce
    BY <1>3 DEF Init, OpInv, LockInv, StopsTakeTurns, WorkerInv, CountInv, EndNotifiedOnce,
                Live, Threads, InStop
  <1>5. ConnectionInv /\ ClientInv
    BY <1>3 DEF Init, ConnectionInv, ClientInv, Live, Serving, Threads
  <1>6. faulty \in BOOLEAN
    BY DEF Init
  <1>7. QED
    BY <1>1, <1>2, <1>4, <1>5, <1>6 DEF IInv, TypeOK

\* It holds for ever, provided grab() is not called while isGrabbing().
THEOREM Invariance == ASSUME ~OverlappingGrabs PROVE Spec => []IInv
  <1>1. IInv /\ [Next]_vars => IInv'
    BY FieldsStep, FaultyStep, LabelsStep, OpStep, LockStep, ConnectionStep, ClientStep, WorkerStep,
       CountStep, EndStep DEF IInv, TypeOK
  <1>2. QED
    BY <1>1, InitInv, PTL DEF Spec

\* ReliableInv is preserved: Start comes before every data set and every Stop.
LEMMA ReliableStep == IInv /\ ReliableInv /\ ~OverlappingGrabs /\ [Next]_vars => ReliableInv'
  <1> SUFFICES ASSUME IInv, ReliableInv, ~OverlappingGrabs, [Next]_vars PROVE ReliableInv'
    OBVIOUS
  <1>a. /\ FieldsOK /\ LabelsOK /\ OpInv /\ LockInv /\ WorkerInv
        /\ ConnectionInv /\ ClientInv /\ ReliableInv
    BY DEF IInv, TypeOK
  <1>c. faulty' = faulty
    BY DEF Next, vars
  <1> USE DEF FieldsOK, LabelsOK, OpInv, LockInv, StopsTakeTurns, Live, WorkerInv,
    ConnectionInv, ClientInv, Serving, ReliableInv, Threads, InStop, flags, objects, counts, stopping, link, history
  <1>b. CASE UNCHANGED <<pc, data, isGrabbing, sensor, queued>>
    BY <1>a, <1>b, <1>c
  <1>1. CASE CallOpen
    BY <1>1, <1>a, <1>c DEF CallOpen, Call, Step
  <1>2. CASE Call("stop", "stop_enter")
    BY <1>2, <1>a, <1>c DEF Call, Step
  <1>3. CASE CallClose
    BY <1>3, <1>a, <1>c DEF CallClose, Call, Step
  <1>4. CASE CallGrab
    BY <1>4, <1>a, <1>c DEF CallGrab, Call, Step
  <1>5. CASE Construct
    BY <1>5, <1>a, <1>c DEF Construct, Step
  <1>6. CASE OpenResolve
    BY <1>6, <1>a, <1>c DEF OpenResolve, Step
  <1>7. CASE OpenConnect
    BY <1>7, <1>a, <1>c DEF OpenConnect, Step
  <1>8. CASE OpenThrows \/ OpenLog
    BY <1>8, <1>a, <1>c DEF OpenThrows, OpenLog, Go, Step
  <1>9. CASE JoinStopWorker
    BY <1>9, <1>a, <1>c DEF JoinStopWorker, Step, AfterJoin
  <1>10. CASE WorkerJoined
    BY <1>10, <1>a, <1>c DEF WorkerJoined, Step, AfterJoin
  <1>11. CASE CloseClient
    BY <1>11, <1>a, <1>c DEF CloseClient, Step, DrainClient
  <1>12. CASE CloseConnection
    BY <1>12, <1>a, <1>c DEF CloseConnection, Step
  <1>13. CASE CloseOpened
    BY <1>13, <1>a, <1>c DEF CloseOpened, Step
  <1>14. CASE GrabCheck
    BY <1>14, <1>a, <1>c DEF GrabCheck, Go, Step
  <1>15. CASE GrabConnect
    BY <1>15, <1>a, <1>c DEF GrabConnect, Step
  <1>16. ASSUME NEW n \in Targets, GrabArm(n) PROVE ReliableInv'
    BY <1>16, <1>a, <1>c DEF GrabArm, Step
  <1>17. CASE GrabReceive
    BY <1>17, <1>a, <1>c DEF GrabReceive, Step
  <1>18. CASE GrabStart
    BY <1>18, <1>a, <1>c DEF GrabStart, Step
  <1>19. CASE GrabThrows
    BY <1>19, <1>a, <1>c DEF GrabThrows, Step
  <1>20. CASE GrabNotify
    BY <1>20, <1>a, <1>c DEF GrabNotify, Step
  <1>21. CASE DataLoop
    BY <1>21, <1>a, <1>c DEF DataLoop
  <1>22. CASE DataDequeue
    BY <1>22, <1>a, <1>c DEF DataDequeue
  <1>23. CASE DataCheck
    BY <1>23, <1>a, <1>c DEF DataCheck
  <1>24. CASE DataCall
    BY <1>24, <1>a, <1>c DEF DataCall
  <1>25. CASE DataCount
    BY <1>25, <1>a, <1>c DEF DataCount
  <1>26. CASE DataRequest
    BY <1>26, <1>a, <1>c DEF DataRequest, AfterExchange
  <1>27. CASE DataSpawn
    BY <1>27, <1>a, <1>c DEF DataSpawn
  <1>28. ASSUME NEW p \in Threads, StopEnter(p) PROVE ReliableInv'
    BY <1>28, <1>a, <1>c DEF StopEnter, Step, AfterStop
  <1>29. ASSUME NEW p \in Threads, StopFlag(p) PROVE ReliableInv'
    BY <1>29, <1>a, <1>c DEF StopFlag, Step
  <1>30. ASSUME NEW p \in Threads, StopSensor(p) PROVE ReliableInv'
    BY <1>30, <1>a, <1>c DEF StopSensor, Step
  <1>31. ASSUME NEW p \in Threads, StopClose(p) PROVE ReliableInv'
    BY <1>31, <1>a, <1>c DEF StopClose, Step
  <1>32. ASSUME NEW p \in Threads, StopDrain(p) PROVE ReliableInv'
    BY <1>32, <1>a, <1>c DEF StopDrain, Step, DrainClient
  <1>33. ASSUME NEW p \in Threads, StopNotify(p) PROVE ReliableInv'
    BY <1>33, <1>a, <1>c DEF StopNotify, Step, AfterStop
  <1>34. CASE UNCHANGED vars
    BY <1>34, <1>b DEF vars
  <1>35. CASE SensorSend
    BY <1>35, <1>a, <1>c DEF SensorSend
  <1>36. CASE LinkDrop
    BY <1>36, <1>a, <1>c DEF LinkDrop
  <1>37. QED
    BY <1>1, <1>2, <1>3, <1>4, <1>5, <1>6, <1>7, <1>8, <1>9, <1>10, <1>11,
      <1>12, <1>13, <1>14, <1>15, <1>16, <1>17, <1>18, <1>19, <1>20, <1>21,
      <1>22, <1>23, <1>24, <1>25, <1>26, <1>27, <1>28, <1>29, <1>30, <1>31,
      <1>32, <1>33, <1>34, <1>35, <1>36 DEF Next, Body, Stop, DataThread

-----------------------------------------------------------------------------
(* What it implies. *)

\* For a caller that does not overlap grabs, the two stop() calls take turns.
THEOREM StopsTakeTurnsHolds == ASSUME ~OverlappingGrabs PROVE Spec => []StopsTakeTurns
  <1>1. IInv => StopsTakeTurns
    BY DEF IInv, LockInv
  <1>2. QED
    BY <1>1, Invariance, PTL

\* connection and gdpClient are there whenever grab(), stop() or the data thread uses them.
THEOREM ObjectsOutliveTheirUsesHolds == ASSUME ~OverlappingGrabs PROVE Spec => []ObjectsOutliveTheirUses
  <1>1. IInv => ObjectsOutliveTheirUses
    BY DEF IInv, TypeOK, FieldsOK, LockInv, StopsTakeTurns, ConnectionInv, ClientInv,
           Serving, Live, Threads, InStop, ObjectsOutliveTheirUses
  <1>2. QED
    BY <1>1, Invariance, PTL

\* grab() reaches ReceiveDataAsync() with no data thread, worker or stop() beside it.
THEOREM QuietBeforeReceiveHolds == ASSUME ~OverlappingGrabs PROVE Spec => []QuietBeforeReceive
  <1>1. IInv => QuietBeforeReceive
    BY DEF IInv, TypeOK, FieldsOK, LockInv, StopsTakeTurns, WorkerInv, Threads, InStop,
           QuietBeforeReceive
  <1>2. QED
    BY <1>1, Invariance, PTL

\* A stop() that has returned has left no data thread that could run a callback.
THEOREM NoCallbackAfterStopHolds == ASSUME ~OverlappingGrabs PROVE Spec => []NoCallbackAfterStop
  <1>1. IInv => NoCallbackAfterStop
    BY DEF IInv, LockInv, StopsTakeTurns, ClientInv, Serving, Live, Threads, InStop,
           NoCallbackAfterStop
  <1>2. QED
    BY <1>1, Invariance, PTL

\* The callbacks of every acquisition are numbered 0, 1, 2, ...
THEOREM FramesNumberedFromZeroHolds == ASSUME ~OverlappingGrabs PROVE Spec => []FramesNumberedFromZero
  <1>1. IInv => FramesNumberedFromZero
    BY DEF IInv, CountInv, FramesNumberedFromZero
  <1>2. QED
    BY <1>1, Invariance, PTL

\* The stop request of a frame target that was reached always gets its worker.
THEOREM StopRequestNotLostHolds == ASSUME ~OverlappingGrabs PROVE Spec => []StopRequestNotLost
  <1>1. IInv => StopRequestNotLost
    BY DEF IInv, TypeOK, FieldsOK, WorkerInv, StopRequestNotLost
  <1>2. QED
    BY <1>1, Invariance, PTL

\* A worker never stops a later acquisition than its own.
THEOREM WorkerStopsItsOwnHolds == ASSUME ~OverlappingGrabs PROVE Spec => []WorkerStopsItsOwn
  <1>1. IInv => WorkerStopsItsOwn
    BY DEF IInv, WorkerInv, InStop, WorkerStopsItsOwn
  <1>2. QED
    BY <1>1, Invariance, PTL

\* The end of every acquisition is notified exactly once.
THEOREM EndNotifiedOnceHolds == ASSUME ~OverlappingGrabs PROVE Spec => []EndNotifiedOnce
  <1>1. IInv => EndNotifiedOnce
    BY DEF IInv
  <1>2. QED
    BY <1>1, Invariance, PTL

\* With a sensor that obeys and a link that holds, an idle facade has not left
\* the sensor scanning.
THEOREM SensorStoppedWhenIdleHolds ==
    ASSUME ~OverlappingGrabs PROVE Spec => []SensorStoppedWhenIdle
  <1>1. Init => ReliableInv
    <2> SUFFICES ASSUME Init PROVE ReliableInv
      OBVIOUS
    <2>1. pc["api"] = "idle"
      BY DEF Init, Threads
    <2>2. sensor => faulty
      BY DEF Init
    <2>3. QED
      BY <2>1, <2>2 DEF ReliableInv
  <1>2. IInv /\ ReliableInv /\ [Next]_vars => ReliableInv'
    BY ReliableStep
  <1>3. IInv /\ ReliableInv => SensorStoppedWhenIdle
    BY DEF IInv, LockInv, StopsTakeTurns, ReliableInv, SensorStoppedWhenIdle, Live,
           Threads, InStop
  <1>4. QED
    BY <1>1, <1>2, <1>3, Invariance, PTL DEF Spec

\* A closed facade has released the connection, the client and the data thread,
\* and no thread outlives the members of Impl.
THEOREM NothingLeftHolds == ASSUME ~OverlappingGrabs PROVE Spec => []NothingLeft
  <1>1. IInv /\ pc["api"] = "idle" /\ ~isOpened =>
          ~connection /\ ~gdpClient /\ ~Live /\ data = "none"
    BY DEF IInv, TypeOK, FieldsOK, ConnectionInv, ClientInv, Live
  <1>2. IInv /\ pc["api"] = "gone" =>
          ~stopWorker /\ pc["worker"] = "none" /\ data = "none" /\ stopMutex = "none"
    BY DEF IInv, TypeOK, FieldsOK, OpInv, ConnectionInv, ClientInv, WorkerInv, Live
  <1>3. IInv => NothingLeft
    BY <1>1, <1>2 DEF NothingLeft
  <1>4. QED
    BY <1>3, Invariance, PTL

-----------------------------------------------------------------------------
(* The refinement of Acquisition. *)

\* A step of the facade is a step of Acquisition or leaves it alone.
LEMMA RefinementStep == IInv /\ [Next]_vars => [Promise!Next]_(Promise!vars)
  <1> SUFFICES ASSUME IInv, [Next]_vars PROVE [Promise!Next]_(Promise!vars)
    OBVIOUS
  <1>a. FieldsOK /\ LabelsOK /\ OpInv /\ LockInv /\ ConnectionInv /\ ClientInv /\ WorkerInv
    BY DEF IInv, TypeOK
  <1> USE DEF Promise!Next, Promise!vars, Live, flags, objects, counts, stopping, link, history
  <1>1. CASE OpenConnect
    BY <1>1, <1>a DEF OpenConnect, Step, OpInv, ConnectionInv, FieldsOK, Promise!Open
  <1>2. CASE CloseOpened
    BY <1>2, <1>a DEF CloseOpened, Step, ConnectionInv, FieldsOK, Live, Promise!Close
  <1>3. ASSUME NEW n \in Targets, GrabArm(n) PROVE [Promise!Next]_(Promise!vars)
    <2>1. isOpened /\ ~Live
      BY <1>3, <1>a DEF GrabArm, Step, OpInv, ConnectionInv, WorkerInv, LockInv,
                        StopsTakeTurns, FieldsOK, Threads, InStop
    <2>2. QED
      BY <1>3, <2>1 DEF GrabArm, Promise!Start
  <1>4. CASE DataCall
    <2>1. Live
      BY <1>4, <1>a DEF DataCall, ClientInv, LockInv, StopsTakeTurns, Serving, Threads, InStop
    <2>2. QED
      BY <1>4, <2>1 DEF DataCall, Promise!Deliver
  <1>5. ASSUME NEW p \in Threads, StopEnter(p) PROVE [Promise!Next]_(Promise!vars)
    BY <1>5, <1>a DEF StopEnter, FieldsOK, Threads
  <1>6. ASSUME NEW p \in Threads, StopNotify(p) PROVE [Promise!Next]_(Promise!vars)
    <2>1. Live /\ ~isGrabbing
      BY <1>6, <1>a DEF StopNotify, Step, LockInv, StopsTakeTurns, Threads, InStop
    <2>2. QED
      BY <1>6, <2>1 DEF StopNotify, Promise!Finish
  <1>7. CASE Construct
    BY <1>7, <1>a DEF Construct, Step, OpInv, ConnectionInv, FieldsOK
  <1>8. CASE CallOpen \/ Call("stop", "stop_enter") \/ CallClose \/ CallGrab \/ UNCHANGED vars
    BY <1>8 DEF CallOpen, CallClose, CallGrab, Call, vars
  <1>9. CASE OpenResolve \/ OpenLog \/ OpenThrows \/ JoinStopWorker \/ WorkerJoined \/ CloseClient
             \/ CloseConnection
    BY <1>9 DEF OpenResolve, OpenLog, OpenThrows, Go, JoinStopWorker, WorkerJoined, CloseClient,
                CloseConnection, DrainClient
  <1>10. CASE GrabCheck \/ GrabConnect \/ GrabReceive \/ GrabStart \/ GrabThrows \/ GrabNotify
    <2>1. UNCHANGED <<isOpened, isGrabbing, stopMutex, delivered>>
      BY <1>10 DEF GrabCheck, Go, GrabConnect, GrabReceive, GrabStart, GrabThrows, GrabNotify
    <2>2. QED
      BY <2>1
  <1>11. ASSUME NEW p \in Threads,
                StopFlag(p) \/ StopSensor(p) \/ StopClose(p) \/ StopDrain(p)
         PROVE  [Promise!Next]_(Promise!vars)
    <2>1. UNCHANGED <<isOpened, isGrabbing, stopMutex, delivered>>
      BY <1>11 DEF StopFlag, StopSensor, StopClose, StopDrain
    <2>2. QED
      BY <2>1
  <1>12. CASE DataLoop \/ DataDequeue \/ DataCheck \/ DataCount \/ DataRequest \/ DataSpawn
              \/ SensorSend \/ LinkDrop
    BY <1>12 DEF DataLoop, DataDequeue, DataCheck, DataCount, DataRequest, DataSpawn,
                 SensorSend, LinkDrop
  <1>13. QED
    BY <1>1, <1>2, <1>3, <1>4, <1>5, <1>6, <1>7, <1>8, <1>9, <1>10, <1>11, <1>12
       DEF Next, Body, Stop, DataThread

\* The facade implements Acquisition.
THEOREM Refinement == ASSUME ~OverlappingGrabs PROVE Spec => ImplementsAcquisition
  <1>1. Init => Promise!Init
    BY DEF Init, Promise!Init, Live
  <1>2. QED
    BY <1>1, RefinementStep, Invariance, PTL DEF Spec, Promise!Spec, ImplementsAcquisition
=============================================================================
