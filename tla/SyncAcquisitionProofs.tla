------------------------ MODULE SyncAcquisitionProofs ------------------------
(***************************************************************************)
(* Proofs that a synchronous acquisition keeps its promises for every      *)
(* number of frames and every size of the client's buffer.                 *)
(***************************************************************************)
EXTENDS SyncAcquisitionProperties, SequenceTheorems, TLAPS

-----------------------------------------------------------------------------
(* The inductive invariant.                                                *)

\* Which operation can be where.
OpInv ==
    /\ pc \in {"connect", "client"} => op \in Grabs \cup {"connect"}
    /\ pc \in {"start", "stop"} => op \in Grabs
    /\ pc \in {"clear", "receive"} => op \in Grabs \cup {"receiveOne"}
    /\ pc \notin {"none", "stop"} => result = "none"

\* Before it starts the sensor an operation has nothing to stop and no frame.
BeforeStart ==
    pc \in {"connect", "client", "start"} => ~started /\ received = << >>

\* A receive sees only what has arrived since the buffer was cleared.
BufferInv == pc = "receive" => \A i \in 1 .. Len(buffer) : ~buffer[i].old

\* The frames that the loop has gone past are of no use, and there may be more.
LoopInv ==
    pc \in {"clear", "receive"} =>
        /\ \A i \in 1 .. Len(received) : received[i].kind = "empty"
        /\ Len(received) < frameCount

\* What grabUntilValidProfile() has when it ends.
EndInv ==
    op = "grabUntilValidProfile" =>
        /\ Len(received) <= frameCount
        /\ \A i \in 1 .. Len(received) - 1 : received[i].kind = "empty"
        /\ result = "done" =>
             /\ received # << >>
             /\ received[Len(received)].kind = "empty" => Len(received) = frameCount

IInv ==
    TypeOK /\ OpInv /\ BeforeStart /\ BufferInv /\ FrameIsNew /\ LoopInv /\ EndInv
-----------------------------------------------------------------------------
(* Lemmas about sequences of data sets.                                    *)

LEMMA AgedType ==
    ASSUME NEW s \in Seq(DataSets)
    PROVE  Aged(s) \in Seq(DataSets) /\ Len(Aged(s)) = Len(s)
    <1>1. Len(s) \in Nat /\ s \in [1 .. Len(s) -> DataSets] /\ DOMAIN s = 1 .. Len(s)
      BY LenProperties
    <1>2. \A d \in DataSets : [d EXCEPT !.old = TRUE] \in DataSets
      BY DEF DataSets
    <1>3. Aged(s) \in [1 .. Len(s) -> DataSets]
      BY <1>1, <1>2 DEF Aged
    <1>4. Aged(s) \in Seq(DataSets)
      BY <1>1, <1>3, SeqDef
    <1> QED
      BY <1>1, <1>3, <1>4, LenProperties

LEMMA AppendIs ==
    ASSUME NEW s \in Seq(DataSets), NEW d \in DataSets
    PROVE  /\ Append(s, d) \in Seq(DataSets) /\ Len(Append(s, d)) = Len(s) + 1
           /\ Append(s, d)[Len(s) + 1] = d
           /\ \A i \in 1 .. Len(s) : Append(s, d)[i] = s[i]
    OBVIOUS

LEMMA TailIs ==
    ASSUME NEW s \in Seq(DataSets), s # << >>
    PROVE  /\ Head(s) \in DataSets /\ Head(s) = s[1] /\ 1 \in 1 .. Len(s)
           /\ Tail(s) \in Seq(DataSets) /\ Len(Tail(s)) = Len(s) - 1
    OBVIOUS

-----------------------------------------------------------------------------
(* Every step keeps the invariant.                                         *)

\* An operation begins with nothing received.
LEMMA BeginStep ==
    ASSUME IInv, NEW o, NEW first, NEW n \in Nat \ {0}, NEW stop \in BOOLEAN,
           Begin(o, first, n, stop),
           \/ o = "connect" /\ first = "connect"
           \/ o = "receiveOne" /\ first = "clear"
           \/ o \in Grabs /\ first = "connect"
    PROVE  IInv'
    <1> USE DEF IInv
    <1>1. TypeOK'
      <2>1. buffer' \in Seq(DataSets) /\ Len(buffer') = Len(buffer)
        BY AgedType DEF TypeOK, Begin
      <2>2. received' \in Seq(DataSets)
        BY DEF Begin
      <2>3. UNCHANGED <<connected, gdpClient, scanning>>
        BY DEF Begin, links
      <2> QED
        BY <2>1, <2>2, <2>3 DEF TypeOK, Begin, Grabs
    <1>2. received' = << >> /\ result' = "none" /\ started' = FALSE
      BY DEF Begin
    <1>3. OpInv' /\ BeforeStart' /\ BufferInv'
      BY <1>2 DEF OpInv, BeforeStart, BufferInv, Begin, Grabs
    <1>4. LoopInv' /\ EndInv' /\ FrameIsNew'
      BY <1>1, <1>2 DEF LoopInv, EndInv, FrameIsNew, TypeOK
    <1> QED
      BY <1>1, <1>3, <1>4

\* A frame is received.
LEMMA ReceiveStep ==
    ASSUME IInv, Receive
    PROVE  IInv'
    <1> USE DEF IInv
    <1>1. /\ pc = "receive" /\ buffer \in Seq(DataSets) /\ buffer # << >>
          /\ received \in Seq(DataSets)
          /\ received' = Append(received, Head(buffer)) /\ buffer' = Tail(buffer)
          /\ UNCHANGED <<links, scanning, call, commands>>
      BY DEF Receive, TypeOK
    <1>2. /\ Head(buffer) \in DataSets /\ ~Head(buffer).old
          /\ Tail(buffer) \in Seq(DataSets) /\ Len(Tail(buffer)) = Len(buffer) - 1
      BY <1>1, TailIs DEF BufferInv
    <1>3. /\ received' \in Seq(DataSets) /\ Len(received') = Len(received) + 1
          /\ Len(received) \in Nat
          /\ received'[Len(received')] = Head(buffer)
          /\ \A i \in 1 .. Len(received) : received'[i] = received[i]
      BY <1>1, <1>2, AppendIs
    <1>4. \/ Enough(received') /\ result' = "done" /\ op \in Grabs /\ pc' = "stop"
          \/ Enough(received') /\ result' = "done" /\ op \notin Grabs /\ pc' = "none"
          \/ ~Enough(received') /\ pc' = "clear" /\ UNCHANGED result
      BY DEF Receive, Finish
    <1>5. TypeOK'
      <2>1. Len(buffer') <= MaxQueue
        BY <1>1, <1>2, SyncAssumption DEF TypeOK
      <2>2. UNCHANGED <<connected, gdpClient, scanning, op, frameCount, stopAfterReceive,
                        started, stopFailed>>
        BY <1>1 DEF links, call, commands
      <2> QED
        BY <1>1, <1>2, <1>3, <1>4, <2>1, <2>2 DEF TypeOK
    <1>6. OpInv' /\ BeforeStart' /\ BufferInv'
      BY <1>1, <1>4 DEF OpInv, BeforeStart, BufferInv, call, commands
    <1>7. FrameIsNew'
      BY <1>1, <1>2, <1>3 DEF FrameIsNew
    <1>8. \A i \in 1 .. Len(received') - 1 : received'[i].kind = "empty"
      BY <1>1, <1>3 DEF LoopInv
    <1>9. Len(received) < frameCount /\ frameCount' = frameCount /\ frameCount \in Nat /\ op' = op
      BY <1>1 DEF LoopInv, TypeOK, call
    <1>10. ~Enough(received') =>
              /\ received'[Len(received')].kind = "empty"
              /\ Len(received') # frameCount
      BY DEF Enough, Useful
    <1>11. LoopInv'
      BY <1>3, <1>4, <1>8, <1>9, <1>10 DEF LoopInv
    <1>12. op = "grabUntilValidProfile" /\ Enough(received') =>
              (received'[Len(received')].kind = "empty" => Len(received') = frameCount)
      BY DEF Enough, Useful
    <1>13. result' = "done" => Enough(received')
      BY <1>1, <1>4 DEF OpInv
    <1>14. EndInv'
      BY <1>1, <1>3, <1>8, <1>9, <1>12, <1>13 DEF EndInv
    <1> QED
      BY <1>5, <1>6, <1>7, <1>11, <1>14

\* A data set arrives.
LEMMA SendStep ==
    ASSUME IInv, SensorSend
    PROVE  IInv'
    <1> USE DEF IInv
    <1>1. PICK kind \in Kinds : buffer' = Append(buffer, [kind |-> kind, old |-> FALSE])
      BY DEF SensorSend
    <1> DEFINE d == [kind |-> kind, old |-> FALSE]
    <1>2. d \in DataSets /\ d.old = FALSE /\ buffer \in Seq(DataSets)
      BY DEF DataSets, TypeOK
    <1> HIDE DEF d
    <1>3. /\ buffer' \in Seq(DataSets) /\ Len(buffer') = Len(buffer) + 1
          /\ buffer'[Len(buffer) + 1] = d
          /\ \A i \in 1 .. Len(buffer) : buffer'[i] = buffer[i]
      BY <1>1, <1>2, AppendIs DEF d
    <1>4. UNCHANGED <<links, scanning, call, pc, received, result, commands>>
      BY DEF SensorSend
    <1>5. TypeOK'
      BY <1>3, <1>4, SyncAssumption DEF TypeOK, links, call, commands, SensorSend
    <1>6. BufferInv'
      BY <1>2, <1>3, <1>4 DEF BufferInv
    <1> QED
      BY <1>4, <1>5, <1>6
         DEF OpInv, BeforeStart, FrameIsNew, LoopInv, EndInv, call, commands

\* An operation goes on, or ends, without a frame: the type.
LEMMA OtherType ==
    ASSUME TypeOK,
           \/ CallStart \/ CallStop \/ CallDisconnect \/ Connect \/ ConnectClient \/ Start
           \/ StartFails \/ Clear \/ ReceiveFails \/ Stop \/ LinkDrop \/ CallClear
    PROVE  TypeOK'
    <1> USE DEF TypeOK, call, links, commands
    <1>1. CASE CallStart
      BY <1>1 DEF CallStart, Command, Idle
    <1>2. CASE CallStop
      BY <1>2 DEF CallStop, Command, Idle
    <1>3. CASE CallDisconnect
      BY <1>3, ZenonT(60) DEF CallDisconnect, Idle
    <1>4. CASE Connect
      BY <1>4 DEF Connect, Throw
    <1>5. CASE ConnectClient
      BY <1>5 DEF ConnectClient, Return, Throw
    <1>6. CASE Start
      BY <1>6 DEF Start
    <1>7. CASE StartFails
      BY <1>7 DEF StartFails, Throw
    <1>8. CASE Clear
      <2>1. buffer' \in Seq(DataSets) /\ Len(buffer') <= MaxQueue
        <3>1. buffer' = << >> \/ buffer' = buffer
          BY <1>8 DEF Clear
        <3>2. << >> \in Seq(DataSets) /\ Len(<< >>) <= MaxQueue
          BY SyncAssumption
        <3> QED
          BY <3>1, <3>2
      <2>2. pc' \in {"none", "stop", "receive"} /\ result' \in {"failed", result}
        BY <1>8 DEF Clear, Fail, Finish
      <2> QED
        BY <1>8, <2>1, <2>2 DEF Clear
    <1>9. CASE ReceiveFails
      BY <1>9 DEF ReceiveFails, Fail, Finish
    <1>10. CASE Stop
      BY <1>10, ZenonT(60) DEF Stop
    <1>11. CASE LinkDrop
      <2>1. connected' \in {FALSE, connected} /\ gdpClient' \in {"closed", gdpClient}
        BY <1>11 DEF LinkDrop
      <2>2. UNCHANGED <<buffer, scanning, op, frameCount, stopAfterReceive, pc, received, result,
                        started, stopFailed>>
        BY <1>11 DEF LinkDrop
      <2>3. connected' \in BOOLEAN /\ gdpClient' \in {"none", "closed", "open"}
        BY <2>1
      <2> QED
        BY <2>2, <2>3
    <1>12. CASE CallClear
      <2>1. << >> \in Seq(DataSets) /\ Len(<< >>) <= MaxQueue
        BY SyncAssumption
      <2> QED
        BY <1>12, <2>1 DEF CallClear
    <1> QED
      BY <1>1, <1>2, <1>3, <1>4, <1>5, <1>6, <1>7, <1>8, <1>9, <1>10, <1>11, <1>12

\* The rest of the invariant.
LEMMA OtherStep ==
    ASSUME IInv, UNCHANGED <<call, received>>,
           \/ CallStart \/ CallStop \/ CallDisconnect \/ Connect \/ ConnectClient \/ Start
           \/ StartFails \/ Clear \/ ReceiveFails \/ Stop \/ LinkDrop \/ CallClear
    PROVE  IInv'
    <1> USE DEF IInv
    <1>1. TypeOK'
      BY OtherType
    <1>2. /\ op' = op /\ frameCount' = frameCount /\ received' = received
          /\ received \in Seq(DataSets) /\ frameCount \in Nat \ {0}
      BY DEF call, TypeOK
    <1>3. FrameIsNew'
      BY <1>2 DEF FrameIsNew
    <1> DEFINE Loops ==
          /\ OpInv' /\ BeforeStart' /\ BufferInv'
          /\ pc' \in {"clear", "receive"} => pc \in {"clear", "receive"} \/ received = << >>
          /\ result' = "done" => result = "done" \/ op = "connect"
    <1> USE DEF OpInv, BeforeStart, BufferInv, commands
    <1>4. ASSUME CallStart
          PROVE  Loops
      BY <1>2, <1>4 DEF CallStart, Command, Idle, Grabs
    <1>5. ASSUME CallStop
          PROVE  Loops
      BY <1>2, <1>5 DEF CallStop, Command, Idle, Grabs
    <1>6. ASSUME CallDisconnect
          PROVE  Loops
      BY <1>2, <1>6 DEF CallDisconnect, Idle, Grabs
    <1>7. ASSUME Connect
          PROVE  Loops
      BY <1>2, <1>7 DEF Connect, Throw, Grabs
    <1>8. ASSUME ConnectClient
          PROVE  Loops
      BY <1>2, <1>8 DEF ConnectClient, Return, Throw, Grabs
    <1>9. ASSUME Start
          PROVE  Loops
      BY <1>2, <1>9 DEF Start, Grabs
    <1>10. ASSUME StartFails
          PROVE  Loops
      BY <1>2, <1>10 DEF StartFails, Throw, Grabs
    <1>11. ASSUME Clear
          PROVE  Loops
      BY <1>2, <1>11 DEF Clear, Fail, Finish, Grabs
    <1>12. ASSUME ReceiveFails
          PROVE  Loops
      BY <1>2, <1>12 DEF ReceiveFails, Fail, Finish, Grabs
    <1>13. ASSUME Stop
          PROVE  Loops
      BY <1>2, <1>13 DEF Stop, Grabs
    <1>14. ASSUME LinkDrop
          PROVE  Loops
      BY <1>2, <1>14 DEF LinkDrop, Grabs
    <1>15. ASSUME CallClear
           PROVE  Loops
      BY <1>2, <1>15 DEF CallClear, Idle, Grabs
    <1>16. Loops
      BY <1>4, <1>5, <1>6, <1>7, <1>8, <1>9, <1>10, <1>11, <1>12, <1>13, <1>14, <1>15
    <1>17. LoopInv'
      BY <1>2, <1>16 DEF LoopInv
    <1>18. EndInv'
      BY <1>2, <1>16 DEF EndInv
    <1> QED
      BY <1>1, <1>3, <1>16, <1>17, <1>18

LEMMA Invariance == Spec => []IInv
    <1>1. Init => IInv
      <2> SUFFICES ASSUME Init
                   PROVE  IInv
        OBVIOUS
      <2>1. buffer \in Seq(DataSets) /\ Len(buffer) = 0 /\ received \in Seq(DataSets)
        BY DEF Init
      <2>2. TypeOK
        <3>1. Len(buffer) <= MaxQueue /\ frameCount \in Nat \ {0}
          BY <2>1, SyncAssumption DEF Init
        <3>2. connected \in BOOLEAN /\ stopAfterReceive \in BOOLEAN /\ started \in BOOLEAN
                 /\ stopFailed \in BOOLEAN
          BY DEF Init
        <3> QED
          BY <2>1, <3>1, <3>2 DEF Init, TypeOK
      <2>3. OpInv /\ BeforeStart /\ BufferInv /\ FrameIsNew /\ LoopInv /\ EndInv
        BY DEF Init, OpInv, BeforeStart, BufferInv, FrameIsNew, LoopInv, EndInv
      <2> QED
        BY <2>2, <2>3 DEF IInv
    <1>2. IInv /\ [Next]_vars => IInv'
      <2> SUFFICES ASSUME IInv, [Next]_vars
                   PROVE  IInv'
        OBVIOUS
      <2>1. CASE CallConnect \/ CallReceiveOne
        <3>1. 1 \in Nat \ {0} /\ FALSE \in BOOLEAN
          OBVIOUS
        <3>2. CASE CallConnect
          BY <3>1, <3>2, BeginStep DEF CallConnect
        <3>3. CASE CallReceiveOne
          BY <3>1, <3>3, BeginStep DEF CallReceiveOne
        <3> QED
          BY <2>1, <3>2, <3>3
      <2>2. CASE CallGrabOne
        BY <2>2, BeginStep DEF CallGrabOne, Grabs
      <2>3. CASE CallGrabUntilValidProfile
        <3>1. PICK stop \in BOOLEAN, n \in FrameCounts :
                Begin("grabUntilValidProfile", "connect", IF n > 1 THEN n ELSE 1, stop)
          BY <2>3 DEF CallGrabUntilValidProfile
        <3>2. (IF n > 1 THEN n ELSE 1) \in Nat \ {0}
          BY SyncAssumption
        <3> QED
          BY <3>1, <3>2, BeginStep DEF Grabs
      <2>4. CASE \/ CallStart \/ CallStop \/ CallDisconnect \/ Connect \/ ConnectClient \/ Start
                 \/ StartFails \/ Clear \/ ReceiveFails \/ Stop \/ LinkDrop \/ CallClear
        <3>1. UNCHANGED <<call, received>>
          BY <2>4 DEF CallStart, CallStop, Command, CallDisconnect, Connect, ConnectClient,
               Start, StartFails, Clear, ReceiveFails, Stop, LinkDrop, CallClear
        <3> QED
          BY <2>4, <3>1, OtherStep
      <2>5. CASE UNCHANGED vars
        BY <2>5 DEF vars, links, call, commands, IInv, TypeOK, OpInv, BeforeStart, BufferInv,
             FrameIsNew, LoopInv, EndInv
      <2> QED
        BY <2>1, <2>2, <2>3, <2>4, <2>5, ReceiveStep, SendStep DEF Next, Body
    <1> QED
      BY <1>1, <1>2, PTL DEF Spec

-----------------------------------------------------------------------------
\* The counters, links and frames keep their types; frameCount is at least 1
\* (GocatorAcquisition.cpp:195).
THEOREM TypeCorrect == Spec => []TypeOK
    <1>1. IInv => TypeOK
      BY DEF IInv
    <1> QED
      BY <1>1, Invariance, PTL

\* No frame is returned that had arrived before the operation was called
\* (GocatorAcquisition.cpp:158).
THEOREM OnlyNewFrames == Spec => []FrameIsNew
    <1>1. IInv => FrameIsNew
      BY DEF IInv
    <1> QED
      BY <1>1, Invariance, PTL

\* grabUntilValidProfile() returns the first useful frame, or the last of as many
\* as it was to receive (GocatorAcquisition.cpp:194-226).
THEOREM UsefulFirst == Spec => []FirstUsefulFrame
    <1>1. IInv => FirstUsefulFrame
      BY DEF IInv, EndInv, FirstUsefulFrame
    <1> QED
      BY <1>1, Invariance, PTL

\* A grab that started the sensor ends with a Stop command on every path
\* (GocatorAcquisition.cpp:168-184, 192-235).
THEOREM AlwaysStopped == Spec => StoppedOnEveryPath
    <1>1. IInv /\ [Next]_vars =>
            (pc # "none" /\ pc' = "none" /\ op \in Grabs /\ started /\ stopAfterReceive =>
               ~scanning' \/ stopFailed')
      <2> SUFFICES ASSUME IInv, [Next]_vars, pc # "none", pc' = "none", op \in Grabs, started,
                          stopAfterReceive
                   PROVE  ~scanning' \/ stopFailed'
        OBVIOUS
      <2>1. pc \notin {"connect", "client", "start"}
        BY DEF IInv, BeforeStart
      <2>2. Stop
        BY <2>1
           DEF Next, Body, CallConnect, CallReceiveOne, CallGrabOne, CallGrabUntilValidProfile,
               Begin, Idle, CallStart, CallStop, Command, CallDisconnect, Connect, ConnectClient,
               Start, StartFails, Clear, Receive, ReceiveFails, Fail, Finish, SensorSend,
               LinkDrop, CallClear, vars
      <2> QED
        BY <2>2 DEF Stop
    <1> QED
      BY <1>1, Invariance, PTL DEF Spec, StoppedOnEveryPath
=============================================================================
