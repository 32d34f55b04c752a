--------------------------- MODULE SyncAcquisition ---------------------------
(***************************************************************************)
(* GocatorAcquisition: frames taken one at a time, by the calling thread,  *)
(* from a sensor that is started for it and stopped after.  Every command  *)
(* may fail, both links may break, and the sensor may have sent data       *)
(* before the call.                                                        *)
(***************************************************************************)
EXTENDS Integers, Sequences

CONSTANTS
    FrameCounts,    \* values of maxFrames
    MaxQueue        \* data sets that the client's buffer may hold

ASSUME SyncAssumption ==
    /\ FrameCounts \subseteq Int
    /\ MaxQueue \in Nat \ {0}

Kinds == {"image", "valid", "empty"}    \* "empty": no image, no valid point

\* A data set, and whether it had arrived when the operation was called.
DataSets == [kind : Kinds, old : BOOLEAN]

VARIABLES
    connected,      \* connection_.isConnected()
    gdpClient,      \* "none", "closed" or, when IsConnected(), "open"
    buffer,         \* data sets that the client has buffered
    scanning,       \* the sensor is scanning
    op,             \* the operation under way, or the last one
    pc,             \* where it is
    frameCount,     \* frames that it receives at most
    stopAfterReceive,
    received,       \* frames that it has received
    result,         \* "done" or "failed" when it is known
    started, stopFailed    \* how its commands to the sensor ended

links == <<connected, gdpClient>>
call == <<op, frameCount, stopAfterReceive>>
commands == <<started, stopFailed>>
vars == <<links, buffer, scanning, call, pc, received, result, commands>>

Grabs == {"grabOne", "grabUntilValidProfile"}

Idle == pc = "none"

Init ==
    /\ connected = FALSE
    /\ gdpClient = "none"
    /\ buffer = << >>
    /\ scanning \in BOOLEAN
    /\ op = "none" /\ pc = "none" /\ frameCount = 1 /\ stopAfterReceive = FALSE
    /\ received = << >> /\ result = "none"
    /\ started = FALSE /\ stopFailed = FALSE

-----------------------------------------------------------------------------
(* The calls.                                                              *)

Aged(sets) == [i \in DOMAIN sets |-> [sets[i] EXCEPT !.old = TRUE]]

Begin(o, first, n, stop) ==
    /\ Idle
    /\ op' = o /\ pc' = first /\ frameCount' = n /\ stopAfterReceive' = stop
    /\ buffer' = Aged(buffer)
    /\ received' = << >> /\ result' = "none"
    /\ started' = FALSE /\ stopFailed' = FALSE
    /\ UNCHANGED <<links, scanning>>

CallConnect == Begin("connect", "connect", 1, FALSE)

CallReceiveOne == Begin("receiveOne", "clear", 1, FALSE)

CallGrabOne == \E stop \in BOOLEAN : Begin("grabOne", "connect", 1, stop)

\* At least one frame, whatever maxFrames is.
CallGrabUntilValidProfile ==
    \E stop \in BOOLEAN, n \in FrameCounts :
        Begin("grabUntilValidProfile", "connect", IF n > 1 THEN n ELSE 1, stop)

\* start() and stop(), whose failure may come after their effect.
Command(on) ==
    /\ Idle
    /\ scanning' = on
    /\ UNCHANGED <<links, buffer, call, pc, received, result, commands>>

CallStart == connected /\ Command(TRUE)

CallStop == connected /\ Command(FALSE)

\* disconnect(): each of the two closings may fail silently.
CallDisconnect ==
    /\ Idle
    /\ gdpClient' \in {gdpClient, IF gdpClient = "open" THEN "closed" ELSE gdpClient}
    /\ connected' \in {connected, FALSE}
    /\ UNCHANGED <<buffer, scanning, call, pc, received, result, commands>>

\* clear(), which needs a client and no connection.
CallClear ==
    /\ Idle
    /\ gdpClient # "none"
    /\ buffer' = << >>
    /\ UNCHANGED <<links, scanning, call, pc, received, result, commands>>

-----------------------------------------------------------------------------
(* connect().                                                              *)

Return == pc' = "none" /\ result' = "done"

Throw == pc' = "none" /\ result' = "failed"

\* The control connection is made unless there is one.
Connect ==
    /\ pc = "connect"
    /\ \/ connected' = TRUE /\ pc' = "client" /\ UNCHANGED result
       \/ ~connected /\ Throw /\ UNCHANGED connected
    /\ UNCHANGED <<gdpClient, buffer, scanning, call, received, commands>>

\* The client is made unless there is one, and connected, at the port that the
\* sensor tells, unless it is.
ConnectClient ==
    /\ pc = "client"
    /\ \/ /\ gdpClient = "open" \/ connected
          /\ gdpClient' = "open"
          /\ IF op = "connect" THEN Return ELSE pc' = "start" /\ UNCHANGED result
       \/ /\ gdpClient # "open"
          /\ gdpClient' \in {gdpClient, "closed"}
          /\ Throw
    /\ UNCHANGED <<connected, buffer, scanning, call, received, commands>>

-----------------------------------------------------------------------------
(* grabOne(), grabUntilValidProfile() and receiveOne().                    *)

\* Mutant: a grab that fails leaves the sensor as it is.
FailUnstopped == Throw

\* What is received, or that nothing is, is known; a grab stops the sensor first.
Finish(r) ==
    /\ result' = r
    /\ pc' = IF op \in Grabs THEN "stop" ELSE "none"

\* The handler of a grab; receiveOne() has none.
Fail == Finish("failed")

\* start(), outside of the try block.
Start ==
    /\ pc = "start"
    /\ connected
    /\ scanning' = TRUE /\ started' = TRUE
    /\ pc' = "clear"
    /\ UNCHANGED <<links, buffer, call, received, result, stopFailed>>

StartFails ==
    /\ pc = "start"
    /\ scanning' \in {scanning, scanning \/ connected}
    /\ Throw
    /\ UNCHANGED <<links, buffer, call, received, commands>>

\* Mutant: the buffer is not cleared.
KeepBuffer ==
    /\ pc = "clear"
    /\ \/ gdpClient # "open" /\ Fail
       \/ gdpClient = "open" /\ pc' = "receive" /\ UNCHANGED result
    /\ UNCHANGED <<links, buffer, scanning, call, received, commands>>

\* receiveOne() up to ClearData().
Clear ==
    /\ pc = "clear"
    /\ \/ gdpClient # "open" /\ Fail /\ UNCHANGED buffer
       \/ gdpClient = "open" /\ buffer' = << >> /\ pc' = "receive" /\ UNCHANGED result
    /\ UNCHANGED <<links, scanning, call, received, commands>>

\* grabUntilValidProfile() looks for an image or for a profile with a valid point.
Useful(frame) == frame.kind # "empty"

\* Mutant: the loop ends only with a useful frame.
EnoughWhenUseful(frames) ==
    op # "grabUntilValidProfile" \/ Useful(frames[Len(frames)])

Enough(frames) ==
    \/ op # "grabUntilValidProfile"
    \/ Useful(frames[Len(frames)])
    \/ Len(frames) = frameCount

\* ReceiveDataSync() and frameFromDataSet().
Receive ==
    /\ pc = "receive" /\ buffer # << >>
    /\ received' = Append(received, Head(buffer))
    /\ buffer' = Tail(buffer)
    /\ IF Enough(received') THEN Finish("done") ELSE pc' = "clear" /\ UNCHANGED result
    /\ UNCHANGED <<links, scanning, call, commands>>

\* Mutant: nothing came in time, and it tries again.
ReceiveAgain ==
    /\ pc = "receive"
    /\ pc' = "clear"
    /\ UNCHANGED <<links, buffer, scanning, call, received, result, commands>>

\* Nothing came in time, or the link broke.
ReceiveFails ==
    /\ pc = "receive"
    /\ Fail
    /\ UNCHANGED <<links, buffer, scanning, call, received, commands>>

\* stopNoThrow(), when the caller wants it.
Stop ==
    /\ pc = "stop"
    /\ pc' = "none"
    /\ \/ ~stopAfterReceive /\ UNCHANGED <<scanning, stopFailed>>
       \/ stopAfterReceive /\ connected /\ scanning' = FALSE /\ UNCHANGED stopFailed
       \/ stopAfterReceive /\ scanning' \in {scanning, FALSE} /\ stopFailed' = TRUE
    /\ UNCHANGED <<links, buffer, call, received, result, started>>

-----------------------------------------------------------------------------
(* The sensor and the network.                                             *)

SensorSend ==
    /\ scanning /\ gdpClient = "open" /\ Len(buffer) < MaxQueue
    /\ \E kind \in Kinds : buffer' = Append(buffer, [kind |-> kind, old |-> FALSE])
    /\ UNCHANGED <<links, scanning, call, pc, received, result, commands>>

LinkDrop ==
    /\ \/ connected /\ connected' = FALSE /\ UNCHANGED gdpClient
       \/ gdpClient = "open" /\ gdpClient' = "closed" /\ UNCHANGED connected
    /\ UNCHANGED <<buffer, scanning, call, pc, received, result, commands>>

Body ==
    \/ Connect \/ ConnectClient \/ Start \/ StartFails \/ Clear \/ Receive \/ ReceiveFails
    \/ Stop

Next ==
    \/ CallConnect \/ CallReceiveOne \/ CallGrabOne \/ CallGrabUntilValidProfile
    \/ CallStart \/ CallStop \/ CallDisconnect \/ CallClear
    \/ Body \/ SensorSend \/ LinkDrop

Spec == Init /\ [][Next]_vars

\* The calling thread runs; a receive that gets nothing times out.
FairSpec == Spec /\ WF_vars(Body)
=============================================================================
