---------------------- MODULE SyncAcquisitionProperties ----------------------
(***************************************************************************)
(* What a synchronous acquisition promises to its caller.                  *)
(***************************************************************************)
EXTENDS SyncAcquisition

\* Type correctness.
TypeOK ==
    /\ connected \in BOOLEAN
    /\ gdpClient \in {"none", "closed", "open"}
    /\ buffer \in Seq(DataSets) /\ Len(buffer) <= MaxQueue
    /\ scanning \in BOOLEAN
    /\ op \in {"none", "connect", "receiveOne"} \cup Grabs
    /\ pc \in {"none", "connect", "client", "start", "clear", "receive", "stop"}
    /\ frameCount \in Nat \ {0}
    /\ stopAfterReceive \in BOOLEAN
    /\ received \in Seq(DataSets)
    /\ result \in {"none", "done", "failed"}
    /\ started \in BOOLEAN /\ stopFailed \in BOOLEAN

\* A grab that started the sensor and was asked to stop it leaves it stopped,
\* whether it returns a frame or throws (GocatorAcquisition.cpp:168-184, 192-235),
\* unless the Stop command itself failed.
StoppedOnEveryPath ==
    [][pc # "none" /\ pc' = "none" /\ op \in Grabs /\ started /\ stopAfterReceive =>
         ~scanning' \/ stopFailed']_vars

\* No frame is returned that had arrived before the operation was called, however
\* long the sensor was scanning then (GocatorAcquisition.cpp:158).
FrameIsNew == \A i \in DOMAIN received : ~received[i].old

\* grabUntilValidProfile() returns the first image or profile with a valid point;
\* without one, the last of as many frames as it was to receive, and at least one
\* (GocatorAcquisition.cpp:194-226).
FirstUsefulFrame ==
    op = "grabUntilValidProfile" =>
        /\ Len(received) <= frameCount
        /\ \A i \in 1 .. Len(received) - 1 : received[i].kind = "empty"
        /\ Idle /\ result = "done" =>
             /\ received # << >>
             /\ received[Len(received)].kind = "empty" => Len(received) = frameCount

\* Every operation ends, whatever the sensor and the links do.
CallEnds == ~Idle ~> Idle
=============================================================================
