----------------------- MODULE GraphicsFramesProperties -----------------------
(***************************************************************************)
(* What the frame that convertGraphicsFrame() makes says of a data set.    *)
(***************************************************************************)
EXTENDS GraphicsFrames

\* Type correctness: a thread works on a cell or on none, and a frame is made of
\* a message.
GraphicsTypeOK ==
    /\ dataSet \in Seq(Packets)
    /\ at \in Nat \ {0} /\ phase \in {"stamp", "message", "cells", "done"}
    /\ stamp \in {<<>>} \cup {<<id>> : id \in Nat}
    /\ todo \subseteq Nat /\ taken \in [OmpThreads -> Nat \cup {NoCell}]
    /\ counted \in [OmpThreads -> SUBSET Nat] /\ reduced \subseteq OmpThreads
    /\ validPointCount \in Nat /\ validMask \subseteq Nat
    /\ shown \in [packet : Nat, id : Nat, mask : SUBSET Nat]
    /\ refused \subseteq Nat

\* The frame is made of the first message that can be converted and whose frame
\* is valid, and its identifier is that of the first stamp, which may come before
\* or after the message (GocatorDataSetGraphicsFrameAdapter.cpp:190-203, 483-517).
FirstIsShown ==
    phase = "done" =>
        LET Usable == {k \in 1 .. Len(dataSet) : Convertible(dataSet[k])} \ refused
            p == shown.packet
        IN  /\ p = 0 => Usable = {}
            /\ p # 0 =>
                 /\ p \in Usable /\ \A k \in Usable : p <= k
                 /\ \/ /\ \A k \in 1 .. Len(dataSet) : dataSet[k].type # "STAMP"
                       /\ shown.id = dataSet[p].id
                    \/ \E k \in 1 .. Len(dataSet) :
                         /\ dataSet[k].type = "STAMP" /\ shown.id = dataSet[k].id
                         /\ \A l \in 1 .. k - 1 : dataSet[l].type # "STAMP"

\* No thread reads behind the end of the array: the checks of its two lengths
\* bound the number of a cell, which is counted through both
\* (GocatorDataSetGraphicsFrameAdapter.cpp:231-254, 294-320).
ReadsInside ==
    \A t \in OmpThreads :
        taken[t] # NoCell => taken[t] < dataSet[at].rows * dataSet[at].columns

\* A cell of the frame is valid exactly when the sensor has measured the range in
\* its row and column, however the threads divided the cells and whether or not
\* the mask was cleared, provided the array is as wide as the message
\* (GocatorDataSetGraphicsFrameAdapter.cpp:248-269).
MaskIsExact ==
    LET m == dataSet[shown.packet]
    IN  shown.packet # 0 /\ (m.columns = m.width \/ Rows(m) = 1) =>
          \A r \in 0 .. Rows(m) - 1, c \in 0 .. m.width - 1 :
             r * m.width + c \in shown.mask <=> r * m.columns + c \in m.measured
=============================================================================
