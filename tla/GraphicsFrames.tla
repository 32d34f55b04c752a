---------------------------- MODULE GraphicsFrames ----------------------------
(***************************************************************************)
(* convertGraphicsFrame() and what GocatorGraphicsFrameStream makes of it: *)
(* the message of a data set that becomes a frame, the frame's identifier, *)
(* and the mask of its cells, which the threads of an OpenMP loop fill in, *)
(* each with a count of its own.  Coordinates, which are floating-point,   *)
(* and the copy of the intensities are left out.                           *)
(***************************************************************************)
EXTENDS Integers, FiniteSets, Sequences

CONSTANTS
    Packets,        \* the messages that the sensor sends
    MaxPackets,     \* bound: messages of a data set
    OmpThreads,     \* the threads of a parallel loop
    IntMax,         \* std::numeric_limits<int>::max()
    NoCell          \* what a thread between two cells works on

SurfaceTypes == {"UNIFORM_SURFACE", "SURFACE_POINT_CLOUD"}

ProfileTypes == {"UNIFORM_PROFILE", "PROFILE_POINT_CLOUD"}

\* id is the frame index of a stamp and DataSetId() of another message.  The
\* ranges, if they are there and of the item size of the type, are an array of
\* rows and columns; measured has the places of the array, row by row, whose
\* coordinates are all other than k16S_NULL.
IsPacket(m) ==
    /\ m.type \in SurfaceTypes \cup ProfileTypes \cup {"STAMP", "other"}
    /\ m.id \in Nat /\ m.width \in Nat /\ m.length \in Nat
    /\ m.hasRanges \in BOOLEAN /\ m.rows \in Nat /\ m.columns \in Nat
    /\ m.type \in ProfileTypes => m.rows = 1
    /\ m.measured \subseteq 0 .. m.rows * m.columns - 1

ASSUME GraphicsAssumption ==
    /\ \A m \in Packets : IsPacket(m)
    /\ MaxPackets \in Nat /\ IntMax \in Nat
    /\ OmpThreads # {}
    /\ NoCell \notin Nat

VARIABLES
    dataSet,        \* the data set, a sequence of messages
    at,             \* the message that the loop is at
    phase,          \* "stamp", "message", "cells" or "done"
    stamp,          \* readStamp(): a sequence of the frame index, or empty
    todo,           \* cells that no thread has taken yet
    taken,          \* the cell that each thread works on
    counted,        \* the cells that each thread has counted in its validPointCount
    reduced,        \* the threads whose count has been added to the sum
    validPointCount,
    validMask,      \* the cells whose byte of the mask is 1
    shown,          \* the frame: [packet: its message, id, mask: its valid cells]
    refused         \* history: messages whose frame was not isValid()

loop == <<todo, taken, counted, reduced, validPointCount, validMask>>
graphicsVars == <<dataSet, at, phase, stamp, loop, shown, refused>>

NoFrame == [packet |-> 0, id |-> 0, mask |-> {}]

GraphicsInit ==
    /\ dataSet \in UNION {[1 .. n -> Packets] : n \in 0 .. MaxPackets}
    /\ at = 1 /\ phase = "stamp" /\ stamp = <<>>
    /\ todo = {} /\ taken = [t \in OmpThreads |-> NoCell]
    /\ counted = [t \in OmpThreads |-> {}] /\ reduced = {}
    /\ validPointCount = 0 /\ validMask = {}
    /\ shown = NoFrame /\ refused = {}

-----------------------------------------------------------------------------
\* Mutant: the stamp is looked for before the message only.
StampBefore == {k \in 1 .. Len(dataSet) : k <= at /\ dataSet[k].type = "STAMP"}

\* The stamps of the data set.
Stamps == {k \in 1 .. Len(dataSet) : dataSet[k].type = "STAMP"}

\* readStamp(): the first stamp, wherever it is.
ReadStamp ==
    /\ phase = "stamp" /\ phase' = "message"
    /\ stamp' \in IF Stamps = {} THEN {<<>>}
                  ELSE {<<dataSet[k].id>> : k \in {j \in Stamps : \A l \in Stamps : j <= l}}
    /\ UNCHANGED <<dataSet, at, loop, shown, refused>>

-----------------------------------------------------------------------------
\* The number of rows of the frame that is made of m.
Rows(m) == IF m.type \in SurfaceTypes THEN m.length ELSE 1

\* positiveInt().
PositiveInt(n) == n \in 1 .. IntMax

\* Mutant: the array may have fewer rows than the message tells.
ConvertibleByColumns(m) ==
    /\ m.type \in SurfaceTypes \cup ProfileTypes
    /\ PositiveInt(m.width) /\ PositiveInt(Rows(m))
    /\ m.hasRanges /\ m.columns >= m.width

\* What the four conversions ask of a message: a size, and ranges that have it.
Convertible(m) ==
    /\ m.type \in SurfaceTypes \cup ProfileTypes
    /\ PositiveInt(m.width) /\ PositiveInt(Rows(m))
    /\ m.hasRanges /\ m.columns >= m.width
    /\ m.type \in SurfaceTypes => m.rows >= m.length

Cells(m) == 0 .. m.width * Rows(m) - 1

\* The loop passes over a message that is not converted, or begins the parallel
\* loop over its cells with a full mask, or ends without a frame.
NextMessage ==
    /\ phase = "message"
    /\ IF at > Len(dataSet)
         THEN phase' = "done" /\ UNCHANGED <<at, loop>>
         ELSE IF Convertible(dataSet[at])
           THEN /\ phase' = "cells"
                /\ todo' = Cells(dataSet[at]) /\ validMask' = Cells(dataSet[at])
                /\ counted' = [t \in OmpThreads |-> {}] /\ reduced' = {}
                /\ validPointCount' = 0
                /\ UNCHANGED <<at, taken>>
           ELSE at' = at + 1 /\ UNCHANGED <<phase, loop>>
    /\ UNCHANGED <<dataSet, stamp, shown, refused>>

-----------------------------------------------------------------------------
(* The parallel loop: OpenMP divides the cells among the threads as it     *)
(* likes, and adds their counts in any order.                              *)

TakeCell(t) ==
    /\ phase = "cells" /\ taken[t] = NoCell /\ t \notin reduced
    /\ \E k \in todo : todo' = todo \ {k} /\ taken' = [taken EXCEPT ![t] = k]
    /\ UNCHANGED <<dataSet, at, phase, stamp, counted, reduced, validPointCount, validMask,
                   shown, refused>>

\* Mutant: a cell without a range is counted, too.
PutAnyCell(t) ==
    /\ phase = "cells" /\ taken[t] # NoCell
    /\ counted' = [counted EXCEPT ![t] = @ \cup {taken[t]}]
    /\ validMask' = IF taken[t] \in dataSet[at].measured THEN validMask ELSE validMask \ {taken[t]}
    /\ taken' = [taken EXCEPT ![t] = NoCell]
    /\ UNCHANGED <<dataSet, at, phase, stamp, todo, reduced, validPointCount, shown, refused>>

\* The array is read at the place of the cell's number: the cell is counted, or
\* its byte of the mask is cleared.
PutCell(t) ==
    /\ phase = "cells" /\ taken[t] # NoCell
    /\ IF taken[t] \in dataSet[at].measured
         THEN counted' = [counted EXCEPT ![t] = @ \cup {taken[t]}] /\ validMask' = validMask
         ELSE validMask' = validMask \ {taken[t]} /\ counted' = counted
    /\ taken' = [taken EXCEPT ![t] = NoCell]
    /\ UNCHANGED <<dataSet, at, phase, stamp, todo, reduced, validPointCount, shown, refused>>

\* A thread that gets no more cells adds its count, while another is left for
\* the cells still to do.
Reduce(t) ==
    /\ phase = "cells" /\ taken[t] = NoCell /\ t \notin reduced
    /\ todo = {} \/ reduced \cup {t} # OmpThreads
    /\ validPointCount' = validPointCount + Cardinality(counted[t])
    /\ reduced' = reduced \cup {t}
    /\ UNCHANGED <<dataSet, at, phase, stamp, todo, taken, counted, validMask, shown, refused>>

\* Behind the loop's barrier the mask of a frame without an invalid cell is
\* cleared, which says that every cell is valid.
Mask ==
    IF validPointCount = dataSet[at].width * Rows(dataSet[at])
      THEN Cells(dataSet[at]) ELSE validMask

\* frameId().
FrameId == IF stamp = <<>> THEN dataSet[at].id ELSE stamp[1]

\* The first frame that isValid() is the result; another is dropped.
MakeFrame ==
    /\ phase = "cells" /\ reduced = OmpThreads
    /\ \/ /\ shown' = [packet |-> at, id |-> FrameId, mask |-> Mask]
          /\ phase' = "done" /\ UNCHANGED <<at, refused>>
       \/ /\ refused' = refused \cup {at}
          /\ phase' = "message" /\ at' = at + 1 /\ UNCHANGED shown
    /\ UNCHANGED <<dataSet, stamp, loop>>

GraphicsNext ==
    \/ ReadStamp \/ NextMessage \/ MakeFrame
    \/ \E t \in OmpThreads : TakeCell(t) \/ PutCell(t) \/ Reduce(t)

GraphicsSpec == GraphicsInit /\ [][GraphicsNext]_graphicsVars
=============================================================================
