--------------------------- MODULE DataSetFrames ---------------------------
(***************************************************************************)
(* frameFromDataSet() and the conversions it calls (GocatorAcquisition.cpp)*)
(* for one message of a data set: how it is read, and the statistics of a  *)
(* profile or an image, one point or byte per step.  Coordinates, which    *)
(* are floating-point, and identifiers are left out.                       *)
(***************************************************************************)
EXTENDS Integers

CONSTANTS
    Types,          \* types of messages that the sensor sends
    Widths,         \* numbers of points, of intensities and of bytes
    Ranges,         \* coordinates of points as the sensor sends them
    Null,           \* k16S_NULL
    Intensities     \* intensities, and the bytes of an image

MessageTypes ==
    {"IMAGE", "UNIFORM_SURFACE", "UNIFORM_PROFILE", "PROFILE_POINT_CLOUD", "SPOTS", "other"}

ASSUME FramesAssumption ==
    /\ Types \subseteq MessageTypes
    /\ Widths \subseteq Nat
    /\ Ranges \subseteq Int /\ Null \notin Ranges
    /\ Intensities \subseteq Nat

VARIABLES
    message,    \* the message
    class,      \* the class that it is read as
    i,          \* points or bytes done
    frame       \* the frame that is made of it

vars == <<message, class, i, frame>>

Items == [x : Ranges \cup {Null}, z : Ranges \cup {Null}]

Below(n) == 0 .. n - 1

\* The ranges and the intensities are kNULL or arrays of the widths that the
\* message tells; an image has its bytes for intensities.
Messages ==
    UNION {[type : Types, width : {w}, intensityWidth : {n},
            hasRanges : BOOLEAN, ranges : [Below(w) -> Items],
            hasIntensities : BOOLEAN, intensities : [Below(n) -> Intensities]] :
              w \in Widths, n \in Widths}

EmptyFrame ==
    [validCount |-> 0, nullCount |-> 0, valid |-> {},
     hasRangeStats |-> FALSE, minRange |-> 0, maxRange |-> 0, firstRange |-> 0,
     hasIntensityStats |-> FALSE, minIntensity |-> 0, maxIntensity |-> 0]

Init ==
    /\ message \in Messages
    /\ class = "none" /\ i = 0
    /\ frame = EmptyFrame

-----------------------------------------------------------------------------
\* The class that the SDK makes of a message.
ClassOf(type) ==
    [IMAGE |-> "GoGdpImage", UNIFORM_SURFACE |-> "GoGdpSurfaceUniform",
     UNIFORM_PROFILE |-> "GoGdpProfileUniform",
     PROFILE_POINT_CLOUD |-> "GoGdpProfilePointCloud", SPOTS |-> "GoGdpSpots",
     other |-> "GoGdpMsg"][type]

\* The class that frameFromDataSet() takes it for.
ReadAs(type) ==
    [IMAGE |-> "GoGdpImage", UNIFORM_SURFACE |-> "GoGdpImage",
     UNIFORM_PROFILE |-> "GoGdpProfileUniform",
     PROFILE_POINT_CLOUD |-> "GoGdpProfilePointCloud", SPOTS |-> "GoGdpSpots",
     other |-> "GoGdpMsg"][type]

\* The statistics of intensities and of bytes start from the first one.
Start ==
    IF message.intensityWidth > 0 /\ message.hasIntensities
      THEN [EmptyFrame EXCEPT !.hasIntensityStats = TRUE,
                              !.minIntensity = message.intensities[0],
                              !.maxIntensity = message.intensities[0]]
      ELSE EmptyFrame

\* The message is read, a surface as an image: what it finds is then undefined.
Read ==
    /\ class = "none"
    /\ class' = ReadAs(message.type)
    /\ IF class' = ClassOf(message.type)
         THEN message' = message
         ELSE message' \in {m \in Messages : m.type = message.type}
    /\ frame' = IF class' \in {"GoGdpMsg", "GoGdpSpots"} THEN EmptyFrame ELSE Start'
    /\ UNCHANGED i

-----------------------------------------------------------------------------
Smaller(a, b) == IF a < b THEN a ELSE b

Larger(a, b) == IF a > b THEN a ELSE b

\* The range at k.
Item(k) == IF message.hasRanges THEN message.ranges[k] ELSE [x |-> Null, z |-> Null]

\* A point of a uniform profile needs a height, one of a cloud both coordinates.
Valid(k) ==
    /\ Item(k).z # Null
    /\ class = "GoGdpProfilePointCloud" => Item(k).x # Null

\* Mutant: the statistics of ranges start from zero.
CountedFromZero(f) ==
    IF Valid(i)
      THEN [f EXCEPT !.validCount = @ + 1, !.valid = @ \cup {i}, !.hasRangeStats = TRUE,
                     !.firstRange = IF f.hasRangeStats THEN @ ELSE Item(i).z,
                     !.minRange = Smaller(@, Item(i).z), !.maxRange = Larger(@, Item(i).z)]
      ELSE [f EXCEPT !.nullCount = @ + 1]

\* The frame with the range of the next point.
Counted(f) ==
    IF Valid(i)
      THEN [f EXCEPT !.validCount = @ + 1, !.valid = @ \cup {i}, !.hasRangeStats = TRUE,
                     !.firstRange = IF f.hasRangeStats THEN @ ELSE Item(i).z,
                     !.minRange = IF f.hasRangeStats THEN Smaller(@, Item(i).z) ELSE Item(i).z,
                     !.maxRange = IF f.hasRangeStats THEN Larger(@, Item(i).z) ELSE Item(i).z]
      ELSE [f EXCEPT !.nullCount = @ + 1]

\* The frame with the next intensity or byte, if there is one.
WithIntensity(f) ==
    IF message.hasIntensities /\ i < message.intensityWidth
      THEN [f EXCEPT !.minIntensity = Smaller(@, message.intensities[i]),
                     !.maxIntensity = Larger(@, message.intensities[i])]
      ELSE f

\* uniformProfileFrame() and pointCloudProfileFrame().
Point ==
    /\ class \in {"GoGdpProfileUniform", "GoGdpProfilePointCloud"}
    /\ i < message.width
    /\ frame' = WithIntensity(Counted(frame))
    /\ i' = i + 1
    /\ UNCHANGED <<message, class>>

\* imageFrame().
Pixel ==
    /\ class = "GoGdpImage"
    /\ message.hasIntensities /\ i < message.intensityWidth
    /\ frame' = WithIntensity(frame)
    /\ i' = i + 1
    /\ UNCHANGED <<message, class>>

Next == Read \/ Point \/ Pixel

Spec == Init /\ [][Next]_vars
=============================================================================
