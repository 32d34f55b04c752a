------------------------- MODULE DataSetFramesProofs -------------------------
(***************************************************************************)
(* Proofs that the statistics of a frame are exact for every message.      *)
(***************************************************************************)
EXTENDS DataSetFramesProperties, FiniteSetTheorems, TLAPS

\* How far the conversion is.
DoneInv ==
    /\ class = "none" => i = 0 /\ frame = EmptyFrame
    /\ class # "none" =>
         IF class = ClassOf(message.type) THEN class = ReadAs(message.type)
         ELSE message.type = "UNIFORM_SURFACE" /\ class = "GoGdpImage"
    /\ Profile => i <= message.width

IInv == TypeOK /\ DoneInv /\ CountsAreExact /\ RangesAreExact /\ IntensitiesAreExact

-----------------------------------------------------------------------------
LEMMA MessagesAre ==
    ASSUME NEW m \in Messages
    PROVE  /\ m.type \in MessageTypes
           /\ m.width \in Nat /\ m.intensityWidth \in Nat
           /\ m.hasRanges \in BOOLEAN /\ m.hasIntensities \in BOOLEAN
           /\ m.ranges \in [Below(m.width) -> Items]
           /\ m.intensities \in [Below(m.intensityWidth) -> Intensities]
    <1> DEFINE R(w, n) ==
           [type : Types, width : {w}, intensityWidth : {n},
            hasRanges : BOOLEAN, ranges : [Below(w) -> Items],
            hasIntensities : BOOLEAN, intensities : [Below(n) -> Intensities]]
    <1>1. m \in UNION {R(w, n) : w \in Widths, n \in Widths}
      BY DEF Messages
    <1> HIDE DEF R
    <1>2. PICK w \in Widths, n \in Widths : m \in R(w, n)
      BY <1>1
    <1> QED
      BY <1>2, FramesAssumption DEF R

LEMMA MessageIs ==
    ASSUME TypeOK
    PROVE  /\ message.type \in MessageTypes
           /\ message.width \in Nat /\ message.intensityWidth \in Nat
           /\ message.hasRanges \in BOOLEAN /\ message.hasIntensities \in BOOLEAN
           /\ message.ranges \in [Below(message.width) -> Items]
           /\ message.intensities \in [Below(message.intensityWidth) -> Intensities]
    BY MessagesAre DEF TypeOK

\* A message of a profile is read as one of its own kind.
LEMMA ClassIs ==
    ASSUME TypeOK, DoneInv
    PROVE  /\ Profile => /\ class \in {"GoGdpProfileUniform", "GoGdpProfilePointCloud"}
                         /\ class = "GoGdpProfilePointCloud" <=> message.type = "PROFILE_POINT_CLOUD"
           /\ class \in {"GoGdpProfileUniform", "GoGdpProfilePointCloud"} => Profile
           /\ Image => class = "GoGdpImage"
    BY MessageIs DEF DoneInv, ClassOf, ReadAs, Profile, Image, MessageTypes

\* A point is valid when it is measured, and has its height then.
LEMMA ItemIs ==
    ASSUME TypeOK, DoneInv, Profile, NEW k \in Below(message.width)
    PROVE  /\ Valid(k) <=> /\ message.hasRanges /\ Height(k) # Null
                           /\ message.type = "PROFILE_POINT_CLOUD" => message.ranges[k].x # Null
           /\ Valid(k) => Item(k).z = Height(k) /\ Height(k) \in Ranges
    <1>1. message.ranges[k] \in Items
      BY MessageIs
    <1>2. class = "GoGdpProfilePointCloud" <=> message.type = "PROFILE_POINT_CLOUD"
      BY ClassIs
    <1> QED
      BY <1>1, <1>2, MessageIs DEF Valid, Item, Height, Items

\* An intensity is one that was sent.
LEMMA IntensityIs ==
    ASSUME TypeOK, NEW k \in Nat, k < message.intensityWidth
    PROVE  message.intensities[k] \in Intensities /\ message.intensities[k] \in Nat
    <1>1. k \in Below(message.intensityWidth)
      BY MessageIs DEF Below
    <1> QED
      BY <1>1, MessageIs, FramesAssumption

-----------------------------------------------------------------------------
(* What one more point or byte makes of a frame.                           *)

LEMMA CountedIs ==
    ASSUME TypeOK, DoneInv, Profile, i < message.width
    PROVE  LET f == Counted(frame) IN
           /\ f \in Frames
           /\ f.valid = IF Valid(i) THEN frame.valid \cup {i} ELSE frame.valid
           /\ f.validCount = IF Valid(i) THEN frame.validCount + 1 ELSE frame.validCount
           /\ f.nullCount = IF Valid(i) THEN frame.nullCount ELSE frame.nullCount + 1
           /\ f.hasRangeStats = (frame.hasRangeStats \/ Valid(i))
           /\ f.firstRange = IF Valid(i) /\ ~frame.hasRangeStats THEN Height(i) ELSE frame.firstRange
           /\ f.minRange = IF Valid(i)
                             THEN IF frame.hasRangeStats THEN Smaller(frame.minRange, Height(i))
                                  ELSE Height(i)
                             ELSE frame.minRange
           /\ f.maxRange = IF Valid(i)
                             THEN IF frame.hasRangeStats THEN Larger(frame.maxRange, Height(i))
                                  ELSE Height(i)
                             ELSE frame.maxRange
           /\ f.hasIntensityStats = frame.hasIntensityStats
           /\ f.minIntensity = frame.minIntensity /\ f.maxIntensity = frame.maxIntensity
    <1> DEFINE h == Height(i)
               p == frame.hasRangeStats
               first == IF p THEN frame.firstRange ELSE h
               min == IF p THEN Smaller(frame.minRange, h) ELSE h
               max == IF p THEN Larger(frame.maxRange, h) ELSE h
    <1>1. i \in Below(message.width) /\ i \in Nat /\ frame \in Frames
      BY MessageIs DEF TypeOK, Below
    <1>2. CASE Valid(i)
      <2>1. Item(i).z = h /\ h \in Ranges
        BY <1>1, <1>2, ItemIs
      <2>2. /\ first \in Ranges \cup {0} /\ min \in Ranges \cup {0} /\ max \in Ranges \cup {0}
        BY <1>1, <2>1 DEF Frames, Smaller, Larger
      <2>3. Counted(frame) =
              [frame EXCEPT !.validCount = @ + 1, !.valid = @ \cup {i}, !.hasRangeStats = TRUE,
                            !.firstRange = first, !.minRange = min, !.maxRange = max]
        BY <1>2, <2>1 DEF Counted
      <2> HIDE DEF first, min, max
      <2>4. Counted(frame) \in Frames
        <3> DEFINE n == frame.validCount + 1
                   done == frame.valid \cup {i}
        <3>1. n \in Nat /\ done \in SUBSET Nat
          BY <1>1 DEF Frames
        <3>2. Counted(frame) =
                [frame EXCEPT !.validCount = n, !.valid = done, !.hasRangeStats = TRUE,
                              !.firstRange = first, !.minRange = min, !.maxRange = max]
          BY <2>3
        <3> HIDE DEF n, done
        <3> QED
          BY <1>1, <2>2, <3>1, <3>2, ZenonT(60) DEF Frames
      <2>5. LET f == Counted(frame) IN
            /\ f.valid = frame.valid \cup {i} /\ f.validCount = frame.validCount + 1
            /\ f.nullCount = frame.nullCount /\ f.hasRangeStats = TRUE
            /\ f.firstRange = first /\ f.minRange = min /\ f.maxRange = max
            /\ f.hasIntensityStats = frame.hasIntensityStats
            /\ f.minIntensity = frame.minIntensity /\ f.maxIntensity = frame.maxIntensity
        BY <1>1, <2>3 DEF Frames
      <2>6. frame.hasRangeStats \in BOOLEAN
        BY <1>1 DEF Frames
      <2> HIDE DEF h
      <2> QED
        BY <1>2, <2>4, <2>5, <2>6 DEF first, min, max, h
    <1>3. CASE ~Valid(i)
      <2>1. Counted(frame) = [frame EXCEPT !.nullCount = @ + 1]
        BY <1>3 DEF Counted
      <2> QED
        BY <1>1, <1>3, <2>1 DEF Frames
    <1> QED
      BY <1>2, <1>3

LEMMA WithIntensityIs ==
    ASSUME TypeOK, NEW f \in Frames
    PROVE  LET g == WithIntensity(f)
               more == message.hasIntensities /\ i < message.intensityWidth
           IN
           /\ g \in Frames
           /\ g.minIntensity = IF more THEN Smaller(f.minIntensity, message.intensities[i])
                               ELSE f.minIntensity
           /\ g.maxIntensity = IF more THEN Larger(f.maxIntensity, message.intensities[i])
                               ELSE f.maxIntensity
           /\ g.hasIntensityStats = f.hasIntensityStats
           /\ g.hasRangeStats = f.hasRangeStats /\ g.valid = f.valid
           /\ g.validCount = f.validCount /\ g.nullCount = f.nullCount
           /\ g.minRange = f.minRange /\ g.maxRange = f.maxRange /\ g.firstRange = f.firstRange
    <1>1. i < message.intensityWidth => message.intensities[i] \in Intensities
      BY IntensityIs DEF TypeOK
    <1> QED
      BY <1>1, ZenonT(60) DEF WithIntensity, Frames, Smaller, Larger

-----------------------------------------------------------------------------
(* Every step keeps the invariant.                                         *)

\* An intensity or a byte, of a frame whose other statistics may have changed.
LEMMA IntensityStep ==
    ASSUME TypeOK, IntensitiesAreExact, Profile \/ Image,
           NEW f \in Frames, f.hasIntensityStats = frame.hasIntensityStats,
           f.minIntensity = frame.minIntensity, f.maxIntensity = frame.maxIntensity,
           i' = i + 1, message' = message, class' = class, frame' = WithIntensity(f)
    PROVE  IntensitiesAreExact'
    <1> DEFINE v == message.intensities[i]
               more == message.hasIntensities /\ i < message.intensityWidth
    <1>1. i \in Nat /\ message.intensityWidth \in Nat /\ message.hasIntensities \in BOOLEAN
      BY MessageIs DEF TypeOK
    <1>2. Seen' = IF more THEN Seen \cup {i} ELSE Seen
      <2>1. Below(i') = Below(i) \cup {i}
        BY <1>1 DEF Below
      <2> QED
        BY <1>1, <2>1 DEF Seen
    <1>3. \A k \in Seen : k \in Nat /\ message.intensities[k] \in Nat
      BY <1>1, IntensityIs DEF Seen, Below
    <1>4. /\ frame'.hasIntensityStats = frame.hasIntensityStats
          /\ frame'.minIntensity = IF more THEN Smaller(frame.minIntensity, v) ELSE frame.minIntensity
          /\ frame'.maxIntensity = IF more THEN Larger(frame.maxIntensity, v) ELSE frame.maxIntensity
      BY WithIntensityIs
    <1>5. frame.minIntensity \in Nat /\ frame.maxIntensity \in Nat
      <2>1. /\ frame.minIntensity \in Intensities \cup {0}
            /\ frame.maxIntensity \in Intensities \cup {0}
        BY DEF TypeOK, Frames
      <2>2. Intensities \cup {0} \subseteq Nat
        BY FramesAssumption
      <2> QED
        BY <2>1, <2>2
    <1>6. more => v \in Nat /\ 0 \in Seen
      <2>1. more => 0 < message.intensityWidth /\ v \in Nat
        BY <1>1, IntensityIs
      <2> QED
        BY <2>1 DEF Seen
    <1>9. (Profile \/ Image)' <=> Profile \/ Image
      BY DEF Profile, Image
    <1> HIDE DEF v, more
    <1>7. CASE more
      <2>1. frame.hasIntensityStats
        BY <1>6, <1>7 DEF IntensitiesAreExact
      <2>2. \A k \in Seen' : frame'.minIntensity <= message.intensities[k]
                                /\ message.intensities[k] <= frame'.maxIntensity
        BY <1>2, <1>3, <1>4, <1>5, <1>6, <1>7, <2>1 DEF IntensitiesAreExact, v, Smaller, Larger
      <2>3. /\ \E k \in Seen' : message.intensities[k] = frame'.minIntensity
            /\ \E k \in Seen' : message.intensities[k] = frame'.maxIntensity
        BY <1>2, <1>4, <1>7, <2>1 DEF IntensitiesAreExact, v, Smaller, Larger
      <2> QED
        BY <1>2, <1>4, <1>6, <1>7, <2>1, <2>2, <2>3 DEF IntensitiesAreExact
    <1>8. CASE ~more
      BY <1>2, <1>4, <1>8 DEF IntensitiesAreExact
    <1> QED
      BY <1>7, <1>8

\* A point of a profile.
LEMMA PointStep ==
    ASSUME IInv, Point
    PROVE  IInv'
    <1> DEFINE f == Counted(frame)
    <1>1. TypeOK /\ DoneInv /\ Profile /\ i \in Nat /\ i < message.width /\ message.width \in Nat
      BY MessageIs, ClassIs DEF IInv, TypeOK, Point
    <1>2. i' = i + 1 /\ message' = message /\ class' = class /\ frame' = WithIntensity(f)
      BY DEF Point
    <1>3. f \in Frames
      BY <1>1, CountedIs
    <1>4. /\ frame' \in Frames
          /\ frame'.valid = f.valid /\ frame'.validCount = f.validCount
          /\ frame'.nullCount = f.nullCount /\ frame'.hasRangeStats = f.hasRangeStats
          /\ frame'.minRange = f.minRange /\ frame'.maxRange = f.maxRange
          /\ frame'.firstRange = f.firstRange
      BY <1>1, <1>2, <1>3, WithIntensityIs
    <1> HIDE DEF f
    <1>5. TypeOK' /\ DoneInv'
      BY <1>1, <1>2, <1>4 DEF TypeOK, DoneInv, Profile, Messages, Classes, Frames
    <1>6. \A k : Height(k)' = Height(k)
      BY <1>2 DEF Height
    <1>7. Measured' = IF Valid(i) THEN Measured \cup {i} ELSE Measured
      <2>1. Below(i') = Below(i) \cup {i}
        BY <1>1, <1>2 DEF Below
      <2> QED
        BY <1>2, <2>1, ItemIs, <1>1 DEF Measured, Height, Below
    <1>8. Measured \subseteq Below(i) /\ i \notin Measured
      BY <1>1 DEF Measured, Below
    <1>9. CountsAreExact'
      <2>1. IsFiniteSet(Measured)
        <3>1. IsFiniteSet(Below(i))
          BY <1>1, FS_Interval DEF Below
        <3> QED
          BY <1>8, <3>1, FS_Subset
      <2>2. Cardinality(Measured \cup {i}) = Cardinality(Measured) + 1
        BY <1>8, <2>1, FS_AddElement
      <2>3. CountsAreExact
        BY DEF IInv
      <2>4. frame.validCount \in Nat /\ frame.nullCount \in Nat
        BY <1>1 DEF TypeOK, Frames
      <2>5. frame'.validCount + frame'.nullCount = i'
        BY <1>1, <1>2, <1>4, <2>3, <2>4, CountedIs DEF CountsAreExact, f
      <2>6. frame'.valid = Measured' /\ frame'.validCount = Cardinality(Measured')
        BY <1>1, <1>4, <1>7, <2>2, <2>3, CountedIs DEF CountsAreExact, f
      <2> QED
        BY <2>5, <2>6 DEF CountsAreExact
    <1>10. RangesAreExact'
      <2> DEFINE z == Height(i)
      <2>1. RangesAreExact
        BY DEF IInv
      <2>2. /\ frame.minRange \in Int /\ frame.maxRange \in Int
            /\ frame.hasRangeStats \in BOOLEAN
        <3>1. /\ frame.minRange \in Ranges \cup {0} /\ frame.maxRange \in Ranges \cup {0}
              /\ frame.hasRangeStats \in BOOLEAN
          BY <1>1 DEF TypeOK, Frames
        <3>2. Ranges \cup {0} \subseteq Int
          BY FramesAssumption
        <3> QED
          BY <3>1, <3>2
      <2>3. CASE Valid(i)
        <3>1. z \in Int
          <4>1. i \in Below(message.width)
            BY <1>1 DEF Below
          <4> QED
            BY <1>1, <2>3, <4>1, ItemIs, FramesAssumption
        <3>2. \A k \in Measured : Height(k) \in Int /\ k \in Nat /\ k < i
          <4>1. \A k \in Measured : k \in Below(message.width) /\ k \in Nat /\ k < i
            BY <1>1 DEF Measured, Below
          <4>2. \A k \in Measured : Valid(k)
            BY <1>1, <4>1, ItemIs DEF Measured, Height
          <4>3. Ranges \subseteq Int
            BY FramesAssumption
          <4> QED
            BY <1>1, <4>1, <4>2, <4>3, ItemIs
        <3>3. /\ frame'.hasRangeStats
              /\ frame'.minRange = IF frame.hasRangeStats THEN Smaller(frame.minRange, z) ELSE z
              /\ frame'.maxRange = IF frame.hasRangeStats THEN Larger(frame.maxRange, z) ELSE z
              /\ frame'.firstRange = IF frame.hasRangeStats THEN frame.firstRange ELSE z
          BY <1>1, <1>4, <2>3, CountedIs DEF f
        <3>4. Measured' = Measured \cup {i} /\ \A k : Height(k)' = Height(k)
          BY <1>6, <1>7, <2>3
        <3> HIDE DEF z
        <3>5. CASE frame.hasRangeStats
          <4>1. /\ \A k \in Measured :
                     frame.minRange <= Height(k) /\ Height(k) <= frame.maxRange
                /\ \E k \in Measured : Height(k) = frame.minRange
                /\ \E k \in Measured : Height(k) = frame.maxRange
                /\ \E k \in Measured :
                      Height(k) = frame.firstRange /\ \A l \in Measured : k <= l
            BY <1>1, <2>1, <3>5 DEF RangesAreExact
          <4>2. \A k \in Measured' :
                   frame'.minRange <= Height(k)' /\ Height(k)' <= frame'.maxRange
            BY <2>2, <3>1, <3>2, <3>3, <3>4, <3>5, <4>1 DEF z, Smaller, Larger
          <4>3. /\ \E k \in Measured' : Height(k)' = frame'.minRange
                /\ \E k \in Measured' : Height(k)' = frame'.maxRange
            BY <3>3, <3>4, <3>5, <4>1 DEF z, Smaller, Larger
          <4>4. \E k \in Measured' :
                   Height(k)' = frame'.firstRange /\ \A l \in Measured' : k <= l
            BY <1>1, <3>2, <3>3, <3>4, <3>5, <4>1
          <4> QED
            BY <3>3, <3>4, <4>2, <4>3, <4>4 DEF RangesAreExact
        <3>6. CASE ~frame.hasRangeStats
          <4>1. Measured = {}
            BY <1>1, <2>1, <3>6 DEF RangesAreExact
          <4> QED
            BY <1>1, <3>1, <3>3, <3>4, <3>6, <4>1 DEF RangesAreExact, z
        <3> QED
          BY <3>5, <3>6
      <2>4. CASE ~Valid(i)
        <3>1. /\ frame'.hasRangeStats = frame.hasRangeStats /\ Measured' = Measured
              /\ frame'.minRange = frame.minRange /\ frame'.maxRange = frame.maxRange
              /\ frame'.firstRange = frame.firstRange
          BY <1>1, <1>4, <1>7, <2>2, <2>4, CountedIs DEF f
        <3> QED
          BY <1>1, <1>6, <2>1, <3>1 DEF RangesAreExact
      <2> QED
        BY <2>3, <2>4
    <1>11. IntensitiesAreExact'
      BY <1>1, <1>2, <1>3, IntensityStep, CountedIs DEF f, IInv, TypeOK
    <1> QED
      BY <1>5, <1>9, <1>10, <1>11 DEF IInv

\* A byte of an image.
LEMMA PixelStep ==
    ASSUME IInv, Pixel
    PROVE  IInv'
    <1>1. TypeOK /\ DoneInv /\ i \in Nat /\ class = "GoGdpImage" /\ frame \in Frames
      BY DEF IInv, TypeOK, Pixel
    <1>2. i' = i + 1 /\ message' = message /\ class' = class /\ frame' = WithIntensity(frame)
      BY DEF Pixel
    <1>3. frame' \in Frames
      BY <1>1, <1>2, WithIntensityIs
    <1>4. ~Profile /\ ~Profile'
      BY <1>1, <1>2, ClassIs DEF Profile
    <1>5. TypeOK' /\ DoneInv'
      BY <1>1, <1>2, <1>3, <1>4 DEF TypeOK, DoneInv, Messages, Classes, Frames
    <1>6. CountsAreExact' /\ RangesAreExact'
      BY <1>4 DEF CountsAreExact, RangesAreExact
    <1>7. IntensitiesAreExact'
      <2>1. CASE Image
        BY <1>1, <1>2, <2>1, IntensityStep DEF IInv
      <2>2. CASE ~Image
        BY <1>2, <1>4, <2>2 DEF IntensitiesAreExact, Image
      <2> QED
        BY <2>1, <2>2
    <1> QED
      BY <1>5, <1>6, <1>7 DEF IInv

\* The reading of the message.
LEMMA ReadStep ==
    ASSUME IInv, Read
    PROVE  IInv'
    <1> DEFINE seen == message'.hasIntensities /\ message'.intensityWidth > 0
               first == message'.intensities[0]
    <1>1. TypeOK /\ i = 0 /\ i' = 0
      BY DEF IInv, DoneInv, Read
    <1>2. message' \in Messages /\ message'.type = message.type
      BY <1>1 DEF TypeOK, Read
    <1>3. class' = ReadAs(message'.type) /\ message'.type \in MessageTypes
      BY <1>1, <1>2, MessageIs DEF Read
    <1>4. /\ message'.intensityWidth \in Nat /\ message'.width \in Nat
          /\ message'.hasIntensities \in BOOLEAN
      BY <1>2, MessagesAre
    <1>5. seen => first \in Intensities /\ first \in Nat
      <2>1. seen => 0 \in Below(message'.intensityWidth)
        BY <1>4 DEF Below
      <2> QED
        BY <1>2, <2>1, MessagesAre, FramesAssumption
    <1>6. EmptyFrame \in Frames
      BY DEF EmptyFrame, Frames
    <1>7. /\ (Profile \/ Image)' => frame' = Start'
          /\ frame' = EmptyFrame \/ frame' = Start'
      BY <1>3 DEF Read, ReadAs, Profile, Image, MessageTypes
    <1>8. Start' = IF seen THEN [EmptyFrame EXCEPT !.hasIntensityStats = TRUE,
                                                   !.minIntensity = first,
                                                   !.maxIntensity = first]
                   ELSE EmptyFrame
      BY <1>4 DEF Start
    <1> HIDE DEF first, seen
    <1>9. Start' \in Frames
      BY <1>5, <1>6, <1>8 DEF Frames
    <1>10. /\ Start'.valid = {} /\ Start'.validCount = 0 /\ Start'.nullCount = 0
           /\ Start'.hasRangeStats = FALSE /\ Start'.hasIntensityStats = seen
           /\ seen => Start'.minIntensity = first /\ Start'.maxIntensity = first
      BY <1>8 DEF EmptyFrame, seen
    <1>11. TypeOK'
      BY <1>1, <1>2, <1>3, <1>6, <1>7, <1>9 DEF TypeOK, Classes, ReadAs, ClassOf, MessageTypes
    <1>12. DoneInv'
      BY <1>1, <1>3, <1>4 DEF DoneInv, ReadAs, ClassOf, MessageTypes
    <1>13. Measured' = {} /\ Seen' = IF seen THEN {0} ELSE {}
      BY <1>1, <1>4 DEF Measured, Seen, Below, seen
    <1>14. CountsAreExact' /\ RangesAreExact'
      BY <1>1, <1>7, <1>10, <1>13, FS_EmptySet DEF CountsAreExact, RangesAreExact
    <1>15. IntensitiesAreExact'
      BY <1>5, <1>7, <1>10, <1>13 DEF IntensitiesAreExact, first
    <1> QED
      BY <1>11, <1>12, <1>14, <1>15 DEF IInv

-----------------------------------------------------------------------------
(* The invariant holds in every state.                                     *)

LEMMA Invariance == Spec => []IInv
    <1>1. Init => IInv
      <2> SUFFICES ASSUME Init PROVE IInv
        OBVIOUS
      <2>1. EmptyFrame \in Frames
        BY DEF EmptyFrame, Frames
      <2> QED
        BY <2>1 DEF Init, IInv, TypeOK, DoneInv, Classes, CountsAreExact, RangesAreExact,
                    IntensitiesAreExact, Profile, Image
    <1>2. IInv /\ [Next]_vars => IInv'
      <2> SUFFICES ASSUME IInv, [Next]_vars PROVE IInv'
        OBVIOUS
      <2>1. CASE Read
        BY <2>1, ReadStep
      <2>2. CASE Point
        BY <2>2, PointStep
      <2>3. CASE Pixel
        BY <2>3, PixelStep
      <2>4. CASE UNCHANGED vars
        BY <2>4 DEF vars, IInv, TypeOK, Messages, Classes, Frames, DoneInv, CountsAreExact,
                    RangesAreExact, IntensitiesAreExact, Profile, Image, Measured, Height, Seen
      <2> QED
        BY <2>1, <2>2, <2>3, <2>4 DEF Next
    <1> QED
      BY <1>1, <1>2, PTL DEF Spec

\* Every variable keeps its type, and no statistic is ever k16S_NULL
\* (GocatorAcquisition.cpp:359, 435).
THEOREM TypeCorrect == Spec => []TypeOK
    BY Invariance, PTL DEF IInv

\* For every message of a profile the counts are those of the points that the
\* sensor has measured and of the others, and smallest, largest and first range
\* those of the measured points; for every image and every profile smallest and
\* largest intensity are those that were seen, however the widths differ
\* (GocatorAcquisition.cpp:340-392, 435-470).
THEOREM ExactStatistics == Spec => []StatisticsAreExact
    BY Invariance, PTL DEF IInv, StatisticsAreExact
=============================================================================
