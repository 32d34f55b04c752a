----------------------- MODULE DataSetFramesProperties -----------------------
(***************************************************************************)
(* What the frames that frameFromDataSet() makes say of their messages.    *)
(***************************************************************************)
EXTENDS DataSetFrames, FiniteSets

Classes == {"none"} \cup {ClassOf(type) : type \in MessageTypes}

Frames ==
    [validCount : Nat, nullCount : Nat, valid : SUBSET Nat,
     hasRangeStats : BOOLEAN, minRange : Ranges \cup {0}, maxRange : Ranges \cup {0},
     firstRange : Ranges \cup {0},
     hasIntensityStats : BOOLEAN, minIntensity : Intensities \cup {0},
     maxIntensity : Intensities \cup {0}]

\* Type correctness: no statistic is ever k16S_NULL.
TypeOK ==
    /\ message \in Messages
    /\ class \in Classes
    /\ i \in Nat
    /\ frame \in Frames

\* The points done that the sensor has measured, and the intensities that were seen.
Measured ==
    {k \in Below(i) :
        /\ message.hasRanges /\ message.ranges[k].z # Null
        /\ message.type = "PROFILE_POINT_CLOUD" => message.ranges[k].x # Null}

Height(k) == message.ranges[k].z

Seen ==
    {k \in Below(i) \cup {0} : message.hasIntensities /\ k < message.intensityWidth}

Profile == class # "none" /\ message.type \in {"UNIFORM_PROFILE", "PROFILE_POINT_CLOUD"}

Image == class # "none" /\ message.type = "IMAGE"

\* The counts of a profile are those of its measured points and of the others, on
\* which grabUntilValidProfile() decides (GocatorAcquisition.cpp:209-218).
CountsAreExact ==
    Profile =>
        /\ frame.valid = Measured
        /\ frame.validCount = Cardinality(Measured)
        /\ frame.validCount + frame.nullCount = i

\* Smallest, largest and first range are those of the measured points, and are there
\* exactly when one is (GocatorAcquisition.cpp:361-372).
RangesAreExact ==
    Profile =>
        /\ frame.hasRangeStats <=> Measured # {}
        /\ frame.hasRangeStats =>
             /\ \A k \in Measured : frame.minRange <= Height(k) /\ Height(k) <= frame.maxRange
             /\ \E k \in Measured : Height(k) = frame.minRange
             /\ \E k \in Measured : Height(k) = frame.maxRange
             /\ \E k \in Measured :
                   Height(k) = frame.firstRange /\ \A l \in Measured : k <= l

\* Smallest and largest intensity are those of the points and of the first one,
\* however the two widths differ (GocatorAcquisition.cpp:340-347, 382-392).
IntensitiesAreExact ==
    Profile \/ Image =>
        /\ frame.hasIntensityStats <=> Seen # {}
        /\ frame.hasIntensityStats =>
             /\ \A k \in Seen : /\ frame.minIntensity <= message.intensities[k]
                                /\ message.intensities[k] <= frame.maxIntensity
             /\ \E k \in Seen : message.intensities[k] = frame.minIntensity
             /\ \E k \in Seen : message.intensities[k] = frame.maxIntensity

\* The statistics of every frame that is made of an image or a profile.
StatisticsAreExact == CountsAreExact /\ RangesAreExact /\ IntensitiesAreExact
=============================================================================
