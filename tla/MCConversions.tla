---------------------------- MODULE MCConversions ----------------------------
(***************************************************************************)
(* The two readers of a data set for TLC: DataSetFrames, of the calls that *)
(* wait for a frame, and GraphicsFrames, of the plugin's stream.  A        *)
(* behaviour is one of either.                                             *)
(***************************************************************************)
EXTENDS DataSetFramesProperties, GraphicsFramesProperties

VARIABLE reader

MCRanges == {-2, 3}

MCNull == -32768

Packet(type, id, width, length, rows, columns, measured) ==
    [type |-> type, id |-> id, width |-> width, length |-> length, hasRanges |-> TRUE,
     rows |-> rows, columns |-> columns, measured |-> measured]

\* Stamps, profiles whose array is longer or shorter than their width, surfaces
\* whose array has more or fewer rows or columns, sizes of zero and beyond
\* IntMax, and a message without ranges.
MCPackets ==
    {Packet("STAMP", id, 0, 0, 0, 0, {}) : id \in {5, 6}} \cup
    {Packet("UNIFORM_PROFILE", 1, 2, 0, 1, 3, s) : s \in {{0, 1}, {1}, {}}} \cup
    {Packet("PROFILE_POINT_CLOUD", 2, 2, 0, 1, 1, {0}),
     Packet("UNIFORM_PROFILE", 1, 5, 0, 1, 5, {0, 1}),
     Packet("UNIFORM_SURFACE", 3, 2, 0, 2, 2, {0}),
     Packet("UNIFORM_SURFACE", 3, 2, 2, 1, 3, {0, 1}),
     Packet("SURFACE_POINT_CLOUD", 4, 2, 2, 2, 2, {0, 3}),
     Packet("SURFACE_POINT_CLOUD", 4, 2, 2, 3, 2, 0 .. 5),
     [Packet("UNIFORM_SURFACE", 3, 1, 1, 1, 1, {}) EXCEPT !.hasRanges = FALSE]}

AnyMessage == CHOOSE m \in Messages : TRUE

MCInit ==
    \/ reader = "frames" /\ Init /\ dataSet = <<>> /\ GraphicsInit
    \/ reader = "graphics" /\ message = AnyMessage /\ Init /\ GraphicsInit

MCNext ==
    \/ reader = "frames" /\ Next /\ UNCHANGED graphicsVars /\ UNCHANGED reader
    \/ reader = "graphics" /\ GraphicsNext /\ UNCHANGED vars /\ UNCHANGED reader

MCSpec == MCInit /\ [][MCNext]_<<vars, graphicsVars, reader>>
=============================================================================
