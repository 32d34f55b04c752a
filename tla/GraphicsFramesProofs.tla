------------------------- MODULE GraphicsFramesProofs -------------------------
(***************************************************************************)
(* GraphicsFrames for data sets and messages of every size and any number  *)
(* of threads: type correctness, and an inductive invariant that implies   *)
(* the properties of GraphicsFramesProperties.                             *)
(***************************************************************************)
EXTENDS GraphicsFramesProperties, FiniteSetTheorems, SequenceTheorems, TLAPS

\* The stamp is that of the first stamp message.
StampInv ==
    phase # "stamp" =>
        \/ stamp = <<>> /\ Stamps = {}
        \/ \E k \in Stamps : stamp = <<dataSet[k].id>> /\ \A l \in Stamps : k <= l

\* The messages before the current one cannot be shown.
PassedInv ==
    /\ \A k \in 1 .. Len(dataSet) : k < at => k \in refused \/ ~Convertible(dataSet[k])
    /\ refused \subseteq 1 .. at - 1

\* The parallel loop: a cell is to do, or with one thread, or done.
LoopInv ==
    /\ phase # "cells" => \A t \in OmpThreads : taken[t] = NoCell
    /\ phase = "cells" =>
         /\ at \in 1 .. Len(dataSet) /\ Convertible(dataSet[at])
         /\ todo \subseteq Cells(dataSet[at])
         /\ \A t \in OmpThreads : taken[t] # NoCell =>
              taken[t] \in Cells(dataSet[at]) \ todo /\ t \notin reduced
         /\ \A t, u \in OmpThreads : t # u /\ taken[t] # NoCell => taken[t] # taken[u]
         /\ reduced = OmpThreads => todo = {}

\* The cells that some thread has counted and added to the sum.
Summed == UNION {counted[t] : t \in reduced}

\* A byte of the mask is cleared with its cell, and no cell is counted twice.
MaskInv ==
    phase = "cells" =>
        /\ \A k \in Cells(dataSet[at]) :
             k \in validMask <=> \/ k \in dataSet[at].measured \/ k \in todo
                                 \/ \E t \in OmpThreads : taken[t] = k
        /\ \A t \in OmpThreads :
             /\ counted[t] \subseteq Cells(dataSet[at]) \cap dataSet[at].measured
             /\ counted[t] \cap todo = {}
             /\ \A u \in OmpThreads : taken[u] \notin counted[t]
        /\ \A t, u \in OmpThreads : t # u => counted[t] \cap counted[u] = {}
        /\ validPointCount = Cardinality(Summed)

ResultInv ==
    /\ phase # "done" => shown = NoFrame
    /\ phase = "done" =>
         \/ shown = NoFrame /\ at > Len(dataSet)
         \/ /\ shown.packet = at /\ at \in 1 .. Len(dataSet) /\ Convertible(dataSet[at])
            /\ shown.id = FrameId
            /\ \A k \in Cells(dataSet[at]) : k \in shown.mask <=> k \in dataSet[at].measured

GInv ==
    /\ GraphicsTypeOK
    /\ StampInv
    /\ PassedInv
    /\ LoopInv
    /\ MaskInv
    /\ ResultInv

-----------------------------------------------------------------------------
(* Messages and cells. *)

\* A message of a data set is one that the sensor sends.
LEMMA PacketFacts ==
    ASSUME dataSet \in Seq(Packets), NEW k \in 1 .. Len(dataSet)
    PROVE  IsPacket(dataSet[k])
  BY GraphicsAssumption

\* Factors that grow let a product grow.
LEMMA ProductGrows ==
    ASSUME NEW a \in Nat, NEW b \in Nat, NEW c \in Nat, a <= b
    PROVE  a * c <= b * c
  <1>1. b - a \in Nat /\ b = a + (b - a)
    OBVIOUS
  <1>2. b * c = a * c + (b - a) * c
    BY <1>1
  <1>3. (b - a) * c \in Nat /\ a * c \in Nat
    BY <1>1
  <1>4. QED
    BY <1>2, <1>3

\* The number of cells of a message that is converted, of which there is one at least.
LEMMA CellsFacts ==
    ASSUME NEW m, IsPacket(m), Convertible(m)
    PROVE  /\ m.width \in Nat \ {0} /\ Rows(m) \in Nat \ {0}
           /\ m.width * Rows(m) \in Nat
           /\ Cells(m) \subseteq Nat
           /\ IsFiniteSet(Cells(m)) /\ Cardinality(Cells(m)) = m.width * Rows(m)
  <1>1. m.width \in Nat \ {0} /\ Rows(m) \in Nat \ {0}
    BY GraphicsAssumption DEF IsPacket, Convertible, PositiveInt, Rows
  <1>2. m.width * Rows(m) \in Nat
    BY <1>1
  <1>3. QED
    <2> DEFINE n == m.width * Rows(m)
    <2>1. n \in Nat /\ Cells(m) = 0 .. n - 1
      BY <1>2 DEF Cells
    <2> HIDE DEF n
    <2>2. IsFiniteSet(0 .. n - 1) /\ Cardinality(0 .. n - 1) = n
      BY <2>1, FS_Interval
    <2>3. QED
      BY <1>1, <1>2, <2>1, <2>2 DEF n

\* Both lengths of the array bound the number of a cell.
LEMMA CellsInside ==
    ASSUME NEW m, IsPacket(m), Convertible(m), NEW k \in Cells(m)
    PROVE  k < m.rows * m.columns
  <1>1. m.width \in Nat /\ Rows(m) \in Nat /\ m.rows \in Nat /\ m.columns \in Nat
    BY CellsFacts DEF IsPacket
  <1>2. m.width <= m.columns /\ Rows(m) <= m.rows
    BY DEF Convertible, Rows, IsPacket, SurfaceTypes, ProfileTypes
  <1>3. m.width * Rows(m) <= m.columns * Rows(m)
    BY <1>1, <1>2, ProductGrows
  <1>4. Rows(m) * m.columns <= m.rows * m.columns
    BY <1>1, <1>2, ProductGrows
  <1>5. m.columns * Rows(m) = Rows(m) * m.columns
    BY <1>1
  <1>6. k \in Int /\ k < m.width * Rows(m)
    BY <1>1, CellsFacts DEF Cells
  <1>7. /\ m.width * Rows(m) \in Int /\ Rows(m) * m.columns \in Int
        /\ m.rows * m.columns \in Int
    BY <1>1
  <1>8. QED
    BY <1>3, <1>4, <1>5, <1>6, <1>7

\* The cell of a row and a column.
LEMMA CellOf ==
    ASSUME NEW m, IsPacket(m), Convertible(m),
           NEW r \in 0 .. Rows(m) - 1, NEW c \in 0 .. m.width - 1
    PROVE  r * m.width + c \in Cells(m)
  <1>1. m.width \in Nat /\ Rows(m) \in Nat /\ r \in Nat /\ c \in Nat
    BY CellsFacts
  <1>2. (r + 1) * m.width <= Rows(m) * m.width
    BY <1>1, ProductGrows
  <1>3. (r + 1) * m.width = r * m.width + m.width /\ Rows(m) * m.width = m.width * Rows(m)
    BY <1>1
  <1>4. r * m.width \in Nat /\ m.width * Rows(m) \in Nat
    BY <1>1
  <1>5. r * m.width + c <= m.width * Rows(m) - 1 /\ r * m.width + c \in Nat
    BY <1>1, <1>2, <1>3, <1>4
  <1>6. QED
    BY <1>4, <1>5 DEF Cells
-----------------------------------------------------------------------------
(* The parts of the invariant, one lemma each. *)

\* Every step keeps the types.
LEMMA TypeStep == GInv /\ [GraphicsNext]_graphicsVars => GraphicsTypeOK'
  <1> SUFFICES ASSUME GInv, [GraphicsNext]_graphicsVars PROVE GraphicsTypeOK'
    OBVIOUS
  <1>a. GraphicsTypeOK /\ LoopInv /\ MaskInv
    BY DEF GInv
  <1> USE <1>a DEF GraphicsTypeOK, loop
  <1>1. CASE ReadStamp
    <2>1. \A k \in Stamps : dataSet[k].id \in Nat
      BY PacketFacts DEF Stamps, IsPacket
    <2>2. stamp' \in {<<>>} \cup {<<id>> : id \in Nat}
      BY <1>1, <2>1 DEF ReadStamp
    <2>3. QED
      BY <1>1, <2>2 DEF ReadStamp
  <1>2. CASE NextMessage
    <2>1. CASE at > Len(dataSet)
      BY <1>2, <2>1 DEF NextMessage
    <2>2. CASE at <= Len(dataSet) /\ ~Convertible(dataSet[at])
      <3>1. at + 1 \in Nat \ {0}
        OBVIOUS
      <3>2. at' = at + 1 /\ UNCHANGED <<dataSet, stamp, shown, refused, phase, loop>>
        BY <1>2, <2>2 DEF NextMessage
      <3>3. QED
        BY <3>1, <3>2
    <2>3. CASE at <= Len(dataSet) /\ Convertible(dataSet[at])
      <3>1. Cells(dataSet[at]) \subseteq Nat
        BY <2>3, PacketFacts, CellsFacts
      <3>2. QED
        BY <1>2, <2>3, <3>1 DEF NextMessage
    <2>4. QED
      BY <2>1, <2>2, <2>3, SMTT(30)
  <1>3. CASE MakeFrame
    <2>1. UNCHANGED <<dataSet, stamp, loop>> /\ phase' \in {"done", "message"}
      BY <1>3 DEF MakeFrame
    <2>2. at' \in Nat \ {0} /\ refused' \subseteq Nat
      <3>1. /\ at' = at \/ at' = at + 1
            /\ refused' = refused \/ refused' = refused \cup {at}
        BY <1>3 DEF MakeFrame
      <3>2. at + 1 \in Nat \ {0}
        OBVIOUS
      <3>3. QED
        BY <3>1, <3>2
    <2>3. FrameId \in Nat
      <3>1. at \in 1 .. Len(dataSet)
        BY <1>3 DEF MakeFrame, LoopInv
      <3>2. dataSet[at].id \in Nat
        BY <3>1, PacketFacts DEF IsPacket
      <3>3. QED
        BY <3>2 DEF FrameId
    <2>4. Mask \subseteq Nat
      <3>1. at \in 1 .. Len(dataSet) /\ Convertible(dataSet[at])
        BY <1>3 DEF MakeFrame, LoopInv
      <3>2. Cells(dataSet[at]) \subseteq Nat
        BY <3>1, PacketFacts, CellsFacts
      <3>3. QED
        BY <3>2 DEF Mask
    <2>5. shown' \in [packet : Nat, id : Nat, mask : SUBSET Nat]
      <3>1. shown' = shown \/ shown' = [packet |-> at, id |-> FrameId, mask |-> Mask]
        BY <1>3 DEF MakeFrame
      <3>2. [packet |-> at, id |-> FrameId, mask |-> Mask] \in [packet : Nat, id : Nat, mask : SUBSET Nat]
        BY <2>3, <2>4
      <3>3. QED
        BY <3>1, <3>2
    <2>6. QED
      BY <2>1, <2>2, <2>5
  <1>4. ASSUME NEW t \in OmpThreads, TakeCell(t) PROVE GraphicsTypeOK'
    BY <1>4 DEF TakeCell
  <1>5. ASSUME NEW t \in OmpThreads, PutCell(t) PROVE GraphicsTypeOK'
    <2>1. taken[t] \in Nat /\ taken' \in [OmpThreads -> Nat \cup {NoCell}]
      BY <1>5 DEF PutCell
    <2>2. counted' \in [OmpThreads -> SUBSET Nat]
      BY <1>5, <2>1 DEF PutCell
    <2>3. validMask' \subseteq Nat
      BY <1>5 DEF PutCell
    <2>4. QED
      BY <1>5, <2>1, <2>2, <2>3 DEF PutCell
  <1>6. ASSUME NEW t \in OmpThreads, Reduce(t) PROVE GraphicsTypeOK'
    <2>1. Cardinality(counted[t]) \in Nat
      <3>1. /\ at \in 1 .. Len(dataSet) /\ Convertible(dataSet[at])
            /\ counted[t] \subseteq Cells(dataSet[at])
        BY <1>6 DEF Reduce, LoopInv, MaskInv
      <3>2. IsFiniteSet(counted[t])
        BY <3>1, PacketFacts, CellsFacts, FS_Subset
      <3>3. QED
        BY <3>2, FS_CardinalityType
    <2>2. validPointCount' \in Nat
      BY <1>6, <2>1 DEF Reduce
    <2>3. QED
      BY <1>6, <2>2 DEF Reduce
  <1>7. CASE UNCHANGED graphicsVars
    BY <1>7 DEF graphicsVars
  <1>8. QED
    BY <1>1, <1>2, <1>3, <1>4, <1>5, <1>6, <1>7 DEF GraphicsNext

\* readStamp() finds the first stamp, and nothing changes it later.
LEMMA StampStep == GInv /\ [GraphicsNext]_graphicsVars => StampInv'
  <1> SUFFICES ASSUME GInv, [GraphicsNext]_graphicsVars PROVE StampInv'
    OBVIOUS
  <1> USE DEF GInv, StampInv, Stamps
  <1>1. CASE ReadStamp
    BY <1>1 DEF ReadStamp
  <1>2. CASE UNCHANGED <<dataSet, stamp>> /\ (phase' = "stamp" => phase = "stamp") /\ phase # "stamp"
    BY <1>2
  <1>3. CASE NextMessage \/ MakeFrame
    BY <1>2, <1>3 DEF NextMessage, MakeFrame
  <1>4. ASSUME NEW t \in OmpThreads, TakeCell(t) \/ PutCell(t) \/ Reduce(t) PROVE StampInv'
    BY <1>2, <1>4 DEF TakeCell, PutCell, Reduce
  <1>5. CASE UNCHANGED graphicsVars
    BY <1>5 DEF graphicsVars
  <1>6. QED
    BY <1>1, <1>3, <1>4, <1>5 DEF GraphicsNext

\* A message is passed only when it cannot be converted or its frame is refused.
LEMMA PassedStep == GInv /\ [GraphicsNext]_graphicsVars => PassedInv'
  <1> SUFFICES ASSUME GInv, [GraphicsNext]_graphicsVars PROVE PassedInv'
    OBVIOUS
  <1> USE DEF GInv, PassedInv, GraphicsTypeOK
  <1>1. CASE UNCHANGED <<dataSet, at, refused>>
    BY <1>1
  <1>2. CASE ReadStamp
    BY <1>1, <1>2 DEF ReadStamp
  <1>3. CASE NextMessage
    BY <1>3 DEF NextMessage
  <1>4. CASE MakeFrame
    <2>1. CASE refused' = refused \cup {at} /\ at' = at + 1 /\ dataSet' = dataSet
      <3>1. refused' \subseteq 1 .. at' - 1
        <4>1. at' - 1 = at
          BY <2>1
        <4>2. \A k \in refused : k \in 1 .. at
          OBVIOUS
        <4>3. at \in 1 .. at
          OBVIOUS
        <4>4. QED
          BY <2>1, <4>1, <4>2, <4>3
      <3>2. \A k \in 1 .. Len(dataSet) : k < at' => k < at \/ k = at
        BY <2>1
      <3>3. QED
        BY <2>1, <3>1, <3>2
    <2>2. QED
      BY <1>1, <1>4, <2>1 DEF MakeFrame
  <1>5. ASSUME NEW t \in OmpThreads, TakeCell(t) \/ PutCell(t) \/ Reduce(t) PROVE PassedInv'
    BY <1>1, <1>5 DEF TakeCell, PutCell, Reduce
  <1>6. CASE UNCHANGED graphicsVars
    BY <1>1, <1>6 DEF graphicsVars
  <1>7. QED
    BY <1>2, <1>3, <1>4, <1>5, <1>6 DEF GraphicsNext

\* A cell goes from the cells to do to one thread and is done by it.
LEMMA LoopStep == GInv /\ [GraphicsNext]_graphicsVars => LoopInv'
  <1> SUFFICES ASSUME GInv, [GraphicsNext]_graphicsVars PROVE LoopInv'
    OBVIOUS
  <1> USE GraphicsAssumption DEF GInv, LoopInv, GraphicsTypeOK, loop
  <1>1. CASE ReadStamp
    BY <1>1 DEF ReadStamp
  <1>2. CASE NextMessage
    BY <1>2 DEF NextMessage
  <1>3. CASE MakeFrame
    <2>1. \A t \in OmpThreads : taken'[t] = NoCell
      BY <1>3 DEF MakeFrame
    <2>2. phase' # "cells"
      BY <1>3 DEF MakeFrame
    <2>3. QED
      BY <2>1, <2>2
  <1>4. ASSUME NEW t \in OmpThreads, TakeCell(t) PROVE LoopInv'
    <2>1. PICK k \in todo : todo' = todo \ {k} /\ taken' = [taken EXCEPT ![t] = k]
      BY <1>4 DEF TakeCell
    <2>2. reduced # OmpThreads
      BY <1>4 DEF TakeCell
    <2>3. QED
      BY <1>4, <2>1, <2>2 DEF TakeCell
  <1>5. ASSUME NEW t \in OmpThreads, PutCell(t) PROVE LoopInv'
    BY <1>5 DEF PutCell
  <1>6. ASSUME NEW t \in OmpThreads, Reduce(t) PROVE LoopInv'
    BY <1>6 DEF Reduce
  <1>7. CASE UNCHANGED graphicsVars
    BY <1>7 DEF graphicsVars
  <1>8. QED
    BY <1>1, <1>2, <1>3, <1>4, <1>5, <1>6, <1>7 DEF GraphicsNext

\* The sum counts each measured cell at most once, and the mask loses the others.
LEMMA MaskStep == GInv /\ [GraphicsNext]_graphicsVars => MaskInv'
  <1> SUFFICES ASSUME GInv, [GraphicsNext]_graphicsVars PROVE MaskInv'
    OBVIOUS
  <1> USE GraphicsAssumption DEF GInv, LoopInv, MaskInv, GraphicsTypeOK, loop
  <1>1. CASE ReadStamp \/ MakeFrame
    <2>1. phase' # "cells"
      BY <1>1 DEF ReadStamp, MakeFrame
    <2>2. QED
      BY <2>1
  <1>2. CASE NextMessage
    <2>1. CASE phase' = "cells"
      <3>1. /\ at <= Len(dataSet) /\ UNCHANGED <<dataSet, at, taken>>
            /\ todo' = Cells(dataSet[at]) /\ validMask' = Cells(dataSet[at])
            /\ counted' = [t \in OmpThreads |-> {}] /\ reduced' = {} /\ validPointCount' = 0
        BY <1>2, <2>1 DEF NextMessage
      <3>2. Cells(dataSet[at]) \subseteq Nat /\ \A t \in OmpThreads : taken[t] = NoCell
        BY <1>2, <2>1, PacketFacts, CellsFacts DEF NextMessage
      <3>3. Summed' = {}
        BY <3>1 DEF Summed
      <3>4. Cardinality(Summed') = 0
        BY <3>3, FS_EmptySet
      <3>5. QED
        BY <3>1, <3>2, <3>4
    <2>2. QED
      BY <2>1
  <1>3. ASSUME NEW t \in OmpThreads, TakeCell(t) PROVE MaskInv'
    <2>1. PICK k \in todo : todo' = todo \ {k} /\ taken' = [taken EXCEPT ![t] = k]
      BY <1>3 DEF TakeCell
    <2>2. Summed' = Summed
      BY <1>3 DEF TakeCell, Summed
    <2>3. /\ phase = "cells" /\ taken[t] = NoCell
          /\ UNCHANGED <<dataSet, at, counted, validMask, validPointCount>>
      BY <1>3 DEF TakeCell
    <2>4. todo \subseteq Cells(dataSet[at]) /\ NoCell \notin Cells(dataSet[at])
      BY <2>3, PacketFacts, CellsFacts
    <2>5. \A j \in Cells(dataSet[at]) :
            j \in validMask <=> \/ j \in dataSet[at].measured \/ j \in todo'
                                \/ \E u \in OmpThreads : taken'[u] = j
      BY <2>1, <2>3, <2>4
    <2>6. \A u \in OmpThreads :
            /\ counted[u] \subseteq Cells(dataSet[at]) \cap dataSet[at].measured
            /\ counted[u] \cap todo' = {}
            /\ \A v \in OmpThreads : taken'[v] \notin counted[u]
      BY <2>1, <2>3
    <2>7. QED
      BY <2>2, <2>3, <2>5, <2>6
  <1>4. ASSUME NEW t \in OmpThreads, PutCell(t) PROVE MaskInv'
    <2>1. t \notin reduced /\ reduced' = reduced /\ \A u \in OmpThreads \ {t} : counted'[u] = counted[u]
      BY <1>4 DEF PutCell
    <2>2. Summed' = Summed
      BY <2>1 DEF Summed
    <2>3. /\ UNCHANGED <<dataSet, at, phase, todo, validPointCount>>
          /\ taken' = [taken EXCEPT ![t] = NoCell] /\ phase = "cells" /\ taken[t] # NoCell
      BY <1>4 DEF PutCell
    <2>4. taken[t] \in Cells(dataSet[at]) \ todo /\ \A u \in OmpThreads \ {t} : taken[u] # taken[t]
      BY <2>3
    <2>5. \A k \in Cells(dataSet[at]) :
            k \in validMask' <=> \/ k \in dataSet[at].measured \/ k \in todo
                                 \/ \E u \in OmpThreads : taken'[u] = k
      <3>1. \A k \in Cells(dataSet[at]) : k # taken[t] =>
              ((\E u \in OmpThreads : taken'[u] = k) <=> \E u \in OmpThreads : taken[u] = k)
        <4>1. \A k \in Cells(dataSet[at]) : k # NoCell
          BY <2>3, PacketFacts, CellsFacts
        <4>2. QED
          BY <2>3, <4>1
      <3>2. ~ \E u \in OmpThreads : taken'[u] = taken[t]
        BY <2>3, <2>4
      <3>3. validMask' = IF taken[t] \in dataSet[at].measured THEN validMask ELSE validMask \ {taken[t]}
        BY <1>4 DEF PutCell
      <3>4. QED
        BY <2>3, <2>4, <3>1, <3>2, <3>3
    <2>6. counted' = [counted EXCEPT ![t] = IF taken[t] \in dataSet[at].measured
                                              THEN @ \cup {taken[t]} ELSE @]
      BY <1>4 DEF PutCell
    <2>7. \A u \in OmpThreads :
            /\ counted'[u] \subseteq Cells(dataSet[at]) \cap dataSet[at].measured
            /\ counted'[u] \cap todo = {}
            /\ \A v \in OmpThreads : taken'[v] \notin counted'[u]
      <3>1. \A u \in OmpThreads : NoCell \notin counted[u]
        OBVIOUS
      <3>2. QED
        BY <2>3, <2>4, <2>6, <3>1
    <2>8. \A u, v \in OmpThreads : u # v => counted'[u] \cap counted'[v] = {}
      BY <2>3, <2>4, <2>6
    <2>9. QED
      BY <2>1, <2>2, <2>3, <2>5, <2>7, <2>8
  <1>5. ASSUME NEW t \in OmpThreads, Reduce(t) PROVE MaskInv'
    <2>1. Summed' = Summed \cup counted[t] /\ Summed \cap counted[t] = {}
      BY <1>5 DEF Reduce, Summed
    <2>2. Summed \subseteq Cells(dataSet[at]) /\ counted[t] \subseteq Cells(dataSet[at])
      BY <1>5 DEF Reduce, Summed
    <2>3. IsFiniteSet(Summed) /\ IsFiniteSet(counted[t])
      BY <1>5, <2>2, PacketFacts, CellsFacts, FS_Subset DEF Reduce
    <2>4. Cardinality(Summed') = Cardinality(Summed) + Cardinality(counted[t])
      <3>1. /\ Cardinality(Summed \cup counted[t]) =
                  Cardinality(Summed) + Cardinality(counted[t]) - Cardinality(Summed \cap counted[t])
            /\ Cardinality(Summed) \in Nat /\ Cardinality(counted[t]) \in Nat
        BY <2>3, FS_Union, FS_CardinalityType
      <3>2. Cardinality(Summed \cap counted[t]) = 0
        BY <2>1, FS_EmptySet
      <3>3. QED
        BY <2>1, <3>1, <3>2
    <2>5. QED
      BY <1>5, <2>4 DEF Reduce
  <1>6. CASE UNCHANGED graphicsVars
    BY <1>6 DEF graphicsVars, Summed
  <1>7. QED
    BY <1>1, <1>2, <1>3, <1>4, <1>5, <1>6 DEF GraphicsNext

\* The frame is the one of the message that the loop was at.
LEMMA ResultStep == GInv /\ [GraphicsNext]_graphicsVars => ResultInv'
  <1> SUFFICES ASSUME GInv, [GraphicsNext]_graphicsVars PROVE ResultInv'
    OBVIOUS
  <1>a. GraphicsTypeOK /\ LoopInv /\ MaskInv /\ ResultInv
    BY DEF GInv
  <1>1. CASE ReadStamp
    BY <1>1, <1>a DEF ReadStamp, ResultInv
  <1>2. CASE NextMessage
    BY <1>2, <1>a DEF NextMessage, ResultInv
  <1>3. CASE MakeFrame
    <2> DEFINE m == dataSet[at]
    <2>1. /\ phase = "cells" /\ reduced = OmpThreads /\ UNCHANGED <<dataSet, stamp>>
          /\ at \in 1 .. Len(dataSet) /\ Convertible(m) /\ IsPacket(m)
      BY <1>3, <1>a, PacketFacts DEF MakeFrame, LoopInv, GraphicsTypeOK
    <2>2. \A k \in Cells(m) : k \in validMask <=> k \in m.measured
      <3>1. todo = {} /\ \A t \in OmpThreads : taken[t] = NoCell
        BY <1>a, <2>1 DEF LoopInv
      <3>2. \A k \in Cells(m) : k # NoCell
        BY <2>1, CellsFacts, GraphicsAssumption
      <3>3. QED
        BY <1>a, <2>1, <3>1, <3>2 DEF MaskInv
    <2>3. validPointCount = m.width * Rows(m) => \A k \in Cells(m) : k \in m.measured
      <3>1. Summed \subseteq Cells(m) /\ Summed \subseteq m.measured
        BY <1>a, <2>1 DEF MaskInv, Summed
      <3>2. IsFiniteSet(Cells(m)) /\ Cardinality(Cells(m)) = m.width * Rows(m)
        BY <2>1, CellsFacts
      <3>3. validPointCount = Cardinality(Summed)
        BY <1>a, <2>1 DEF MaskInv
      <3>4. QED
        BY <3>1, <3>2, <3>3, FS_Subset
    <2>4. \A k \in Cells(m) : k \in Mask <=> k \in m.measured
      BY <2>2, <2>3 DEF Mask
    <2>5. CASE shown' = [packet |-> at, id |-> FrameId, mask |-> Mask] /\ phase' = "done" /\ at' = at
      <3>1. FrameId' = FrameId
        BY <2>1, <2>5 DEF FrameId
      <3>2. QED
        BY <2>1, <2>4, <2>5, <3>1 DEF ResultInv
    <2>6. CASE phase' = "message" /\ UNCHANGED shown
      BY <1>a, <2>1, <2>6 DEF ResultInv
    <2>7. QED
      BY <1>3, <2>5, <2>6 DEF MakeFrame
  <1>4. ASSUME NEW t \in OmpThreads, TakeCell(t) \/ PutCell(t) \/ Reduce(t) PROVE ResultInv'
    BY <1>4, <1>a DEF TakeCell, PutCell, Reduce, ResultInv
  <1>5. CASE UNCHANGED graphicsVars
    BY <1>5, <1>a DEF graphicsVars, ResultInv, FrameId
  <1>6. QED
    BY <1>1, <1>2, <1>3, <1>4, <1>5 DEF GraphicsNext

\* The initial states satisfy the invariant.
LEMMA InitInv == GraphicsInit => GInv
  <1> SUFFICES ASSUME GraphicsInit PROVE GInv
    OBVIOUS
  <1>1. dataSet \in Seq(Packets)
    <2>1. PICK n \in 0 .. MaxPackets : dataSet \in [1 .. n -> Packets]
      BY DEF GraphicsInit
    <2>2. n \in Nat
      BY <2>1, GraphicsAssumption
    <2>3. QED
      BY <2>1, <2>2, SeqDef
  <1>2. GraphicsTypeOK
    BY <1>1 DEF GraphicsInit, GraphicsTypeOK, NoFrame
  <1>3. StampInv /\ LoopInv /\ MaskInv /\ ResultInv
    BY DEF GraphicsInit, StampInv, LoopInv, MaskInv, ResultInv
  <1>4. PassedInv
    BY DEF GraphicsInit, PassedInv
  <1>5. QED
    BY <1>2, <1>3, <1>4 DEF GInv

\* It holds for ever.
THEOREM GraphicsInvariance == GraphicsSpec => []GInv
  <1>1. GInv /\ [GraphicsNext]_graphicsVars => GInv'
    BY TypeStep, StampStep, PassedStep, LoopStep, MaskStep, ResultStep DEF GInv
  <1>2. QED
    BY <1>1, InitInv, PTL DEF GraphicsSpec

-----------------------------------------------------------------------------
(* What it implies. *)

\* Every variable keeps its type.
THEOREM GraphicsTypeCorrect == GraphicsSpec => []GraphicsTypeOK
  <1>1. GInv => GraphicsTypeOK
    BY DEF GInv
  <1>2. QED
    BY <1>1, GraphicsInvariance, PTL

\* The frame is of the first usable message and has the first stamp's identifier,
\* for a data set of any length.
THEOREM FirstIsShownHolds == GraphicsSpec => []FirstIsShown
  <1>1. GInv => FirstIsShown
    <2> SUFFICES ASSUME GInv, phase = "done" PROVE FirstIsShown
      BY DEF FirstIsShown
    <2> DEFINE Usable == {k \in 1 .. Len(dataSet) : Convertible(dataSet[k])} \ refused
    <2>a. GraphicsTypeOK /\ PassedInv /\ ResultInv /\ StampInv
      BY DEF GInv
    <2>1. CASE shown = NoFrame /\ at > Len(dataSet)
      <3>1. Usable = {}
        BY <2>a, <2>1 DEF PassedInv, GraphicsTypeOK
      <3>2. QED
        BY <2>1, <3>1 DEF FirstIsShown, NoFrame
    <2>2. CASE /\ shown.packet = at /\ at \in 1 .. Len(dataSet) /\ Convertible(dataSet[at])
               /\ shown.id = FrameId
      <3>1. at \in Usable /\ at # 0
        BY <2>a, <2>2 DEF PassedInv
      <3>2. \A k \in Usable : at <= k
        BY <2>a, <2>2 DEF PassedInv
      <3>3. CASE stamp = <<>> /\ Stamps = {}
        BY <2>2, <3>1, <3>2, <3>3 DEF FirstIsShown, FrameId, Stamps
      <3>4. CASE \E k \in Stamps : stamp = <<dataSet[k].id>> /\ \A l \in Stamps : k <= l
        <4>1. PICK k \in Stamps : stamp = <<dataSet[k].id>> /\ \A l \in Stamps : k <= l
          BY <3>4
        <4>2. shown.id = dataSet[k].id
          BY <2>2, <4>1 DEF FrameId
        <4>3. \A l \in 1 .. k - 1 : dataSet[l].type # "STAMP"
          BY <2>a, <4>1 DEF Stamps, GraphicsTypeOK
        <4>4. QED
          BY <2>2, <3>1, <3>2, <4>1, <4>2, <4>3 DEF FirstIsShown, Stamps
      <3>5. QED
        BY <2>a, <3>3, <3>4 DEF StampInv
    <2>3. QED
      BY <2>a, <2>1, <2>2 DEF ResultInv
  <1>2. QED
    BY <1>1, GraphicsInvariance, PTL

\* No thread reads outside of an array, for arrays and messages of every size.
THEOREM ReadsInsideHolds == GraphicsSpec => []ReadsInside
  <1>1. GInv => ReadsInside
    <2> SUFFICES ASSUME GInv, NEW t \in OmpThreads, taken[t] # NoCell
                 PROVE  taken[t] < dataSet[at].rows * dataSet[at].columns
      BY DEF ReadsInside
    <2>1. /\ at \in 1 .. Len(dataSet) /\ Convertible(dataSet[at])
          /\ taken[t] \in Cells(dataSet[at])
      BY DEF GInv, LoopInv
    <2>2. IsPacket(dataSet[at])
      BY <2>1, PacketFacts DEF GInv, GraphicsTypeOK
    <2>3. QED
      BY <2>1, <2>2, CellsInside
  <1>2. QED
    BY <1>1, GraphicsInvariance, PTL

\* A cell is valid exactly when its range was measured, for any number of threads.
THEOREM MaskIsExactHolds == GraphicsSpec => []MaskIsExact
  <1>1. GInv => MaskIsExact
    <2> DEFINE m == dataSet[shown.packet]
    <2> SUFFICES ASSUME GInv, shown.packet # 0, m.columns = m.width \/ Rows(m) = 1,
                        NEW r \in 0 .. Rows(m) - 1, NEW c \in 0 .. m.width - 1
                 PROVE  r * m.width + c \in shown.mask <=> r * m.columns + c \in m.measured
      BY DEF MaskIsExact
    <2>1. /\ shown.packet = at /\ at \in 1 .. Len(dataSet) /\ Convertible(m)
          /\ \A k \in Cells(m) : k \in shown.mask <=> k \in m.measured
      BY DEF GInv, ResultInv, NoFrame
    <2>2. IsPacket(m)
      BY <2>1, PacketFacts DEF GInv, GraphicsTypeOK
    <2>3. r * m.width + c \in Cells(m)
      BY <2>1, <2>2, CellOf
    <2>4. r * m.columns = r * m.width
      <3>1. CASE m.columns = m.width
        BY <3>1
      <3>2. CASE Rows(m) = 1
        <4>1. r = 0 /\ m.width \in Nat /\ m.columns \in Nat
          BY <2>2, <3>2 DEF IsPacket
        <4>2. QED
          BY <4>1
      <3>3. QED
        BY <3>1, <3>2
    <2>5. QED
      BY <2>1, <2>3, <2>4
  <1>2. QED
    BY <1>1, GraphicsInvariance, PTL
=============================================================================
