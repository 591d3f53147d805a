--------------------------- MODULE MCShapeCaches ---------------------------
(***************************************************************************)
(* ShapeCaches on the terms that createField() makes: one field of points  *)
(* and one of areas; a segment with both, and one with a single point.     *)
(***************************************************************************)
EXTENDS CachedCenters, PrefixTreeSearch

CONSTANTS t1, t2, d1, d2, points, areas, r1, r2

(* What is indexed: nothing stands for a document without the field.       *)
PointsOf1 == d1 :> Field(MakePoint(-7, 3), MaxLevels) @@ d2 :> Field(MakePoint(0, 0), MaxLevels)
AreasOf1  == d1 :> Field(MakeRect(-7, -1, 1, 3), MaxLevels)
PointsOf2 == d2 :> Field(MakePoint(8, -3), MaxLevels)
AreasOf2  == << >>

Held ==
  << r1, points >> :> PointsOf1 @@ << r1, areas >> :> AreasOf1 @@
  << r2, points >> :> PointsOf2 @@ << r2, areas >> :> AreasOf2

(* The terms of these fields with their postings, written out: the value  *)
(* of a constant is looked up in every state.                              *)
SegmentOf(terms, docs) == [terms |-> terms, docs |-> docs]

IndexedSegments ==
  << r1, points >> :> SegmentOf(<< <<1>>, <<1, 1>>, <<1, 4>> >>, << {d1, d2}, {d1}, {d2} >>) @@
  << r1, areas >>  :> SegmentOf(<< <<1>>, <<1, 0>>, <<1, 1>> >>, << {d1}, {d1}, {d1} >>) @@
  << r2, points >> :> SegmentOf(<< <<3>>, <<3, 3>> >>, << {d2}, {d2} >>) @@
  << r2, areas >>  :> SegmentOf(<< >>, << >>)

ASSUME SegmentsAreIndexed ==
  \A s \in DOMAIN Held :
    LET ix == IndexOf(Held[s]) IN IndexedSegments[s] = SegmentOf(ix.terms, ix.docs)

(* The square of the Cartesian distance from a point of the globe.         *)
DistanceFrom(from) ==
  LET squared(to) == (to.minX - from.minX)^2 + (to.minY - from.minY)^2
  IN  WorldCell :> squared(MakePoint(0, 0)) @@
      [c \in AllCells |-> squared(Center(CellShape(c)))]

DistanceFromNorthWest == DistanceFrom(MakePoint(-7, 3))

MCThreads    == {t1, t2}
MCFieldNames == {points, areas}
MCReaders    == {r1, r2}
MCDocs       == {d1, d2}
MCSegments   == IndexedSegments
MCCenters    == [s \in DOMAIN Held |-> CentersOf(Held[s])]
MCDistance   == DistanceFromNorthWest
=============================================================================
