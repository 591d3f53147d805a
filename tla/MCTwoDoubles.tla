---------------------------- MODULE MCTwoDoubles ----------------------------
(***************************************************************************)
(* The vector strategy on a small plane: every operation with circles,     *)
(* rectangles and a point as query shapes, against two documents with no,  *)
(* one or two points; and the relations of the circles.                    *)
(***************************************************************************)
EXTENDS CircleRelations

(* The circle of radius 5 passes through (3, 4).                           *)
QueryCircles(squared) ==
  { MakeCircle(Point(0, 0), 0, squared), MakeCircle(Point(0, 0), 2, squared),
    MakeCircle(Point(1, -1), 3, squared), MakeCircle(Point(0, 0), 5, squared),
    MakeCircle(Point(-2, 1), 2, squared) }

(* The last one has its edges the wrong way round.                         *)
QueryRects == { Rect(-1, 3, -1, 1), Rect(0, 0, -2, 2), Rect(2, -2, 0, 1) }

Operations == { "BBoxIntersects", "BBoxWithin", "Contains", "Intersects",
                "IsEqualTo", "IsDisjointTo", "IsWithin", "Overlaps" }

QueriesOf(shapes, squared) ==
  [ op : Operations, shape : shapes, squared : {squared}, acceptDocs : {{1, 2}, {2}} ]

MCQueries == QueriesOf(QueryCircles(FALSE) \cup QueryRects \cup {Point(0, 0)}, FALSE)
             \cup QueriesOf(QueryCircles(TRUE), TRUE)

Contents ==
  { {}, {Rect(0, 1, 0, 1)}, {Point(0, 0)}, {Point(0, 2)}, {Point(1, 1)}, {Point(3, 4)}, {Point(-1, 1)},
    {Point(0, 0), Point(3, 4)}, {Point(3, -1), Point(-1, 3)} }

MCSegments == { << a, b >> : a, b \in Contents }

-----------------------------------------------------------------------------
AllRects == { Rect(x1, x2, y1, y2) : x1, x2, y1, y2 \in {-5, -4, -2, -1, 0, 1, 2, 3, 5} }
SomeRects == { r \in AllRects : r.minX <= r.maxX /\ r.minY <= r.maxY }

SomeCircles == { MakeCircle(Point(x, y), d, FALSE) : x, y \in -2..2, d \in 0..3 }

MCRectangles   == SomeRects
MCOtherCircles == SomeCircles
=============================================================================
