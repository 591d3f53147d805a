-------------------------- MODULE CircleRelations --------------------------
(***************************************************************************)
(* What CircleImpl.relate() answers, beside the sets of points: the circles*)
(* of the queries of the vector strategy, against rectangles and circles.  *)
(***************************************************************************)
EXTENDS TwoDoubles

CONSTANTS
  Reach,           \* the shapes lie within Reach of the origin, along each axis
  Rectangles,      \* what the circles are related to
  OtherCircles

ASSUME ReachAssumption == Reach \in Nat

WithinReach(r) == { r.minX, r.maxX, r.minY, r.maxY } \subseteq -Reach..Reach

(* RectangleImpl's own assertion of the order of edges.                    *)
ASSUME RectanglesAssumption ==
  \A r \in Rectangles : /\ r = Rect(r.minX, r.maxX, r.minY, r.maxY)
                        /\ WithinReach(r)
                        /\ r.minX <= r.maxX /\ r.minY <= r.maxY

ASSUME OtherCirclesAssumption ==
  \A c \in OtherCircles :
    /\ c.x \in Int /\ c.y \in Int /\ c.radius \in Nat
    /\ c = MakeCircle(Point(c.x, c.y), c.radius, FALSE)

ASSUME QueriesWithinReach ==
  \A q \in Queries : IsCircle(q.shape) => WithinReach(q.shape.box)

-----------------------------------------------------------------------------
Grid == (-Reach..Reach) \X (-Reach..Reach)

Holds(s, x, y) ==
  IF IsCircle(s) THEN Contains(s, x, y) ELSE RelateRectPoint(s, Point(x, y)) # "DISJOINT"

(* Points with integer coordinates decide: the point of a rectangle that   *)
(* is closest to the centre, the corners of the rectangle and the extreme  *)
(* points of the circle are such points.  The answers of a circle are      *)
(* those of the sets of points (CircleImpl.java:103-180): where it says    *)
(* DISJOINT, WITHIN or CONTAINS with either calculator, and where it says  *)
(* INTERSECTS with the calculator that takes roots.                        *)
RelatesAsPointSets(c, r) ==
  LET rel    == RelateCircleRect(c, r)
      common == \E g \in Grid : Holds(c, g[1], g[2]) /\ Holds(r, g[1], g[2])
      within == \A g \in Grid : Holds(c, g[1], g[2]) => Holds(r, g[1], g[2])
      covers == \A g \in Grid : Holds(r, g[1], g[2]) => Holds(c, g[1], g[2])
  IN  CASE rel = "DISJOINT"   -> ~common
        [] rel = "WITHIN"     -> within
        [] rel = "CONTAINS"   -> covers
        [] rel = "INTERSECTS" -> c.squared \/ (common /\ ~within /\ ~covers)

(* So are those to a circle, but INTERSECTS, and swapping the circles      *)
(* transposes them (CircleImpl.java:193-204); not with squares, which do   *)
(* not add up.                                                             *)
RelatesAsCircles(c, b) ==
  LET rel == RelateCircles(c, b) IN
  /\ RelateCircles(b, c) = Transpose(rel) \/ b = c
  /\ CASE rel = "DISJOINT" -> ~\E g \in Grid : Holds(c, g[1], g[2]) /\ Holds(b, g[1], g[2])
       [] rel = "WITHIN"   -> \A g \in Grid : Holds(c, g[1], g[2]) => Holds(b, g[1], g[2])
       [] rel = "CONTAINS" -> \A g \in Grid : Holds(b, g[1], g[2]) => Holds(c, g[1], g[2])
       [] OTHER            -> TRUE

(* The circles of the queries with a wrong answer; a set that depends on no*)
(* state, and that TLC evaluates once.                                     *)
Misjudged ==
  { c \in { q.shape : q \in Queries } :
      /\ IsCircle(c)
      /\ \/ \E r \in Rectangles : ~RelatesAsPointSets(c, r)
         \/ ~c.squared /\ \E b \in OtherCircles : ~RelatesAsCircles(c, b) }

(* The circle of a query relates to every rectangle as the two sets of     *)
(* points do, and to every other circle (CircleImpl.java:79-204).          *)
CirclesRelateAsPointSets == args.shape \notin Misjudged
=============================================================================
