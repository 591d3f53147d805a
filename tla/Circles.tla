------------------------------- MODULE Circles -------------------------------
(***************************************************************************)
(* Circles of the plane (CircleImpl with CartesianDistCalc) and how they   *)
(* relate to points, rectangles and other circles.  Centres and radii are  *)
(* integers, so that squares stand for the distances: sqrt(n) <= d is      *)
(* n <= d * d.  A circle keeps its context's calculator: "cartesian^2"     *)
(* never takes the root, and compares the square with the radius itself.   *)
(***************************************************************************)
EXTENDS Shapes

Square(n) == n * n

(* CartesianDistCalc.distance(), squared.                                  *)
SquareDistance(x1, y1, x2, y2) == Square(x1 - x2) + Square(y1 - y2)

(* SimpleSpatialContext.makeCircle(), with its enclosing box.              *)
MakeCircle(p, d, squared) ==
  [ kind |-> "circle", x |-> p.minX, y |-> p.minY, radius |-> d, squared |-> squared,
    box  |-> MakeRect(p.minX - d, p.minX + d, p.minY - d, p.minY + d) ]

IsCircle(s) == s.kind = "circle"

BoundingBox(s) ==
  IF IsCircle(s) THEN s.box ELSE Rect(s.minX, s.maxX, s.minY, s.maxY)

(* The number that stands for the distance d of a calculator.              *)
Measure(d, squared) == IF squared THEN d ELSE Square(d)

Contains(c, x, y) ==
  SquareDistance(c.x, c.y, x, y) <= Measure(c.radius, c.squared)

RelateCirclePoint(c, p) ==
  IF Contains(c, p.minX, p.minY) THEN "CONTAINS" ELSE "DISJOINT"

(* The coordinate of lo..hi that is closest to v, and the farthest.        *)
Closest(v, lo, hi)  == IF v < lo THEN lo ELSE IF v > hi THEN hi ELSE v
Farthest(v, lo, hi) == IF hi - v > v - lo THEN hi ELSE lo

(* Mutant of IsApart: only the enclosing box is looked at.                 *)
IsApartFromBox(c, x, y) ==
  x > c.box.maxX \/ x < c.box.minX \/ y > c.box.maxY \/ y < c.box.minY

(* The closest point of the rectangle is not in the circle; on the axes of *)
(* the circle the enclosing box tells.                                     *)
IsApart(c, x, y) ==
  IF      c.x = x THEN y > c.box.maxY \/ y < c.box.minY
  ELSE IF c.y = y THEN x > c.box.maxX \/ x < c.box.minX
  ELSE ~Contains(c, x, y)

(* relateRectanglePhase2(): the circle is not within the rectangle.        *)
RelateCorners(c, r, boxRelation) ==
  IF IsApart(c, Closest(c.x, r.minX, r.maxX), Closest(c.y, r.minY, r.maxY))
  THEN "DISJOINT"
  ELSE IF /\ boxRelation = "CONTAINS"
          /\ Contains(c, Farthest(c.x, r.minX, r.maxX), Farthest(c.y, r.minY, r.maxY))
  THEN "CONTAINS" ELSE "INTERSECTS"

RelateCircleRect(c, r) ==
  LET rel == RelateRects(c.box, r) IN
  IF      rel \in {"DISJOINT", "WITHIN"}    THEN rel
  ELSE IF rel = "CONTAINS" /\ c.box = r     THEN "WITHIN"
  ELSE RelateCorners(c, r, rel)

(* distance < d, and distance + e <= d, for the distance with this square. *)
IsLess(square, d, squared) == square < Measure(d, squared)
Reaches(square, e, d, squared) ==
  IF squared THEN square + e <= d ELSE e <= d /\ square <= Square(d - e)

RelateCircles(a, b) ==
  LET square == SquareDistance(a.x, a.y, b.x, b.y)
      inside(c, d) == /\ IsLess(square, d.radius, a.squared)
                      /\ Reaches(square, c.radius, d.radius, a.squared)
  IN  IF      square > Measure(a.radius + b.radius, a.squared) THEN "DISJOINT"
      ELSE IF inside(b, a) THEN "CONTAINS"
      ELSE IF inside(a, b) THEN "WITHIN"
      ELSE "INTERSECTS"

(* Shape.relate() of a circle, and of a point or a rectangle to a circle.  *)
RelateCircle(c, s) ==
  CASE IsPoint(s)  -> RelateCirclePoint(c, s)
    [] IsCircle(s) -> RelateCircles(c, s)
    [] OTHER       -> RelateCircleRect(c, s)

RelateAny(a, b) ==
  CASE IsCircle(a)                 -> RelateCircle(a, b)
    [] ~IsCircle(a) /\ IsCircle(b) -> Transpose(RelateCircle(b, a))
    [] OTHER                       -> Relate(a, b)
=============================================================================
