------------------------------- MODULE Shapes -------------------------------
(***************************************************************************)
(* Points and rectangles and how they relate (base/shape and               *)
(* base/shape/simple).  Coordinates are integers: the code compares, adds  *)
(* and subtracts coordinates, and halves them in getCenter(); the shapes   *)
(* used are wide enough for the halves to be integers too.                 *)
(*                                                                         *)
(* 360 degrees are 2 * HalfTurn, so that x lies in -HalfTurn..HalfTurn.    *)
(* A rectangle with minX > maxX crosses the date line.                     *)
(***************************************************************************)
EXTENDS Integers, FiniteSets

CONSTANTS
  Geo,        \* SpatialContext.isGeo()
  HalfTurn    \* 180 degrees; half the width of the world

ASSUME GeoAssumption      == Geo \in BOOLEAN
ASSUME HalfTurnAssumption == HalfTurn \in Nat \ {0}

Relations == {"WITHIN", "CONTAINS", "DISJOINT", "INTERSECTS"}

(* Mutant of Transpose: the relation is taken to be symmetric.             *)
TransposeSame(rel) == rel

(* SpatialRelation.transpose(): the relation with the arguments swapped.   *)
Transpose(rel) ==
  CASE rel = "CONTAINS" -> "WITHIN"
    [] rel = "WITHIN"   -> "CONTAINS"
    [] OTHER            -> rel

Rect(x1, x2, y1, y2) ==
  [kind |-> "rect", minX |-> x1, maxX |-> x2, minY |-> y1, maxY |-> y2]

Point(x, y) ==
  [kind |-> "point", minX |-> x, maxX |-> x, minY |-> y, maxY |-> y]

IsPoint(s) == s.kind = "point"

CrossesDateLine(r) == r.minX > r.maxX

Height(r) == r.maxY - r.minY

(* getWidth(): only negative when the rectangle crosses the date line.     *)
Width(r) ==
  r.maxX - r.minX + (IF CrossesDateLine(r) THEN 2 * HalfTurn ELSE 0)

Area(r) == Width(r) * Height(r)

(* DistanceUtils.normLonDEG(): into -HalfTurn..(HalfTurn - 1), so that the *)
(* date line itself is always -HalfTurn.                                   *)
NormLon(x) == ((x + HalfTurn) % (2 * HalfTurn)) - HalfTurn

(* SimpleSpatialContext.makeRect() of arguments it accepts: on the globe a *)
(* whole turn becomes -HalfTurn..HalfTurn and anything less is normalised, *)
(* which makes an eastern edge of HalfTurn cross the date line.  The others*)
(* it refuses (lines 97-101): latitudes off the globe or the wrong way     *)
(* round.  On the plane normX() and normY() change nothing.                *)
MakeRect(x1, x2, y1, y2) ==
  IF      ~Geo                                             THEN Rect(x1, x2, y1, y2)
  ELSE IF Width(Rect(x1, x2, y1, y2)) >= 2 * HalfTurn      THEN Rect(-HalfTurn, HalfTurn, y1, y2)
  ELSE Rect(NormLon(x1), NormLon(x2), y1, y2)

(* SimpleSpatialContext.makePoint() of a latitude of the globe, which      *)
(* normY() leaves as it is.                                                *)
MakePoint(x, y) == Point(IF Geo THEN NormLon(x) ELSE x, y)

(* What makePoint() and makeRect() return: normalised longitudes or the    *)
(* whole turn, and the order of edges that RectangleImpl asserts.          *)
IsMade(s) ==
  /\ s \in [kind : {"point", "rect"}, minX : Int, maxX : Int, minY : Int, maxY : Int]
  /\ s.minY <= s.maxY
  /\ IsPoint(s) => s.minX = s.maxX /\ s.minY = s.maxY
  /\ IF Geo THEN /\ s.minX \in -HalfTurn..(HalfTurn - 1)
                 /\ \/ s.maxX \in -HalfTurn..(HalfTurn - 1)
                    \/ s.minX = -HalfTurn /\ s.maxX = HalfTurn
            ELSE s.minX <= s.maxX

(* Mutant of Center: the mean of the edges, on either side of the date     *)
(* line.                                                                   *)
CenterOfEdges(s) ==
  IF IsPoint(s) THEN s ELSE Point((s.minX + s.maxX) \div 2, (s.minY + s.maxY) \div 2)

MiddleX(s) == Width(s) \div 2 + s.minX

Center(s) ==
  IF IsPoint(s) THEN s
  ELSE Point(IF CrossesDateLine(s) THEN NormLon(MiddleX(s)) ELSE MiddleX(s),
             Height(s) \div 2 + s.minY)

(* Mutant of RelateRange: ranges that only touch are disjoint.             *)
RelateRangeStrict(lo, hi, extLo, extHi) ==
  IF      extLo >= hi \/ extHi <= lo THEN "DISJOINT"
  ELSE IF extLo >= lo /\ extHi <= hi THEN "CONTAINS"
  ELSE IF extLo <= lo /\ extHi >= hi THEN "WITHIN"
  ELSE "INTERSECTS"

(* relate_yRange(), and the comparison at the end of relate_xRange(): how  *)
(* the range lo..hi of this rectangle relates to the range of the other.   *)
RelateRange(lo, hi, extLo, extHi) ==
  IF      extLo > hi \/ extHi < lo   THEN "DISJOINT"
  ELSE IF extLo >= lo /\ extHi <= hi THEN "CONTAINS"
  ELSE IF extLo <= lo /\ extHi >= hi THEN "WITHIN"
  ELSE "INTERSECTS"

(* Where the range of longitudes ends when it is made ascending; a range   *)
(* of the whole circle is made to cover every rotation.                    *)
AscendingEnd(s) ==
  IF Width(s) < 2 * HalfTurn THEN s.minX + Width(s) ELSE 3 * HalfTurn

(* Of two ascending ranges the one to the west is turned once around.      *)
RelateTurned(lo, hi, extLo, extHi) ==
  IF      hi < extLo THEN RelateRange(lo + 2 * HalfTurn, hi + 2 * HalfTurn, extLo, extHi)
  ELSE IF extHi < lo THEN RelateRange(lo, hi, extLo + 2 * HalfTurn, extHi + 2 * HalfTurn)
  ELSE RelateRange(lo, hi, extLo, extHi)

(* relate_xRange().                                                        *)
RelateXRange(r, ext) ==
  IF Geo THEN RelateTurned(r.minX, AscendingEnd(r), ext.minX, AscendingEnd(ext))
         ELSE RelateRange(r.minX, r.maxX, ext.minX, ext.maxX)

(* RectangleImpl.relate(Point).                                            *)
RelateRectPoint(r, p) ==
  IF \/ p.minY > r.maxY
     \/ p.minY < r.minY
     \/ IF CrossesDateLine(r) THEN p.minX < r.minX /\ p.minX > r.maxX
                              ELSE p.minX < r.minX \/ p.minX > r.maxX
  THEN "DISJOINT" ELSE "CONTAINS"

(* What the relations x and y of the two axes say of two rectangles.       *)
RelateAxes(x, y, r, s) ==
  IF      y = "DISJOINT" \/ x = "DISJOINT"         THEN "DISJOINT"
  ELSE IF x = y                                    THEN x
  ELSE IF r.minX = s.minX /\ r.maxX = s.maxX       THEN y
  ELSE IF r.minY = s.minY /\ r.maxY = s.maxY       THEN x
  ELSE "INTERSECTS"

(* RectangleImpl.relate(Rectangle).                                        *)
RelateRects(r, s) ==
  RelateAxes(RelateXRange(r, s), RelateRange(r.minY, r.maxY, s.minY, s.maxY), r, s)

(* Shape.relate(): a point relates to a rectangle as the rectangle says,   *)
(* transposed; two points intersect only when they are equal.              *)
Relate(a, b) ==
  CASE IsPoint(a) /\ IsPoint(b)   -> IF a = b THEN "INTERSECTS" ELSE "DISJOINT"
    [] IsPoint(a) /\ ~IsPoint(b)  -> Transpose(RelateRectPoint(b, a))
    [] ~IsPoint(a) /\ IsPoint(b)  -> RelateRectPoint(a, b)
    [] OTHER                      -> RelateRects(a, b)

-----------------------------------------------------------------------------
(* The integer points of a shape; longitudes are those of the circle.      *)
Longitudes(s) ==
  LET xs == s.minX .. (s.minX + Width(s)) IN
  IF Geo THEN { NormLon(x) : x \in xs } ELSE xs
Latitudes(s) == s.minY .. s.maxY

Covers(r, s) == Longitudes(s) \subseteq Longitudes(r) /\ Latitudes(s) \subseteq Latitudes(r)
Touch(r, s)  == (Longitudes(s) \cap Longitudes(r)) # {} /\ (Latitudes(s) \cap Latitudes(r)) # {}
=============================================================================
