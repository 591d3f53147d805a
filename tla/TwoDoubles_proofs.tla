------------------------- MODULE TwoDoubles_proofs -------------------------
(***************************************************************************)
(* Proofs about the vector strategy: what its filter finds, and what it    *)
(* loses, for every segment and query; and how circles relate.             *)
(***************************************************************************)
EXTENDS CircleRelations, FiniteSetTheorems, TLAPS

Arguments == segment \in Segments /\ args \in Queries

(* The filter that makeFilter() made is the one for its arguments.         *)
PlanIsForArgs ==
  \/ /\ plan = [ query |-> "within", ring |-> TRUE, box |-> QueryShape.box ]
     /\ IsCircle(QueryShape) /\ args.op \in {"Intersects", "IsWithin"}
  \/ /\ plan = [ query |-> IF args.op = "IsDisjointTo" THEN "disjoint" ELSE "within",
                 ring |-> FALSE, box |-> QueryShape ]
     /\ IsSupported

Selected(d) == d \in args.acceptDocs /\ QueryMatches(d) /\ RingMatches(d)

(* The documents before the next one have been looked at.                  *)
IInv ==
  /\ Arguments
  /\ pc \in {"start", "refused", "match", "done"}
  /\ doc \in Nat \ {0}
  /\ pc \in {"start", "refused"} => doc = 1
  /\ pc \in {"match", "done"} => PlanIsForArgs
  /\ pc = "done" => doc \notin DOMAIN segment
  /\ found = { d \in DOMAIN segment : d < doc /\ Selected(d) }

-----------------------------------------------------------------------------

LEMMA SegmentFacts ==
  ASSUME Arguments
  PROVE  /\ \E n \in Nat : DOMAIN segment = 1..n
         /\ \A d \in DOMAIN segment :
              IsFiniteSet(Points(d)) /\ \A p \in Points(d) : IsPoint(p) /\ IsMade(p)
<1>1. segment \in Segments /\ \A d \in DOMAIN segment : Points(d) \in SUBSET segment[d]
  BY DEF Arguments, Points
<1>2. Cardinality(DOMAIN segment) \in Nat /\ DOMAIN segment = 1..Cardinality(DOMAIN segment)
  BY <1>1, SegmentsAssumption, FS_CardinalityType
<1>3. \A d \in DOMAIN segment : IsFiniteSet(Points(d))
  BY <1>1, SegmentsAssumption, FS_Subset
<1> QED BY <1>1, <1>2, <1>3, SegmentsAssumption DEF Points

LEMMA InitIInv == Init => IInv
<1> SUFFICES ASSUME Init PROVE IInv
  OBVIOUS
<1>1. \A d \in DOMAIN segment : ~(d < doc)
  <2>1. Arguments /\ doc = 1
    BY DEF Init, Arguments
  <2> QED BY <2>1, SegmentFacts
<1> QED BY <1>1 DEF Init, IInv, Arguments

LEMMA MatchStep ==
  ASSUME IInv, Match
  PROVE  IInv'
<1>1. /\ pc = "match" /\ pc' = "match" /\ doc \in DOMAIN segment /\ doc' = doc + 1
      /\ segment' = segment /\ args' = args /\ plan' = plan
      /\ found' = IF Selected(doc) THEN found \cup {doc} ELSE found
  BY DEF Match, Selected
<1>2. \A d : Selected(d)' <=> Selected(d)
  BY <1>1 DEF Selected, QueryMatches, RingMatches, SquareVal, FieldX, FieldY, Points
<1>3. PlanIsForArgs'
  BY <1>1 DEF IInv, PlanIsForArgs, QueryShape, IsSupported
<1>4. doc \in Nat \ {0} /\ \A d \in DOMAIN segment : d \in Nat /\ (d < doc + 1 <=> d < doc \/ d = doc)
  BY SegmentFacts DEF IInv
<1>5. found' = { d \in DOMAIN segment' : d < doc' /\ Selected(d)' }
  BY <1>1, <1>2, <1>4 DEF IInv
<1> QED BY <1>1, <1>3, <1>4, <1>5 DEF IInv, Arguments

(* The filter is made while no document has been looked at.                *)
LEMMA MakeStep ==
  ASSUME IInv, MakeRingFilter \/ MakeQuery \/ Refuse
  PROVE  IInv'
<1>1. /\ pc = "start" /\ pc' \in {"match", "refused"}
      /\ segment' = segment /\ args' = args /\ doc' = doc /\ found' = found
  BY DEF MakeRingFilter, MakeQuery, Refuse
<1>2. doc = 1 /\ \A d \in DOMAIN segment : ~(d < doc)
  <2>1. doc = 1 /\ Arguments
    BY <1>1 DEF IInv
  <2> QED BY <2>1, SegmentFacts
<1>3. pc' = "match" => PlanIsForArgs'
  BY <1>1 DEF MakeRingFilter, MakeQuery, Refuse, PlanIsForArgs, QueryShape, IsSupported
<1>4. found' = { d \in DOMAIN segment' : d < doc' /\ Selected(d)' }
  BY <1>1, <1>2 DEF IInv
<1> QED BY <1>1, <1>2, <1>3, <1>4 DEF IInv, Arguments

LEMMA RestStep ==
  ASSUME IInv, Finish \/ UNCHANGED vars
  PROVE  IInv'
<1>1. /\ segment' = segment /\ args' = args /\ plan' = plan /\ doc' = doc /\ found' = found
      /\ (pc = "match" /\ pc' = "done" /\ doc \notin DOMAIN segment) \/ pc' = pc
  BY DEF Finish, vars
<1>2. \A d : Selected(d)' <=> Selected(d)
  BY <1>1 DEF Selected, QueryMatches, RingMatches, SquareVal, FieldX, FieldY, Points
<1>3. PlanIsForArgs' <=> PlanIsForArgs
  BY <1>1 DEF PlanIsForArgs, QueryShape, IsSupported
<1>4. found' = { d \in DOMAIN segment' : d < doc' /\ Selected(d)' }
  BY <1>1, <1>2 DEF IInv
<1> QED BY <1>1, <1>3, <1>4 DEF IInv, Arguments

LEMMA Invariance == Spec => []IInv
<1>1. IInv /\ [Next]_vars => IInv'
  BY MatchStep, MakeStep, RestStep DEF Next
<1> QED BY <1>1, InitIInv, PTL DEF Spec

-----------------------------------------------------------------------------
(* Squares and distances.                                                  *)

LEMMA SquaresGrow ==
  ASSUME NEW a \in Int, NEW b \in Int, -b <= a, a <= b
  PROVE  a * a <= b * b
<1>1. (b - a) \in Nat /\ (b + a) \in Nat
  OBVIOUS
<1>2. (b - a) * (b + a) >= 0
  BY <1>1
<1>3. (b - a) * (b + a) = b * b - a * a
  OBVIOUS
<1> QED BY <1>2, <1>3

LEMMA SquareRoots ==
  ASSUME NEW n \in Int, NEW m \in Nat, n * n <= m * m
  PROVE  -m <= n /\ n <= m
<1>1. CASE n > m
  BY <1>1
<1>2. CASE n < -m
  <2>1. -n > m /\ (-n) * (-n) = n * n
    BY <1>2
  <2> QED BY <2>1
<1> QED BY <1>1, <1>2

LEMMA SquareFacts ==
  ASSUME NEW a \in Int
  PROVE  Square(a) = a * a /\ Square(a) \in Nat /\ Square(-a) = Square(a)
BY DEF Square

(* One vector is as long as m at most, another as n: their sum is as long  *)
(* as m + n.                                                               *)
LEMMA Triangle ==
  ASSUME NEW u \in Int, NEW v \in Int, NEW s \in Int, NEW t \in Int, NEW m \in Nat, NEW n \in Nat,
         u * u + v * v <= m * m, s * s + t * t <= n * n
  PROVE  (u + s) * (u + s) + (v + t) * (v + t) <= (m + n) * (m + n)
<1> DEFINE a == u * u + v * v
           b == s * s + t * t
           w == u * s + v * t
           z == u * t - v * s
<1>1. w * w + z * z = a * b
  OBVIOUS
<1>2. a \in Nat /\ b \in Nat /\ w \in Int /\ z \in Int /\ m * m \in Nat /\ n * n \in Nat
  OBVIOUS
<1>3. (u + s) * (u + s) + (v + t) * (v + t) = a + b + 2 * w
  OBVIOUS
<1>4. a <= m * m /\ b <= n * n
  OBVIOUS
<1> HIDE DEF a, b, w, z
<1>5. a * b <= (m * m) * (n * n)
  <2>1. a * b <= (m * m) * b
    BY <1>2, <1>4
  <2>2. (m * m) * b <= (m * m) * (n * n)
    BY <1>2, <1>4
  <2> QED BY <1>2, <2>1, <2>2
<1>6. w * w <= (m * n) * (m * n)
  <2>1. z * z >= 0 /\ z * z \in Int /\ w * w \in Int /\ a * b \in Int
    BY <1>2
  <2>2. (m * n) * (m * n) = (m * m) * (n * n)
    OBVIOUS
  <2> QED BY <1>1, <1>5, <2>1, <2>2
<1>7. m * n \in Nat
  OBVIOUS
<1>8. w <= m * n
  BY <1>2, <1>6, <1>7, SquareRoots
<1>9. (m + n) * (m + n) = m * m + n * n + 2 * (m * n)
  OBVIOUS
<1> QED BY <1>2, <1>3, <1>4, <1>7, <1>8, <1>9

(* The coordinate of a range that is closest to v, and the farthest.       *)
LEMMA ClosestIsClosest ==
  ASSUME NEW v \in Int, NEW lo \in Int, NEW hi \in Int, lo <= hi
  PROVE  /\ Closest(v, lo, hi) \in lo..hi
         /\ \A z \in lo..hi : Square(v - Closest(v, lo, hi)) <= Square(v - z)
         /\ Closest(v, lo, hi) = v <=> v \in lo..hi
<1> DEFINE k == Closest(v, lo, hi)
<1>1. k \in lo..hi /\ (k = v <=> v \in lo..hi) /\ (v < lo => k = lo) /\ (v > hi => k = hi)
  BY DEF Closest
<1> HIDE DEF k
<1>2. ASSUME NEW z \in lo..hi PROVE Square(v - k) <= Square(v - z)
  <2>1. v - k \in Int /\ v - z \in Int /\ k - v \in Int /\ z - v \in Int
    BY <1>1
  <2>2. CASE v < lo
    <3>1. -(z - v) <= k - v /\ k - v <= z - v
      BY <1>1, <2>2
    <3>2. (k - v) * (k - v) <= (z - v) * (z - v)
      BY <2>1, <3>1, SquaresGrow
    <3>3. (k - v) * (k - v) = (v - k) * (v - k) /\ (z - v) * (z - v) = (v - z) * (v - z)
      BY <1>1
    <3> QED BY <3>2, <3>3 DEF Square
  <2>3. CASE v > hi
    <3>1. -(v - z) <= v - k /\ v - k <= v - z
      BY <1>1, <2>3
    <3> QED BY <2>1, <3>1, SquaresGrow DEF Square
  <2>4. CASE v \in lo..hi
    <3>1. v - k = 0
      BY <1>1, <2>4
    <3>2. (v - z) * (v - z) >= 0
      BY <2>1
    <3> QED BY <3>1, <3>2 DEF Square
  <2> QED BY <2>2, <2>3, <2>4
<1> QED BY <1>1, <1>2 DEF k

LEMMA FarthestIsFarthest ==
  ASSUME NEW v \in Int, NEW lo \in Int, NEW hi \in Int, lo <= hi
  PROVE  /\ Farthest(v, lo, hi) \in lo..hi
         /\ \A z \in lo..hi : Square(v - z) <= Square(v - Farthest(v, lo, hi))
<1> DEFINE k == Farthest(v, lo, hi)
<1>1. k \in lo..hi /\ ((k = hi /\ hi - v > v - lo) \/ (k = lo /\ hi - v <= v - lo))
  BY DEF Farthest
<1> HIDE DEF k
<1>2. ASSUME NEW z \in lo..hi PROVE Square(v - z) <= Square(v - k)
  <2>1. v - k \in Int /\ v - z \in Int /\ k - v \in Int
    BY <1>1
  <2>2. CASE k = hi /\ hi - v > v - lo
    <3>1. -(k - v) <= v - z /\ v - z <= k - v
      BY <1>1, <2>2
    <3>2. (v - z) * (v - z) <= (k - v) * (k - v)
      BY <2>1, <3>1, SquaresGrow
    <3>3. (k - v) * (k - v) = (v - k) * (v - k)
      BY <1>1
    <3> QED BY <3>2, <3>3 DEF Square
  <2>3. CASE k = lo /\ hi - v <= v - lo
    <3>1. -(v - k) <= v - z /\ v - z <= v - k
      BY <1>1, <2>3
    <3> QED BY <2>1, <3>1, SquaresGrow DEF Square
  <2> QED BY <1>1, <2>2, <2>3
<1> QED BY <1>1, <1>2 DEF k

-----------------------------------------------------------------------------
(* What a document with a point in the query shape has to do with ranges   *)
(* and distances.                                                          *)

LEMMA PointFacts ==
  ASSUME NEW p, IsPoint(p), IsMade(p)
  PROVE  p.minX \in Int /\ p.minY \in Int /\ ~IsCircle(p)
BY DEF IsMade, IsPoint, IsCircle

(* A circle's box holds what is no farther away than its radius says.      *)
LEMMA WithinRadius ==
  ASSUME NEW d \in Int, NEW e \in Int, NEW r \in Nat, NEW squared,
         Square(d) + Square(e) <= Measure(r, squared)
  PROVE  -r <= d /\ d <= r /\ -r <= e /\ e <= r
<1>1. d * d >= 0 /\ e * e >= 0 /\ d * d \in Int /\ e * e \in Int /\ r * r \in Int
  OBVIOUS
<1>2. CASE squared
  <2>1. d * d <= r /\ e * e <= r
    BY <1>1, <1>2 DEF Square, Measure
  <2>2. d <= d * d /\ -d <= d * d /\ e <= e * e /\ -e <= e * e
    OBVIOUS
  <2> QED BY <1>1, <2>1, <2>2
<1>3. CASE ~squared
  <2>1. d * d <= r * r /\ e * e <= r * r
    BY <1>1, <1>3 DEF Square, Measure
  <2>2. \A n \in Int : n * n <= r * r => -r <= n /\ n <= r
    BY SquareRoots
  <2> QED BY <2>1, <2>2
<1> QED BY <1>2, <1>3

(* A circle of the plane and its box.                                      *)
LEMMA CircleFacts ==
  ASSUME Arguments, IsCircle(args.shape)
  PROVE  /\ args.shape.x \in Int /\ args.shape.y \in Int /\ args.shape.radius \in Nat
         /\ args.shape.squared = args.squared
         /\ LET c == args.shape
            IN  c.box = Rect(c.x - c.radius, c.x + c.radius, c.y - c.radius, c.y + c.radius)
<1>1. /\ args.shape.x \in Int /\ args.shape.y \in Int /\ args.shape.radius \in Nat
      /\ args.shape = MakeCircle(Point(args.shape.x, args.shape.y), args.shape.radius, args.squared)
  BY QueriesAssumption DEF Arguments, IsCircle
<1> QED BY <1>1, PlaneAssumption DEF MakeCircle, MakeRect, Point

(* When the query is a circle it is not its bounding box that is asked for. *)
LEMMA CircleIsQuery ==
  ASSUME Arguments, IsCircle(QueryShape)
  PROVE  QueryShape = args.shape
<1>1. CASE args.op \in {"BBoxWithin", "BBoxIntersects"}
  <2>1. QueryShape = BoundingBox(args.shape)
    BY <1>1 DEF QueryShape
  <2>2. QueryShape.kind = "rect"
    <3>1. CASE IsCircle(args.shape)
      <4>1. args.shape.box.kind = "rect"
        BY <3>1, CircleFacts DEF Rect
      <4> QED BY <2>1, <3>1, <4>1 DEF BoundingBox
    <3>2. CASE ~IsCircle(args.shape)
      BY <2>1, <3>2 DEF BoundingBox, Rect
    <3> QED BY <3>1, <3>2
  <2> QED BY <2>2 DEF IsCircle
<1>2. CASE args.op \notin {"BBoxWithin", "BBoxIntersects"}
  BY <1>2 DEF QueryShape
<1> QED BY <1>1, <1>2

(* A point of a rectangle that does not cross the date line.               *)
LEMMA RectMeets ==
  ASSUME Arguments, PlanIsForArgs, ~plan.ring, NEW p, IsPoint(p), IsMade(p)
  PROVE  /\ plan.box.minX \in Int /\ plan.box.maxX \in Int
         /\ plan.box.minY \in Int /\ plan.box.maxY \in Int
         /\ Meets(p) <=> /\ ~(p.minX < plan.box.minX) /\ ~(p.minX > plan.box.maxX)
                         /\ ~(p.minY < plan.box.minY) /\ ~(p.minY > plan.box.maxY)
<1>1. plan.box = QueryShape /\ IsSupported
  BY DEF PlanIsForArgs
<1>2. ~IsCircle(QueryShape) /\ ~IsPoint(QueryShape) /\ ~CrossesDateLine(QueryShape) /\ ~IsCircle(p)
  BY <1>1, PointFacts DEF IsSupported, IsPoint
<1>3. RelateAny(QueryShape, p) = RelateRectPoint(QueryShape, p)
  BY <1>2 DEF RelateAny, Relate
<1>4. /\ QueryShape.minX \in Int /\ QueryShape.maxX \in Int
      /\ QueryShape.minY \in Int /\ QueryShape.maxY \in Int
  <2>1. CASE IsCircle(args.shape)
    <3>1. QueryShape = args.shape.box
      BY <1>2, <2>1 DEF QueryShape, BoundingBox
    <3> QED BY <2>1, <3>1, CircleFacts DEF Rect
  <2>2. CASE ~IsCircle(args.shape)
    <3>1. \A p0, d, squared : IsCircle(MakeCircle(p0, d, squared))
      BY DEF MakeCircle, IsCircle
    <3>2. /\ args.shape.minX \in Int /\ args.shape.maxX \in Int
          /\ args.shape.minY \in Int /\ args.shape.maxY \in Int
      BY <2>2, <3>1, QueriesAssumption DEF Arguments
    <3> QED BY <2>2, <3>2 DEF QueryShape, BoundingBox, Rect
  <2> QED BY <2>1, <2>2
<1> QED BY <1>1, <1>2, <1>3, <1>4 DEF Meets, RelateRectPoint

(* A point of a circle.                                                    *)
LEMMA RingMeets ==
  ASSUME Arguments, PlanIsForArgs, plan.ring, NEW p, IsPoint(p), IsMade(p)
  PROVE  LET square == SquareDistance(args.shape.x, args.shape.y, p.minX, p.minY)
             bound  == Measure(args.shape.radius, args.squared)
         IN  /\ square \in Nat /\ bound \in Nat
             /\ Meets(p) <=> square <= bound
             /\ AtCentreOrRim(p) <=> square \in {0, bound}
             /\ Meets(p) => /\ plan.box.minX <= p.minX /\ p.minX <= plan.box.maxX
                            /\ plan.box.minY <= p.minY /\ p.minY <= plan.box.maxY
<1> DEFINE c == args.shape
           square == SquareDistance(c.x, c.y, p.minX, p.minY)
           bound == Measure(c.radius, args.squared)
<1>1. IsCircle(QueryShape) /\ plan.box = QueryShape.box
  BY DEF PlanIsForArgs
<1>2. QueryShape = c /\ IsCircle(c) /\ plan.box = c.box
  BY <1>1, CircleIsQuery
<1>3. /\ c.x \in Int /\ c.y \in Int /\ c.radius \in Nat /\ c.squared = args.squared
      /\ c.box = Rect(c.x - c.radius, c.x + c.radius, c.y - c.radius, c.y + c.radius)
  BY <1>2, CircleFacts
<1>4. p.minX \in Int /\ p.minY \in Int
  BY PointFacts
<1>5. square \in Nat /\ bound \in Nat
  <2>1. \A n \in Int : Square(n) \in Nat
    BY DEF Square
  <2> QED BY <1>3, <1>4, <2>1 DEF SquareDistance, Measure
<1>6. RelateAny(QueryShape, p) = RelateCirclePoint(c, p)
  <2>1. RelateCircle(c, p) = RelateCirclePoint(c, p)
    BY PointFacts, ZenonT(20) DEF RelateCircle
  <2>2. RelateAny(c, p) = RelateCircle(c, p)
    BY <1>2, ZenonT(20) DEF RelateAny
  <2> QED BY <1>2, <2>1, <2>2
<1>7. Meets(p) <=> square <= bound
  BY <1>3, <1>6 DEF Meets, RelateCirclePoint, Contains
<1>8. ASSUME Meets(p)
      PROVE  /\ plan.box.minX <= p.minX /\ p.minX <= plan.box.maxX
             /\ plan.box.minY <= p.minY /\ p.minY <= plan.box.maxY
  <2>1. Square(c.x - p.minX) + Square(c.y - p.minY) <= Measure(c.radius, args.squared)
    BY <1>7, <1>8 DEF SquareDistance
  <2>2. /\ -c.radius <= c.x - p.minX /\ c.x - p.minX <= c.radius
        /\ -c.radius <= c.y - p.minY /\ c.y - p.minY <= c.radius
    BY <1>3, <1>4, <2>1, WithinRadius
  <2> QED BY <1>2, <1>3, <1>4, <2>2 DEF Rect
<1>9. AtCentreOrRim(p) <=> square \in {0, bound}
  BY DEF AtCentreOrRim
<1> QED BY <1>5, <1>7, <1>8, <1>9

(* The only value of a field.                                              *)
LEMMA LonePoint ==
  ASSUME Arguments, NEW d \in DOMAIN segment, NEW p \in Points(d), Cardinality(Points(d)) = 1
  PROVE  /\ Points(d) = {p} /\ FieldX(d) = {p.minX} /\ FieldY(d) = {p.minY}
         /\ SquareVal(d) = SquareDistance(args.shape.x, args.shape.y, p.minX, p.minY)
<1>1. Points(d) = {p}
  BY SegmentFacts, FS_Singleton
<1>2. p.minX \in Int /\ p.minY \in Int
  BY SegmentFacts, PointFacts
<1>3. FieldX(d) = {p.minX} /\ FieldY(d) = {p.minY}
  BY <1>1 DEF FieldX, FieldY
<1>4. \A n \in Int : Max({n}) = n
  BY DEF Max
<1> QED BY <1>1, <1>2, <1>3, <1>4 DEF SquareVal, Cached

-----------------------------------------------------------------------------

(* The filter returns only documents whose one point lies in the query.    *)
THEOREM FoundAreMatches == Spec => []FoundDocsMatch
<1>1. ASSUME IInv, NEW d \in found
      PROVE  /\ d \in args.acceptDocs
             /\ Points(d) # {}
             /\ \A p \in Points(d) : Cardinality(Points(d)) = 1 => Meets(p)
  <2>1. Arguments /\ d \in DOMAIN segment /\ d < doc /\ Selected(d)
    BY <1>1 DEF IInv
  <2>2. d \in args.acceptDocs /\ QueryMatches(d) /\ RingMatches(d)
    BY <2>1 DEF Selected
  <2>3. PlanIsForArgs
    <3>1. d \in Nat /\ d >= 1 /\ doc # 1
      BY <2>1, SegmentFacts
    <3> QED BY <1>1, <3>1 DEF IInv
  <2>4. Points(d) # {}
    BY <2>2 DEF QueryMatches, InRange, FieldX
  <2>5. ASSUME NEW p \in Points(d), Cardinality(Points(d)) = 1
        PROVE  Meets(p)
    <3>1. IsPoint(p) /\ IsMade(p) /\ p.minX \in Int /\ p.minY \in Int
      BY <2>1, SegmentFacts, PointFacts
    <3>2. FieldX(d) = {p.minX} /\ FieldY(d) = {p.minY}
          /\ SquareVal(d) = SquareDistance(args.shape.x, args.shape.y, p.minX, p.minY)
      BY <2>1, <2>5, LonePoint
    <3>3. CASE plan.ring
      BY <2>1, <2>2, <2>3, <3>1, <3>2, <3>3, RingMeets DEF RingMatches
    <3>4. CASE ~plan.ring
      BY <2>1, <2>2, <2>3, <3>1, <3>2, <3>4, RectMeets DEF QueryMatches, InRange
    <3> QED BY <3>3, <3>4
  <2> QED BY <2>2, <2>4, <2>5
<1>2. IInv => FoundDocsMatch
  BY <1>1 DEF FoundDocsMatch
<1> QED BY <1>2, Invariance, PTL

(* It loses no more than the comment on LostDocs says.                     *)
THEOREM LostAreKnown == Spec => []LostDocs
<1>1. ASSUME IInv, pc = "done", args.op = "IsDisjointTo"
      PROVE  found = {}
  BY <1>1 DEF IInv, PlanIsForArgs, Selected, QueryMatches
<1>2. ASSUME IInv, pc = "done", args.op # "IsDisjointTo",
             NEW d \in DOMAIN segment \cap args.acceptDocs, NEW p \in Points(d), Meets(p),
             plan.ring => Cardinality(Points(d)) = 1 /\ ~AtCentreOrRim(p)
      PROVE  d \in found
  <2>1. Arguments /\ PlanIsForArgs /\ plan.query = "within"
    BY <1>2 DEF IInv, PlanIsForArgs
  <2>2. d < doc
    BY <1>2, <2>1, SegmentFacts DEF IInv
  <2>3. IsPoint(p) /\ IsMade(p) /\ p.minX \in Int /\ p.minY \in Int
    BY <2>1, SegmentFacts, PointFacts
  <2>4. p.minX \in FieldX(d) /\ p.minY \in FieldY(d)
    BY DEF FieldX, FieldY
  <2>5. QueryMatches(d)
    <3>1. CASE plan.ring
      BY <1>2, <2>1, <2>3, <2>4, <3>1, RingMeets DEF QueryMatches, InRange
    <3>2. CASE ~plan.ring
      BY <1>2, <2>1, <2>3, <2>4, <3>2, RectMeets DEF QueryMatches, InRange
    <3> QED BY <3>1, <3>2
  <2>6. RingMatches(d)
    <3>1. CASE plan.ring
      BY <1>2, <2>1, <2>3, <3>1, RingMeets, LonePoint DEF RingMatches
    <3> QED BY <3>1 DEF RingMatches
  <2> QED BY <1>2, <2>2, <2>5, <2>6 DEF IInv, Selected
<1>3. IInv => LostDocs
  BY <1>1, <1>2 DEF LostDocs
<1> QED BY <1>3, Invariance, PTL
-----------------------------------------------------------------------------
(* Circles and rectangles.                                                 *)

IsRange(r) == /\ r = Rect(r.minX, r.maxX, r.minY, r.maxY)
              /\ r.minX \in Int /\ r.maxX \in Int /\ r.minX <= r.maxX
              /\ r.minY \in Int /\ r.maxY \in Int /\ r.minY <= r.maxY

Inside(b, r) == r.minX <= b.minX /\ b.maxX <= r.maxX /\ r.minY <= b.minY /\ b.maxY <= r.maxY

(* What the plane's rectangles answer one another.                         *)
LEMMA RangesRelate ==
  ASSUME NEW b, NEW r, IsRange(b), IsRange(r)
  PROVE  LET rel == RelateRects(b, r)
         IN  /\ rel \in {"DISJOINT", "WITHIN", "CONTAINS", "INTERSECTS"}
             /\ rel = "DISJOINT" <=> \/ r.minX > b.maxX \/ r.maxX < b.minX
                                     \/ r.minY > b.maxY \/ r.maxY < b.minY
             /\ rel = "WITHIN" => Inside(b, r)
             /\ rel = "CONTAINS" <=> Inside(r, b)
             /\ Inside(b, r) => rel = "WITHIN" \/ b = r
<1> DEFINE xr == RelateRange(b.minX, b.maxX, r.minX, r.maxX)
           yr == RelateRange(b.minY, b.maxY, r.minY, r.maxY)
<1>1. RelateRects(b, r) = RelateAxes(xr, yr, b, r)
  BY PlaneAssumption DEF RelateRects, RelateXRange
<1>2. ASSUME NEW lo \in Int, NEW hi \in Int, NEW lo2 \in Int, NEW hi2 \in Int, lo <= hi, lo2 <= hi2
      PROVE  LET q == RelateRange(lo, hi, lo2, hi2)
             IN  /\ q \in {"DISJOINT", "WITHIN", "CONTAINS", "INTERSECTS"}
                 /\ q = "DISJOINT" <=> lo2 > hi \/ hi2 < lo
                 /\ q = "CONTAINS" <=> lo <= lo2 /\ hi2 <= hi
                 /\ q = "WITHIN" <=> lo2 <= lo /\ hi <= hi2 /\ ~(lo2 = lo /\ hi = hi2)
  BY <1>2 DEF RelateRange
<1>3. /\ xr \in {"DISJOINT", "WITHIN", "CONTAINS", "INTERSECTS"}
      /\ xr = "DISJOINT" <=> r.minX > b.maxX \/ r.maxX < b.minX
      /\ xr = "CONTAINS" <=> b.minX <= r.minX /\ r.maxX <= b.maxX
      /\ xr = "WITHIN" <=> /\ r.minX <= b.minX /\ b.maxX <= r.maxX
                           /\ ~(r.minX = b.minX /\ b.maxX = r.maxX)
  BY <1>2 DEF IsRange
<1>4. /\ yr \in {"DISJOINT", "WITHIN", "CONTAINS", "INTERSECTS"}
      /\ yr = "DISJOINT" <=> r.minY > b.maxY \/ r.maxY < b.minY
      /\ yr = "CONTAINS" <=> b.minY <= r.minY /\ r.maxY <= b.maxY
      /\ yr = "WITHIN" <=> /\ r.minY <= b.minY /\ b.maxY <= r.maxY
                           /\ ~(r.minY = b.minY /\ b.maxY = r.maxY)
  BY <1>2 DEF IsRange
<1> HIDE DEF xr, yr
<1>5. /\ b.minX = r.minX /\ b.maxX = r.maxX /\ b.minY = r.minY /\ b.maxY = r.maxY => b = r
      /\ b.minX \in Int /\ b.maxX \in Int /\ b.minY \in Int /\ b.maxY \in Int
      /\ r.minX \in Int /\ r.maxX \in Int /\ r.minY \in Int /\ r.maxY \in Int
  BY DEF IsRange
<1> DEFINE rel == RelateAxes(xr, yr, b, r)
<1>6. /\ rel \in {"DISJOINT", "WITHIN", "CONTAINS", "INTERSECTS"}
      /\ rel = "DISJOINT" <=> xr = "DISJOINT" \/ yr = "DISJOINT"
  BY <1>3, <1>4 DEF RelateAxes
<1>7. rel = "WITHIN" => Inside(b, r)
  BY <1>3, <1>4, <1>5 DEF RelateAxes, Inside
<1>8. rel = "CONTAINS" <=> Inside(r, b)
  BY <1>3, <1>4, <1>5 DEF RelateAxes, Inside
<1>9. Inside(b, r) => rel = "WITHIN" \/ b = r
  BY <1>3, <1>4, <1>5 DEF RelateAxes, Inside
<1> QED BY <1>1, <1>3, <1>4, <1>6, <1>7, <1>8, <1>9

(* A circle of the plane.                                                  *)
IsPlaneCircle(c) ==
  /\ IsCircle(c)
  /\ c.x \in Int /\ c.y \in Int /\ c.radius \in Nat
  /\ c = MakeCircle(Point(c.x, c.y), c.radius, c.squared)
  /\ c.box = Rect(c.x - c.radius, c.x + c.radius, c.y - c.radius, c.y + c.radius)

LEMMA CirclesAreMade ==
  ASSUME NEW c, NEW q, c.x \in Int, c.y \in Int, c.radius \in Nat,
         c = MakeCircle(Point(c.x, c.y), c.radius, q)
  PROVE  IsPlaneCircle(c) /\ c.squared = q
<1>1. IsCircle(c) /\ c.squared = q /\ c.box = MakeRect(c.x - c.radius, c.x + c.radius, c.y - c.radius, c.y + c.radius)
  BY DEF MakeCircle, Point, IsCircle
<1> QED BY <1>1, PlaneAssumption DEF IsPlaneCircle, MakeRect

LEMMA CirclePoints ==
  ASSUME NEW c, IsPlaneCircle(c)
  PROVE  /\ IsRange(c.box)
         /\ \A x, y \in Int : Holds(c, x, y) <=>
              Square(c.x - x) + Square(c.y - y) <= Measure(c.radius, c.squared)
         /\ \A x, y \in Int : Holds(c, x, y) => /\ c.box.minX <= x /\ x <= c.box.maxX
                                                /\ c.box.minY <= y /\ y <= c.box.maxY
<1>1. IsRange(c.box)
  BY DEF IsPlaneCircle, IsRange, Rect
<1>2. ASSUME NEW x \in Int, NEW y \in Int
      PROVE  Holds(c, x, y) <=> Square(c.x - x) + Square(c.y - y) <= Measure(c.radius, c.squared)
  BY DEF Holds, Contains, SquareDistance, IsPlaneCircle
<1>3. ASSUME NEW x \in Int, NEW y \in Int, Holds(c, x, y)
      PROVE  /\ c.box.minX <= x /\ x <= c.box.maxX
             /\ c.box.minY <= y /\ y <= c.box.maxY
  <2>1. c.x - x \in Int /\ c.y - y \in Int /\ c.radius \in Nat /\ c.x \in Int /\ c.y \in Int
    BY DEF IsPlaneCircle
  <2>2. Square(c.x - x) + Square(c.y - y) <= Measure(c.radius, c.squared)
    BY <1>2, <1>3
  <2>3. /\ -c.radius <= c.x - x /\ c.x - x <= c.radius
        /\ -c.radius <= c.y - y /\ c.y - y <= c.radius
    BY <2>1, <2>2, WithinRadius
  <2> QED BY <2>1, <2>3 DEF IsPlaneCircle, Rect
<1> QED BY <1>1, <1>2, <1>3

LEMMA RangePoints ==
  ASSUME NEW r, IsRange(r), NEW x \in Int, NEW y \in Int
  PROVE  Holds(r, x, y) <=> r.minX <= x /\ x <= r.maxX /\ r.minY <= y /\ y <= r.maxY
<1>1. ~IsCircle(r) /\ ~CrossesDateLine(r) /\ ~(r.minX > r.maxX)
  BY DEF IsRange, Rect, IsCircle, CrossesDateLine
<1>2. Point(x, y).minX = x /\ Point(x, y).minY = y
  BY DEF Point
<1> QED BY <1>1, <1>2 DEF Holds, RelateRectPoint, IsRange

(* The point of a rectangle that is closest to the centre tells whether the*)
(* two are apart; on an axis of the circle its box says the same.          *)
LEMMA ApartOrNot ==
  ASSUME NEW c, NEW r, IsPlaneCircle(c), IsRange(r)
  PROVE  LET x == Closest(c.x, r.minX, r.maxX)
             y == Closest(c.y, r.minY, r.maxY)
         IN  /\ x \in r.minX..r.maxX /\ y \in r.minY..r.maxY
             /\ IsApart(c, x, y) => ~\E g \in Int \X Int : Holds(c, g[1], g[2]) /\ Holds(r, g[1], g[2])
             /\ ~IsApart(c, x, y) /\ ~c.squared => Holds(c, x, y)
<1> DEFINE x == Closest(c.x, r.minX, r.maxX)
           y == Closest(c.y, r.minY, r.maxY)
           d == Measure(c.radius, c.squared)
<1>1. /\ c.x \in Int /\ c.y \in Int /\ c.radius \in Nat
      /\ c.box = Rect(c.x - c.radius, c.x + c.radius, c.y - c.radius, c.y + c.radius)
  BY DEF IsPlaneCircle
<1>2. /\ x \in r.minX..r.maxX /\ y \in r.minY..r.maxY
      /\ \A z \in r.minX..r.maxX : Square(c.x - x) <= Square(c.x - z)
      /\ \A z \in r.minY..r.maxY : Square(c.y - y) <= Square(c.y - z)
      /\ x \in Int /\ y \in Int
  <2>1. /\ r.minX \in Int /\ r.maxX \in Int /\ r.minX <= r.maxX
        /\ r.minY \in Int /\ r.maxY \in Int /\ r.minY <= r.maxY
    BY DEF IsRange
  <2>2. x \in r.minX..r.maxX /\ \A z \in r.minX..r.maxX : Square(c.x - x) <= Square(c.x - z)
    BY <1>1, <2>1, ClosestIsClosest
  <2>3. y \in r.minY..r.maxY /\ \A z \in r.minY..r.maxY : Square(c.y - y) <= Square(c.y - z)
    BY <1>1, <2>1, ClosestIsClosest
  <2> HIDE DEF x, y
  <2> QED BY <2>1, <2>2, <2>3
<1> HIDE DEF x, y
<1>3. d \in Int /\ \A a \in Int : Square(a) \in Nat /\ Square(a) = a * a
  BY <1>1, SquareFacts DEF Measure
<1>4. Holds(c, x, y) <=> Square(c.x - x) + Square(c.y - y) <= d
  <2>1. x \in Int /\ y \in Int
    BY <1>2
  <2>2. \A a, b \in Int : Holds(c, a, b) <=> Square(c.x - a) + Square(c.y - b) <= d
    BY CirclePoints
  <2> QED BY <2>1, <2>2
<1>5. Contains(c, x, y) <=> Holds(c, x, y)
  BY DEF Holds, IsPlaneCircle
<1>6. c.box.minX = c.x - c.radius /\ c.box.maxX = c.x + c.radius
      /\ c.box.minY = c.y - c.radius /\ c.box.maxY = c.y + c.radius
  BY <1>1 DEF Rect
<1>7. ASSUME IsApart(c, x, y) PROVE ~Holds(c, x, y)
  <2>1. ASSUME Holds(c, x, y)
        PROVE  /\ c.box.minX <= x /\ x <= c.box.maxX
               /\ c.box.minY <= y /\ y <= c.box.maxY
    BY <1>2, <2>1, CirclePoints
  <2> QED BY <1>1, <1>2, <1>5, <1>6, <1>7, <2>1 DEF IsApart
<1>8. ASSUME NEW g \in Int \X Int, Holds(c, g[1], g[2]), Holds(r, g[1], g[2])
      PROVE  Holds(c, x, y)
  <2>1. g[1] \in Int /\ g[2] \in Int
    OBVIOUS
  <2>2. g[1] \in r.minX..r.maxX /\ g[2] \in r.minY..r.maxY
    BY <1>8, <2>1, RangePoints DEF IsRange
  <2>3. Square(c.x - g[1]) + Square(c.y - g[2]) <= d
    BY <1>8, <2>1, CirclePoints
  <2>4. Square(c.x - x) <= Square(c.x - g[1]) /\ Square(c.y - y) <= Square(c.y - g[2])
    BY <1>2, <2>2
  <2>5. /\ Square(c.x - x) \in Nat /\ Square(c.y - y) \in Nat
        /\ Square(c.x - g[1]) \in Nat /\ Square(c.y - g[2]) \in Nat
    BY <1>1, <1>2, <1>3, <2>1
  <2> QED BY <1>3, <1>4, <2>3, <2>4, <2>5
<1>9. ASSUME ~IsApart(c, x, y), ~c.squared PROVE Holds(c, x, y)
  <2>1. d = c.radius * c.radius
    BY <1>3, <1>9 DEF Measure, Square
  <2>2. CASE c.x = x
    <3>1. -c.radius <= c.y - y /\ c.y - y <= c.radius
      BY <1>1, <1>2, <1>6, <1>9, <2>2 DEF IsApart
    <3>2. c.y - y \in Int /\ c.x - x = 0
      BY <1>1, <1>2, <2>2
    <3>3. (c.y - y) * (c.y - y) <= c.radius * c.radius
      BY <1>1, <3>1, <3>2, SquaresGrow
    <3>4. Square(c.y - y) <= d /\ Square(c.x - x) = 0
      BY <2>1, <3>2, <3>3 DEF Square
    <3>5. Square(c.y - y) \in Int
      BY <1>3, <3>2
    <3> QED BY <1>3, <1>4, <3>4, <3>5
  <2>3. CASE c.x # x /\ c.y = y
    <3>1. -c.radius <= c.x - x /\ c.x - x <= c.radius
      BY <1>1, <1>2, <1>6, <1>9, <2>3 DEF IsApart
    <3>2. c.x - x \in Int /\ c.y - y = 0
      BY <1>1, <1>2, <2>3
    <3>3. (c.x - x) * (c.x - x) <= c.radius * c.radius
      BY <1>1, <3>1, <3>2, SquaresGrow
    <3>4. Square(c.x - x) <= d /\ Square(c.y - y) = 0
      BY <2>1, <3>2, <3>3 DEF Square
    <3>5. Square(c.x - x) \in Int
      BY <1>3, <3>2
    <3> QED BY <1>3, <1>4, <3>4, <3>5
  <2>4. CASE c.x # x /\ c.y # y
    BY <1>5, <1>9, <2>4 DEF IsApart
  <2> QED BY <2>2, <2>3, <2>4
<1> QED BY <1>2, <1>7, <1>8, <1>9 DEF x, y

(* What relate() answers for a circle and a rectangle.                     *)
LEMMA CircleRectRelate ==
  ASSUME NEW c, NEW r, IsPlaneCircle(c), IsRange(r), WithinReach(c.box), WithinReach(r)
  PROVE  RelatesAsPointSets(c, r)
<1> DEFINE b == c.box
           rel == RelateCircleRect(c, r)
           rb == RelateRects(b, r)
           x == Closest(c.x, r.minX, r.maxX)
           y == Closest(c.y, r.minY, r.maxY)
           fx == Farthest(c.x, r.minX, r.maxX)
           fy == Farthest(c.y, r.minY, r.maxY)
           H(s, g) == Holds(s, g[1], g[2])
<1>1. /\ c.x \in Int /\ c.y \in Int /\ c.radius \in Nat
      /\ r.minX \in Int /\ r.maxX \in Int /\ r.minX <= r.maxX
      /\ r.minY \in Int /\ r.maxY \in Int /\ r.minY <= r.maxY
      /\ b.minX = c.x - c.radius /\ b.maxX = c.x + c.radius
      /\ b.minY = c.y - c.radius /\ b.maxY = c.y + c.radius
  BY DEF IsPlaneCircle, IsRange, Rect
<1>2. \A g \in Grid : g \in Int \X Int /\ g[1] \in Int /\ g[2] \in Int
  BY ReachAssumption DEF Grid
<1>3. /\ IsRange(b)
      /\ \A u, v \in Int : Holds(c, u, v) =>
           b.minX <= u /\ u <= b.maxX /\ b.minY <= v /\ v <= b.maxY
  BY CirclePoints
<1>4. \A u, v \in Int : Holds(r, u, v) <=>
        r.minX <= u /\ u <= r.maxX /\ r.minY <= v /\ v <= r.maxY
  BY RangePoints
<1>5. \A u, v \in Int : (Holds(r, u, v) \/ Holds(c, u, v)) => << u, v >> \in Grid
  <2>1. /\ r.minX \in -Reach..Reach /\ r.maxX \in -Reach..Reach
        /\ r.minY \in -Reach..Reach /\ r.maxY \in -Reach..Reach
        /\ b.minX \in -Reach..Reach /\ b.maxX \in -Reach..Reach
        /\ b.minY \in -Reach..Reach /\ b.maxY \in -Reach..Reach
    BY DEF WithinReach
  <2>2. ASSUME NEW u \in Int, NEW v \in Int, Holds(r, u, v) \/ Holds(c, u, v)
        PROVE  u \in -Reach..Reach /\ v \in -Reach..Reach
    <3>1. CASE Holds(r, u, v)
      <4>1. r.minX <= u /\ u <= r.maxX /\ r.minY <= v /\ v <= r.maxY
        BY <1>4, <2>2, <3>1
      <4> QED BY <2>1, <4>1, ReachAssumption
    <3>2. CASE Holds(c, u, v)
      <4>1. b.minX <= u /\ u <= b.maxX /\ b.minY <= v /\ v <= b.maxY
        BY <1>3, <2>2, <3>2
      <4> QED BY <2>1, <4>1, ReachAssumption
    <3> QED BY <2>2, <3>1, <3>2
  <2> QED BY <2>2 DEF Grid
<1>6. /\ x \in Int /\ y \in Int /\ Holds(r, x, y)
      /\ IsApart(c, x, y) => ~\E g \in Grid : H(c, g) /\ H(r, g)
      /\ ~IsApart(c, x, y) /\ ~c.squared => Holds(c, x, y)
  <2>1. /\ x \in r.minX..r.maxX /\ y \in r.minY..r.maxY
        /\ IsApart(c, x, y) => ~\E g \in Int \X Int : H(c, g) /\ H(r, g)
        /\ ~IsApart(c, x, y) /\ ~c.squared => Holds(c, x, y)
    BY ApartOrNot
  <2> HIDE DEF x, y
  <2> QED BY <1>1, <1>2, <1>4, <2>1
<1>7. /\ fx \in Int /\ fy \in Int /\ Holds(r, fx, fy)
      /\ Contains(c, fx, fy) <=> Holds(c, fx, fy)
      /\ Holds(c, fx, fy) => \A g \in Grid : H(r, g) => H(c, g)
  <2>1. fx \in r.minX..r.maxX /\ \A z \in r.minX..r.maxX : Square(c.x - z) <= Square(c.x - fx)
    BY <1>1, FarthestIsFarthest
  <2>2. fy \in r.minY..r.maxY /\ \A z \in r.minY..r.maxY : Square(c.y - z) <= Square(c.y - fy)
    BY <1>1, FarthestIsFarthest
  <2> HIDE DEF fx, fy
  <2>3. fx \in Int /\ fy \in Int /\ Holds(r, fx, fy)
    BY <1>1, <1>4, <2>1, <2>2
  <2>4. Contains(c, fx, fy) <=> Holds(c, fx, fy)
    BY DEF Holds, IsPlaneCircle
  <2>5. ASSUME Holds(c, fx, fy), NEW g \in Grid, H(r, g) PROVE H(c, g)
    <3> DEFINE d == Measure(c.radius, c.squared)
    <3>1. \A u, v \in Int : Holds(c, u, v) <=> Square(c.x - u) + Square(c.y - v) <= d
      BY CirclePoints
    <3>2. d \in Int /\ \A a \in Int : Square(a) \in Nat
      BY <1>1, SquareFacts DEF Measure
    <3> HIDE DEF d
    <3>3. g[1] \in Int /\ g[2] \in Int
      BY <1>2
    <3>4. g[1] \in r.minX..r.maxX /\ g[2] \in r.minY..r.maxY
      BY <1>1, <1>4, <2>5, <3>3
    <3>5. Square(c.x - g[1]) <= Square(c.x - fx) /\ Square(c.y - g[2]) <= Square(c.y - fy)
      BY <2>1, <2>2, <3>4
    <3>6. Square(c.x - fx) + Square(c.y - fy) <= d
      BY <2>3, <2>5, <3>1
    <3>7. /\ Square(c.x - g[1]) \in Nat /\ Square(c.y - g[2]) \in Nat
          /\ Square(c.x - fx) \in Nat /\ Square(c.y - fy) \in Nat
      BY <1>1, <2>3, <3>2, <3>3
    <3> QED BY <3>1, <3>2, <3>3, <3>5, <3>6, <3>7
  <2> QED BY <2>3, <2>4, <2>5
<1>8. /\ rb \in {"DISJOINT", "WITHIN", "CONTAINS", "INTERSECTS"}
      /\ rb = "DISJOINT" <=> \/ r.minX > b.maxX \/ r.maxX < b.minX
                             \/ r.minY > b.maxY \/ r.maxY < b.minY
      /\ rb = "WITHIN" => Inside(b, r)
      /\ rb = "CONTAINS" <=> Inside(r, b)
      /\ Inside(b, r) => rb = "WITHIN" \/ b = r
  BY <1>3, RangesRelate
<1>9. rel = IF      rb \in {"DISJOINT", "WITHIN"} THEN rb
            ELSE IF rb = "CONTAINS" /\ b = r      THEN "WITHIN"
            ELSE IF IsApart(c, x, y)              THEN "DISJOINT"
            ELSE IF rb = "CONTAINS" /\ Contains(c, fx, fy) THEN "CONTAINS" ELSE "INTERSECTS"
  BY DEF RelateCircleRect, RelateCorners
<1> HIDE DEF b, rel, rb, x, y, fx, fy
<1>10. Inside(b, b)
  BY <1>1 DEF Inside
<1>11. ASSUME rel = "DISJOINT", NEW g \in Grid, H(c, g), H(r, g) PROVE FALSE
  <2>1. ~IsApart(c, x, y)
    BY <1>6, <1>11
  <2>2. rb = "DISJOINT"
    BY <1>9, <1>11, <2>1
  <2>3. g[1] \in Int /\ g[2] \in Int
    BY <1>2
  <2>4. /\ b.minX <= g[1] /\ g[1] <= b.maxX /\ b.minY <= g[2] /\ g[2] <= b.maxY
        /\ r.minX <= g[1] /\ g[1] <= r.maxX /\ r.minY <= g[2] /\ g[2] <= r.maxY
    BY <1>3, <1>4, <1>11, <2>3
  <2> QED BY <1>1, <1>8, <2>2, <2>3, <2>4
<1>12. ASSUME rel = "WITHIN", NEW g \in Grid, H(c, g) PROVE H(r, g)
  <2>1. Inside(b, r)
    BY <1>8, <1>9, <1>10, <1>12
  <2>2. g[1] \in Int /\ g[2] \in Int
    BY <1>2
  <2>3. b.minX <= g[1] /\ g[1] <= b.maxX /\ b.minY <= g[2] /\ g[2] <= b.maxY
    BY <1>3, <1>12, <2>2
  <2>4. r.minX <= g[1] /\ g[1] <= r.maxX /\ r.minY <= g[2] /\ g[2] <= r.maxY
    BY <1>1, <2>1, <2>2, <2>3 DEF Inside
  <2> QED BY <1>4, <2>2, <2>4
<1>13. ASSUME rel = "CONTAINS" PROVE \A g \in Grid : H(r, g) => H(c, g)
  BY <1>7, <1>9, <1>13
<1>14. ASSUME rel = "INTERSECTS", ~c.squared
       PROVE  /\ \E g \in Grid : H(c, g) /\ H(r, g)
              /\ \E g \in Grid : H(c, g) /\ ~H(r, g)
              /\ \E g \in Grid : H(r, g) /\ ~H(c, g)
  <2>1. /\ rb \notin {"DISJOINT", "WITHIN"} /\ ~(rb = "CONTAINS" /\ b = r)
        /\ ~IsApart(c, x, y) /\ ~(rb = "CONTAINS" /\ Contains(c, fx, fy))
    BY <1>9, <1>14
  <2>2. \E g \in Grid : H(c, g) /\ H(r, g)
    <3>1. Holds(c, x, y) /\ Holds(r, x, y) /\ << x, y >> \in Grid
      BY <1>5, <1>6, <1>14, <2>1
    <3> QED BY <3>1
  <2>3. \E g \in Grid : H(c, g) /\ ~H(r, g)
    <3>1. ~Inside(b, r)
      <4>1. b = r => rb = "CONTAINS"
        BY <1>8, <1>10
      <4> QED BY <1>8, <2>1, <4>1
    <3>2. ASSUME NEW u \in Int, NEW v \in Int,
                 \/ u \in {c.x - c.radius, c.x + c.radius} /\ v = c.y
                 \/ u = c.x /\ v \in {c.y - c.radius, c.y + c.radius}
          PROVE  Holds(c, u, v)
      <4>1. Holds(c, u, v) <=> Square(c.x - u) + Square(c.y - v) <= Square(c.radius)
        BY <1>14, CirclePoints DEF Measure
      <4>2. \/ c.x - u \in {c.radius, -c.radius} /\ c.y - v = 0
            \/ c.x - u = 0 /\ c.y - v \in {c.radius, -c.radius}
        BY <1>1, <3>2
      <4>3. Square(0) = 0 /\ Square(-c.radius) = Square(c.radius) /\ Square(c.radius) \in Nat
        BY <1>1, SquareFacts
      <4>4. Square(c.x - u) + Square(c.y - v) = Square(c.radius)
        BY <4>2, <4>3
      <4> QED BY <4>1, <4>3, <4>4
    <3>3. PICK u \in Int, v \in Int : Holds(c, u, v) /\ ~Holds(r, u, v)
      <4>1. CASE r.minX > b.minX
        <5>1. c.x - c.radius \in Int /\ c.y \in Int
          BY <1>1
        <5>2. Holds(c, c.x - c.radius, c.y)
          BY <3>2, <5>1
        <5>3. ~Holds(r, c.x - c.radius, c.y)
          BY <1>1, <1>4, <4>1, <5>1
        <5> QED BY <5>1, <5>2, <5>3
      <4>2. CASE b.maxX > r.maxX
        <5>1. c.x + c.radius \in Int /\ c.y \in Int
          BY <1>1
        <5>2. Holds(c, c.x + c.radius, c.y)
          BY <3>2, <5>1
        <5>3. ~Holds(r, c.x + c.radius, c.y)
          BY <1>1, <1>4, <4>2, <5>1
        <5> QED BY <5>1, <5>2, <5>3
      <4>3. CASE r.minY > b.minY
        <5>1. c.x \in Int /\ c.y - c.radius \in Int
          BY <1>1
        <5>2. Holds(c, c.x, c.y - c.radius)
          BY <3>2, <5>1
        <5>3. ~Holds(r, c.x, c.y - c.radius)
          BY <1>1, <1>4, <4>3, <5>1
        <5> QED BY <5>1, <5>2, <5>3
      <4>4. CASE b.maxY > r.maxY
        <5>1. c.x \in Int /\ c.y + c.radius \in Int
          BY <1>1
        <5>2. Holds(c, c.x, c.y + c.radius)
          BY <3>2, <5>1
        <5>3. ~Holds(r, c.x, c.y + c.radius)
          BY <1>1, <1>4, <4>4, <5>1
        <5> QED BY <5>1, <5>2, <5>3
      <4> QED BY <1>1, <3>1, <4>1, <4>2, <4>3, <4>4 DEF Inside
    <3>4. << u, v >> \in Grid
      BY <1>5, <3>3
    <3> QED BY <3>3, <3>4
  <2>4. \E g \in Grid : H(r, g) /\ ~H(c, g)
    <3>1. CASE rb = "CONTAINS"
      <4>1. Holds(r, fx, fy) /\ ~Holds(c, fx, fy) /\ << fx, fy >> \in Grid
        BY <1>5, <1>7, <2>1, <3>1
      <4> QED BY <4>1
    <3>2. CASE rb # "CONTAINS"
      <4>1. ~Inside(r, b)
        BY <1>8, <3>2
      <4>2. /\ Holds(r, r.minX, r.minY) /\ Holds(r, r.maxX, r.maxY)
            /\ << r.minX, r.minY >> \in Grid /\ << r.maxX, r.maxY >> \in Grid
        BY <1>1, <1>4, <1>5
      <4>3. ~Holds(c, r.minX, r.minY) \/ ~Holds(c, r.maxX, r.maxY)
        <5> SUFFICES ASSUME Holds(c, r.minX, r.minY), Holds(c, r.maxX, r.maxY) PROVE FALSE
          OBVIOUS
        <5>1. b.minX <= r.minX /\ r.maxX <= b.maxX /\ b.minY <= r.minY /\ r.maxY <= b.maxY
          BY <1>1, <1>3
        <5> QED BY <4>1, <5>1 DEF Inside
      <4> QED BY <4>2, <4>3
    <3> QED BY <3>1, <3>2
  <2> QED BY <2>2, <2>3, <2>4
<1>15. rel \in {"DISJOINT", "WITHIN", "CONTAINS", "INTERSECTS"}
  BY <1>8, <1>9
<1> QED BY <1>11, <1>12, <1>13, <1>14, <1>15 DEF RelatesAsPointSets, rel

(* A circle whose centre is no farther from another's than the radii differ*)
(* lies inside.                                                            *)
LEMMA CircleInside ==
  ASSUME NEW a, NEW b, IsPlaneCircle(a), IsPlaneCircle(b), ~a.squared, ~b.squared,
         b.radius <= a.radius,
         SquareDistance(a.x, a.y, b.x, b.y) <= Square(a.radius - b.radius),
         NEW u \in Int, NEW v \in Int, Holds(b, u, v)
  PROVE  Holds(a, u, v)
<1>1. /\ a.x \in Int /\ a.y \in Int /\ a.radius \in Nat
      /\ b.x \in Int /\ b.y \in Int /\ b.radius \in Nat
  BY DEF IsPlaneCircle
<1> DEFINE p == a.x - b.x
           q == a.y - b.y
           s == b.x - u
           t == b.y - v
           m == a.radius - b.radius
           n == b.radius
<1>2. /\ p \in Int /\ q \in Int /\ s \in Int /\ t \in Int /\ m \in Nat /\ n \in Nat
      /\ p + s = a.x - u /\ q + t = a.y - v /\ m + n = a.radius
  BY <1>1
<1>3. p * p + q * q <= m * m
  BY DEF SquareDistance, Square
<1>4. s * s + t * t <= n * n
  <2>1. Square(s) + Square(t) <= Square(n)
    BY CirclePoints DEF Measure
  <2> QED BY <2>1 DEF Square
<1> HIDE DEF p, q, s, t, m, n
<1>5. (p + s) * (p + s) + (q + t) * (q + t) <= (m + n) * (m + n)
  BY <1>2, <1>3, <1>4, Triangle
<1>6. Square(a.x - u) + Square(a.y - v) <= Square(a.radius)
  BY <1>2, <1>5 DEF Square
<1> QED BY <1>6, CirclePoints DEF Measure

(* Circles farther apart than their radii reach have no point in common.   *)
LEMMA CirclesApart ==
  ASSUME NEW a, NEW b, IsPlaneCircle(a), IsPlaneCircle(b), ~a.squared, ~b.squared,
         NEW u \in Int, NEW v \in Int, Holds(a, u, v), Holds(b, u, v)
  PROVE  SquareDistance(a.x, a.y, b.x, b.y) <= Square(a.radius + b.radius)
<1>1. /\ a.x \in Int /\ a.y \in Int /\ a.radius \in Nat
      /\ b.x \in Int /\ b.y \in Int /\ b.radius \in Nat
  BY DEF IsPlaneCircle
<1> DEFINE p == a.x - u
           q == a.y - v
           s == u - b.x
           t == v - b.y
           m == a.radius
           n == b.radius
<1>2. /\ p \in Int /\ q \in Int /\ s \in Int /\ t \in Int /\ m \in Nat /\ n \in Nat
      /\ p + s = a.x - b.x /\ q + t = a.y - b.y
      /\ s = -(b.x - u) /\ t = -(b.y - v) /\ b.x - u \in Int /\ b.y - v \in Int
  BY <1>1
<1>3. p * p + q * q <= m * m
  <2>1. Square(p) + Square(q) <= Square(m)
    BY CirclePoints DEF Measure
  <2> QED BY <2>1 DEF Square
<1>4. s * s + t * t <= n * n
  <2>1. Square(b.x - u) + Square(b.y - v) <= Square(n)
    BY CirclePoints DEF Measure
  <2> HIDE DEF s, t
  <2>2. Square(s) = Square(b.x - u) /\ Square(t) = Square(b.y - v)
    BY <1>2, SquareFacts
  <2> QED BY <2>1, <2>2 DEF Square
<1> HIDE DEF p, q, s, t
<1>5. (p + s) * (p + s) + (q + t) * (q + t) <= (m + n) * (m + n)
  BY <1>2, <1>3, <1>4, Triangle
<1> QED BY <1>2, <1>5 DEF SquareDistance, Square

LEMMA CirclesRelate ==
  ASSUME NEW a, NEW b, IsPlaneCircle(a), IsPlaneCircle(b), ~a.squared, b.squared = a.squared
  PROVE  RelatesAsCircles(a, b)
<1> DEFINE square == SquareDistance(a.x, a.y, b.x, b.y)
           Fits(c, d) == /\ IsLess(square, d.radius, FALSE)
                         /\ Reaches(square, c.radius, d.radius, FALSE)
           H(s, g) == Holds(s, g[1], g[2])
<1>1. /\ a.x \in Int /\ a.y \in Int /\ a.radius \in Nat
      /\ b.x \in Int /\ b.y \in Int /\ b.radius \in Nat
      /\ a = MakeCircle(Point(a.x, a.y), a.radius, a.squared)
      /\ b = MakeCircle(Point(b.x, b.y), b.radius, b.squared)
  BY DEF IsPlaneCircle
<1>2. \A g \in Grid : g[1] \in Int /\ g[2] \in Int
  BY ReachAssumption DEF Grid
<1>3. square \in Nat /\ square = SquareDistance(b.x, b.y, a.x, a.y)
  <2>1. Square(a.x - b.x) \in Nat /\ Square(a.y - b.y) \in Nat
    BY <1>1, SquareFacts
  <2>2. Square(a.x - b.x) = Square(b.x - a.x) /\ Square(a.y - b.y) = Square(b.y - a.y)
    BY <1>1 DEF Square
  <2> QED BY <2>1, <2>2 DEF SquareDistance
<1>4. /\ RelateCircles(a, b) = IF      square > Square(a.radius + b.radius) THEN "DISJOINT"
                               ELSE IF Fits(b, a) THEN "CONTAINS"
                               ELSE IF Fits(a, b) THEN "WITHIN"
                               ELSE "INTERSECTS"
      /\ RelateCircles(b, a) = IF      square > Square(a.radius + b.radius) THEN "DISJOINT"
                               ELSE IF Fits(a, b) THEN "CONTAINS"
                               ELSE IF Fits(b, a) THEN "WITHIN"
                               ELSE "INTERSECTS"
  <2>1. a.radius + b.radius = b.radius + a.radius
    BY <1>1
  <2>2. \A d \in Int : Measure(d, a.squared) = Square(d) /\ Measure(d, b.squared) = Square(d)
    BY DEF Measure
  <2>3. \A n, d : /\ IsLess(n, d, a.squared) = IsLess(n, d, FALSE)
                  /\ IsLess(n, d, b.squared) = IsLess(n, d, FALSE)
    BY DEF IsLess, Measure
  <2>4. \A n, e, d : /\ Reaches(n, e, d, a.squared) = Reaches(n, e, d, FALSE)
                     /\ Reaches(n, e, d, b.squared) = Reaches(n, e, d, FALSE)
    BY DEF Reaches
  <2>5. a.radius + b.radius \in Int
    BY <1>1
  <2> HIDE DEF square
  <2>6. RelateCircles(a, b) = IF      square > Square(a.radius + b.radius) THEN "DISJOINT"
                              ELSE IF Fits(b, a) THEN "CONTAINS"
                              ELSE IF Fits(a, b) THEN "WITHIN"
                              ELSE "INTERSECTS"
    BY <2>2, <2>3, <2>4, <2>5 DEF RelateCircles, square
  <2>7. RelateCircles(b, a) = IF      square > Square(a.radius + b.radius) THEN "DISJOINT"
                              ELSE IF Fits(a, b) THEN "CONTAINS"
                              ELSE IF Fits(b, a) THEN "WITHIN"
                              ELSE "INTERSECTS"
    BY <1>3, <2>1, <2>2, <2>3, <2>4, <2>5 DEF RelateCircles
  <2> QED BY <2>6, <2>7
<1>5. Fits(b, a) => b.radius <= a.radius /\ square <= Square(a.radius - b.radius)
  BY DEF Reaches
<1>6. Fits(a, b) => a.radius <= b.radius /\ square <= Square(b.radius - a.radius)
  BY DEF Reaches
<1>7. ASSUME Fits(a, b), Fits(b, a) PROVE a = b
  <2>1. a.radius = b.radius
    BY <1>1, <1>5, <1>6, <1>7
  <2>2. square <= 0
    BY <1>1, <1>5, <1>7, <2>1 DEF Square
  <2>3. a.x - b.x = 0 /\ a.y - b.y = 0
    <3>1. /\ a.x - b.x \in Int /\ Square(a.x - b.x) \in Nat
          /\ a.y - b.y \in Int /\ Square(a.y - b.y) \in Nat
      BY <1>1, SquareFacts
    <3>2. Square(a.x - b.x) <= 0 /\ Square(a.y - b.y) <= 0
      BY <2>2, <3>1 DEF SquareDistance
    <3>3. \A n \in Int : n * n <= 0 * 0 => -0 <= n /\ n <= 0
      BY SquareRoots
    <3> QED BY <3>1, <3>2, <3>3 DEF Square
  <2>4. a.x = b.x /\ a.y = b.y
    BY <1>1, <2>3
  <2> QED BY <1>1, <2>1, <2>4
<1>8. ASSUME NEW g \in Grid, H(a, g), H(b, g) PROVE ~(square > Square(a.radius + b.radius))
  <2>1. square <= Square(a.radius + b.radius)
    BY <1>2, <1>8, CirclesApart
  <2>2. Square(a.radius + b.radius) \in Int
    BY <1>1, SquareFacts
  <2> QED BY <1>3, <2>1, <2>2
<1>9. ASSUME Fits(b, a), NEW g \in Grid, H(b, g) PROVE H(a, g)
  BY <1>2, <1>5, <1>9, CircleInside
<1>10. ASSUME Fits(a, b), NEW g \in Grid, H(a, g) PROVE H(b, g)
  BY <1>2, <1>3, <1>6, <1>10, CircleInside
<1> HIDE DEF square, Fits
<1>11. RelateCircles(b, a) = Transpose(RelateCircles(a, b)) \/ b = a
  BY <1>4, <1>7 DEF Transpose
<1>12. RelateCircles(a, b) = "DISJOINT" => ~\E g \in Grid : H(a, g) /\ H(b, g)
  BY <1>4, <1>8
<1>13. RelateCircles(a, b) = "CONTAINS" => \A g \in Grid : H(b, g) => H(a, g)
  BY <1>4, <1>9
<1>14. RelateCircles(a, b) = "WITHIN" => \A g \in Grid : H(a, g) => H(b, g)
  BY <1>4, <1>10
<1> QED BY <1>4, <1>11, <1>12, <1>13, <1>14 DEF RelatesAsCircles

(* The circles of any queries relate to any rectangles and circles of the  *)
(* plane as the sets of points do.                                         *)
THEOREM CirclesRelateRight == Spec => []CirclesRelateAsPointSets
<1>1. ASSUME NEW c \in { q.shape : q \in Queries }, IsCircle(c)
      PROVE  IsPlaneCircle(c) /\ WithinReach(c.box) /\ c.squared \in BOOLEAN
  <2>1. PICK q \in Queries : c = q.shape
    OBVIOUS
  <2>2. /\ c.x \in Int /\ c.y \in Int /\ c.radius \in Nat
        /\ c = MakeCircle(Point(c.x, c.y), c.radius, q.squared)
        /\ q.squared \in BOOLEAN
    BY <1>1, <2>1, QueriesAssumption DEF IsCircle
  <2>3. IsPlaneCircle(c) /\ c.squared \in BOOLEAN
    BY <2>2, CirclesAreMade
  <2>4. WithinReach(c.box)
    BY <1>1, <2>1, QueriesWithinReach
  <2> QED BY <2>3, <2>4
<1>2. ASSUME NEW c \in { q.shape : q \in Queries }, IsCircle(c), NEW r \in Rectangles
      PROVE  RelatesAsPointSets(c, r)
  <2>1. WithinReach(r)
    BY RectanglesAssumption
  <2>2. IsRange(r)
    <3>1. /\ r = Rect(r.minX, r.maxX, r.minY, r.maxY)
          /\ r.minX <= r.maxX /\ r.minY <= r.maxY
      BY RectanglesAssumption
    <3>2. r.minX \in Int /\ r.maxX \in Int /\ r.minY \in Int /\ r.maxY \in Int
      BY <2>1, ReachAssumption DEF WithinReach
    <3> QED BY <3>1, <3>2 DEF IsRange
  <2> QED BY <1>1, <1>2, <2>1, <2>2, CircleRectRelate
<1>3. ASSUME NEW c \in { q.shape : q \in Queries }, IsCircle(c), ~c.squared, NEW b \in OtherCircles
      PROVE  RelatesAsCircles(c, b)
  <2>1. IsPlaneCircle(b) /\ b.squared = FALSE
    BY OtherCirclesAssumption, CirclesAreMade
  <2>2. b.squared = c.squared
    BY <1>3, <2>1, <1>1
  <2> QED BY <1>1, <1>3, <2>1, <2>2, CirclesRelate
<1>4. Misjudged = {}
  BY <1>2, <1>3 DEF Misjudged
<1>5. CirclesRelateAsPointSets
  BY <1>4 DEF CirclesRelateAsPointSets
<1> QED BY <1>5, PTL
=============================================================================
