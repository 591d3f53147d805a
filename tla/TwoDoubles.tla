----------------------------- MODULE TwoDoubles -----------------------------
(***************************************************************************)
(* TwoDoublesStrategy: points are indexed as two numbers, and searched by  *)
(* ranges of the numbers; a circle also filters by the distance that       *)
(* DistanceValueSource computes.  One call of makeFilter() and the search  *)
(* of one segment with the filter.                                         *)
(***************************************************************************)
EXTENDS Circles, FiniteSetsExt

CONSTANTS
  Segments,     \* what is indexed: of each document the shapes it was given
  Queries       \* SpatialArgs: an operation and a shape; the live documents, and
                \* whether the context's calculator is "cartesian^2"

(* The circles are those of the plane.                                     *)
ASSUME PlaneAssumption == ~Geo

(* A segment numbers its documents; each was given finitely many shapes.   *)
ASSUME SegmentsAssumption ==
  \A seg \in Segments :
    /\ IsFiniteSet(DOMAIN seg) /\ DOMAIN seg = 1..Cardinality(DOMAIN seg)
    /\ \A d \in DOMAIN seg :
         IsFiniteSet(seg[d]) /\ \A s \in seg[d] : IsPoint(s) => IsMade(s)

(* A circle has the calculator of its context; a rectangle may have its    *)
(* edges the wrong way round.                                              *)
ASSUME QueriesAssumption ==
  \A q \in Queries :
    \/ /\ q.shape.kind \in {"point", "rect"}
       /\ q.shape.minX \in Int /\ q.shape.maxX \in Int
       /\ q.shape.minY \in Int /\ q.shape.maxY \in Int
    \/ /\ q.shape.x \in Int /\ q.shape.y \in Int /\ q.shape.radius \in Nat
       /\ q.squared \in BOOLEAN
       /\ q.shape = MakeCircle(Point(q.shape.x, q.shape.y), q.shape.radius, q.squared)

VARIABLES
  segment, args,
  plan,         \* the filter: a range or the query for disjoint ones, and a ring
  doc,          \* the next document to match
  found,        \* the documents that the filter has returned
  pc

vars == << segment, args, plan, doc, found, pc >>

NoPlan == [ query |-> "none", ring |-> FALSE, box |-> Rect(0, 0, 0, 0) ]

Init ==
  /\ segment \in Segments
  /\ args \in Queries
  /\ plan = NoPlan
  /\ doc = 1
  /\ found = {}
  /\ pc = "start"

(* createFields(): anything but a point is refused, or ignored.            *)
Points(d) == { s \in segment[d] : IsPoint(s) }
FieldX(d) == { p.minX : p \in Points(d) }
FieldY(d) == { p.minY : p \in Points(d) }

(* SpatialArgs.getShape(): the box operations look at the bounding box.    *)
QueryShape ==
  IF args.op \in {"BBoxWithin", "BBoxIntersects"} THEN BoundingBox(args.shape) ELSE args.shape

-----------------------------------------------------------------------------
(* makeFilter(): a circle and one of two operations.                       *)
MakeRingFilter ==
  /\ pc = "start"
  /\ IsCircle(QueryShape)
  /\ args.op \in {"Intersects", "IsWithin"}
  /\ plan' = [ query |-> "within", ring |-> TRUE, box |-> QueryShape.box ]
  /\ pc' = "match"
  /\ UNCHANGED << segment, args, doc, found >>

IsSupported ==
  /\ ~IsCircle(QueryShape)
  /\ QueryShape.kind = "rect"
  /\ ~CrossesDateLine(QueryShape)
  /\ args.op \in {"BBoxWithin", "BBoxIntersects", "Intersects", "IsWithin", "IsDisjointTo"}

(* makeQuery().  The query that ranks the results matches all documents.   *)
MakeQuery ==
  /\ pc = "start"
  /\ IsSupported
  /\ plan' = [ query |-> IF args.op = "IsDisjointTo" THEN "disjoint" ELSE "within",
               ring  |-> FALSE,
               box   |-> QueryShape ]
  /\ pc' = "match"
  /\ UNCHANGED << segment, args, doc, found >>

(* makeQuery() throws: InvalidShape, date line, or UnsupportedOperation.   *)
Refuse ==
  /\ pc = "start"
  /\ ~IsSupported
  /\ ~(IsCircle(QueryShape) /\ args.op \in {"Intersects", "IsWithin"})
  /\ pc' = "refused"
  /\ UNCHANGED << segment, args, plan, doc, found >>

-----------------------------------------------------------------------------
(* Mutant of InRange: the bounds are left out.                             *)
InOpenRange(values, lo, hi) == \E v \in values : lo < v /\ v < hi

(* NumericRangeQuery over all values of the field.                         *)
InRange(values, lo, hi) == \E v \in values : lo <= v /\ v <= hi

(* The queries of makeWithin() and of makeDisjoint(): a BooleanQuery with  *)
(* prohibited clauses only matches nothing.                                *)
QueryMatches(d) ==
  /\ plan.query = "within"
  /\ InRange(FieldX(d), plan.box.minX, plan.box.maxX)
  /\ InRange(FieldY(d), plan.box.minY, plan.box.maxY)

(* The cached value of a field with several values is the last one in the  *)
(* order of terms.                                                         *)
Cached(values) == Max(values)

(* DistanceValueSource.doubleVal(), squared: from the centre of the query  *)
(* shape, and 0 for a document without the field.                          *)
SquareVal(d) ==
  IF Points(d) = {} THEN 0
  ELSE SquareDistance(args.shape.x, args.shape.y, Cached(FieldX(d)), Cached(FieldY(d)))

(* Mutant of RingMatches: the upper bound is forgotten.                    *)
RingMatchesOutside(d) == plan.ring => SquareVal(d) > 0

(* ValueSourceFilter.match(): both bounds, 0 and the radius, are left out. *)
RingMatches(d) ==
  plan.ring => /\ SquareVal(d) > 0
               /\ SquareVal(d) < Measure(args.shape.radius, args.squared)

Match ==
  /\ pc = "match"
  /\ doc \in DOMAIN segment
  /\ doc' = doc + 1
  /\ found' = IF doc \in args.acceptDocs /\ QueryMatches(doc) /\ RingMatches(doc)
              THEN found \cup {doc} ELSE found
  /\ UNCHANGED << segment, args, plan, pc >>

Finish ==
  /\ pc = "match"
  /\ doc \notin DOMAIN segment
  /\ pc' = "done"
  /\ UNCHANGED << segment, args, plan, doc, found >>

Next == MakeRingFilter \/ MakeQuery \/ Refuse \/ Match \/ Finish

Spec == Init /\ [][Next]_vars

-----------------------------------------------------------------------------
Meets(p) == RelateAny(QueryShape, p) # "DISJOINT"

(* What ValueSourceFilter.java:55 leaves out: a point at the centre of the *)
(* circle, and one exactly at its radius.                                  *)
AtCentreOrRim(p) ==
  SquareDistance(args.shape.x, args.shape.y, p.minX, p.minY)
    \in {0, Measure(args.shape.radius, args.squared)}

(* A document with one point is returned only when the point lies in the   *)
(* query shape, as Shape.relate() has it, and a document without the       *)
(* field, whose distance counts as 0, or a deleted one never is            *)
(* (TwoDoublesStrategy.java:105, 134-153, DistanceValueSource.java:92).    *)
FoundDocsMatch ==
  \A d \in found :
    /\ d \in args.acceptDocs
    /\ Points(d) # {}
    /\ \A p \in Points(d) : Cardinality(Points(d)) = 1 => Meets(p)

(* What is lost (TwoDoublesStrategy.java:110, 134-156).  A rectangle finds *)
(* every document with a point in it, however many points the document     *)
(* has; a circle finds every document of one point that is neither its     *)
(* centre nor on its rim; IsDisjointTo finds nothing at all.               *)
LostDocs ==
  pc = "done" =>
    IF args.op = "IsDisjointTo" THEN found = {}
    ELSE \A d \in DOMAIN segment \cap args.acceptDocs : \A p \in Points(d) :
           Meets(p) /\ (plan.ring => Cardinality(Points(d)) = 1 /\ ~AtCentreOrRim(p))
             => d \in found
=============================================================================
