----------------------------- MODULE MultiShape -----------------------------
(***************************************************************************)
(* A collection of shapes (base/shape/MultiShape): the bounding box of its *)
(* constructor and its relate(), which goes through the members in the     *)
(* order of the collection and stops as soon as the answer is known; and,  *)
(* on the way, what relate() of the members answers, compared with the     *)
(* sets of points that the shapes are.                                     *)
(***************************************************************************)
EXTENDS Shapes, FiniteSetsExt

CONSTANTS
  Collections,   \* sets of shapes
  Others         \* the shapes they are related to

(* All the shapes are made by the context, and a collection is finite.  A  *)
(* rectangle short of the whole turn leaves some longitude out, which is   *)
(* true of the code's doubles: no two longitudes used are neighbours here. *)
ASSUME ShapesAssumption ==
  \A s \in Others \cup UNION Collections :
    IsMade(s) /\ (Geo => Width(s) # 2 * HalfTurn - 1)

ASSUME CollectionsAssumption == \A c \in Collections : IsFiniteSet(c)

VARIABLES
  geoms,         \* the members
  other,         \* the argument of relate()
  rest,          \* the members that were not looked at
  allOutside, allContains,
  result         \* the relation returned, or "none"

vars == << geoms, other, rest, allOutside, allContains, result >>

(* Mutant of BoundingBox: the maxima are those of the western and southern *)
(* edges.                                                                  *)
BoundingBoxOfMinima(shapes) ==
  MakeRect(Min({ g.minX : g \in shapes }), Max({0} \cup { g.minX : g \in shapes }),
           Min({ g.minY : g \in shapes }), Max({0} \cup { g.minY : g \in shapes }))

(* The bounding box that the constructor makes: both maxima start at       *)
(* Double.MIN_VALUE, which is just above 0, and both minima at a maximum.  *)
BoundingBox(shapes) ==
  MakeRect(Min({ g.minX : g \in shapes }), Max({0} \cup { g.maxX : g \in shapes }),
           Min({ g.minY : g \in shapes }), Max({0} \cup { g.maxY : g \in shapes }))

Init ==
  /\ geoms \in Collections
  /\ other \in Others
  /\ rest = geoms
  /\ allOutside = TRUE
  /\ allContains = TRUE
  /\ result = "none"

(* Mutant of RelateMember: one member is enough for either answer.         *)
RelateAnyMember ==
  /\ result = "none"
  /\ \E geom \in rest :
       LET sect == Relate(geom, other) IN
         /\ rest' = rest \ {geom}
         /\ allOutside' = (allOutside \/ sect = "DISJOINT")
         /\ allContains' = (allContains \/ sect = "CONTAINS")
  /\ result' = IF allOutside' \/ allContains' THEN "none" ELSE "INTERSECTS"
  /\ UNCHANGED << geoms, other >>

(* The loop's body: the next member's relation, and the short circuit.     *)
RelateMember ==
  /\ result = "none"
  /\ \E geom \in rest :
       LET sect == Relate(geom, other) IN
         /\ rest' = rest \ {geom}
         /\ allOutside' = (allOutside /\ sect = "DISJOINT")
         /\ allContains' = (allContains /\ sect = "CONTAINS")
  /\ result' = IF allOutside' \/ allContains' THEN "none" ELSE "INTERSECTS"
  /\ UNCHANGED << geoms, other >>

(* After the loop.                                                         *)
ReturnRelation ==
  /\ result = "none"
  /\ rest = {}
  /\ result' = IF allOutside THEN "DISJOINT" ELSE "CONTAINS"
  /\ UNCHANGED << geoms, other, rest, allOutside, allContains >>

Next == RelateMember \/ ReturnRelation

Spec == Init /\ [][Next]_vars

(* SpatialRelation.combine().                                              *)
Combine(rel1, rel2) ==
  IF      rel1 = rel2            THEN rel1
  ELSE IF "WITHIN" \in {rel1, rel2} THEN "WITHIN"
  ELSE "INTERSECTS"

-----------------------------------------------------------------------------

(* relate() says how the sets of points lie to each other, wherever the    *)
(* date line is.  For equal shapes "the result might be CONTAINS or WITHIN"*)
(* (SpatialRelation.java:22), and for equal points it is INTERSECTS.       *)
RelationsAreThoseOfPointSets ==
  \A g \in geoms :
    LET rel == Relate(g, other) IN
      /\ rel = "DISJOINT"   <=> ~Touch(g, other)
      /\ rel = "CONTAINS"   =>  Covers(g, other)
      /\ rel = "WITHIN"     =>  Covers(other, g)
      /\ rel = "INTERSECTS" =>  \/ ~Covers(g, other) /\ ~Covers(other, g)
                                \/ g = other /\ IsPoint(g)

(* a.relate(b) and b.relate(a) are transposes unless a equals b, which is  *)
(* what Shape.relate() implementations call each other for.                *)
RelationsTranspose ==
  \A g \in geoms :
    \/ Relate(other, g) = Transpose(Relate(g, other))
    \/ Covers(g, other) /\ Covers(other, g)

(* The centre of a shape is a point of it: the cell of the centre, which   *)
(* every field gets, is one of the cells that the shape touches.           *)
CenterIsInside ==
  \A g \in geoms : Touch(g, Center(g)) /\ Relate(Center(g), g) # "DISJOINT"

(* Whatever the order of the members and wherever the loop stops, the      *)
(* collection is disjoint exactly when it has no point in common with the  *)
(* other shape, and contains it only when every single member does.        *)
MultiShapeIsExact ==
  /\ result = "DISJOINT" => \A g \in geoms : ~Touch(g, other)
  /\ result = "CONTAINS" => \A g \in geoms : Covers(g, other)
  /\ result = "INTERSECTS" => /\ \E g \in geoms : Touch(g, other)
                              /\ \E g \in geoms : Relate(g, other) # "CONTAINS"

(* The bounding box, whose centre is the centre of the collection, holds   *)
(* every member when none of them crosses the date line                    *)
(* (MultiShape.java:40-45).  Each edge of it is that of some member, but   *)
(* the maxima start just above 0: the box of members that all lie west of  *)
(* Greenwich reaches Greenwich, and that of members that all lie south of  *)
(* the equator the equator, and no farther.                                *)
BoxHoldsMembers ==
  LET box == BoundingBox(geoms) IN
    geoms # {} /\ (\A g \in geoms : ~CrossesDateLine(g)) =>
      /\ \A g \in geoms : Covers(box, g)
      /\ \E g \in geoms : g.minX = box.minX
      /\ \E g \in geoms : g.minY = box.minY
      /\ IF \A g \in geoms : g.maxX < 0 THEN box.maxX = 0
                                      ELSE \E g \in geoms : g.maxX = box.maxX
      /\ IF \A g \in geoms : g.maxY < 0 THEN box.maxY = 0
                                      ELSE \E g \in geoms : g.maxY = box.maxY

(* Combining the relations of a shape to two others gives the result "as   *)
(* if bShape & cShape were combined into MultiShape"                       *)
(* (SpatialRelation.java:44): the transpose of what relate() returns.      *)
CombineIsMultiShape ==
  result # "none" =>
    \A b, c \in geoms : geoms = {b, c} =>
      Combine(Relate(other, b), Relate(other, c)) = Transpose(result)
=============================================================================
