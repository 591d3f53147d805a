------------------------- MODULE MultiShape_proofs -------------------------
(***************************************************************************)
(* Proofs about shapes and their collections: relate() of points and       *)
(* rectangles is right on every globe and on the plane, whatever crosses   *)
(* the date line, and so is the loop of MultiShape.                        *)
(***************************************************************************)
EXTENDS MultiShape, TokensAndShapes_proofs

-----------------------------------------------------------------------------
(* The bounding box.                                                       *)

(* What the code's loop finds: the least of the western and southern edges *)
(* and the greatest of the eastern and northern ones, but at least 0.      *)
LEMMA Extremes ==
  ASSUME NEW S, IsFiniteSet(S), S # {}, NEW f \in [S -> Int]
  PROVE  /\ Min({ f[g] : g \in S }) \in Int
         /\ \A g \in S : Min({ f[h] : h \in S }) <= f[g]
         /\ \E g \in S : Min({ f[h] : h \in S }) = f[g]
         /\ Max({0} \cup { f[g] : g \in S }) \in Nat
         /\ \A g \in S : Max({0} \cup { f[h] : h \in S }) >= f[g]
         /\ \/ \E g \in S : Max({0} \cup { f[h] : h \in S }) = f[g]
            \/ Max({0} \cup { f[h] : h \in S }) = 0 /\ \A g \in S : f[g] < 0
<1> DEFINE T == { f[g] : g \in S }
           Z == {0} \cup T
<1>1. T \in SUBSET Int /\ T # {} /\ IsFiniteSet(T)
  <2>1. f \in Surjection(S, T)
    BY DEF Surjection
  <2> QED BY <2>1, FS_Surjection
<1>2. Z \in SUBSET Int /\ Z # {} /\ IsFiniteSet(Z)
  <2>1. IsFiniteSet(T \cup {0})
    BY <1>1, FS_AddElement
  <2>2. Z = T \cup {0}
    OBVIOUS
  <2> QED BY <1>1, <2>1, <2>2
<1>3. \A g \in S : f[g] \in T /\ f[g] \in Z /\ f[g] \in Int
  OBVIOUS
<1>4. \A x \in T : \E g \in S : x = f[g]
  OBVIOUS
<1>5. \A x \in Z : x = 0 \/ x \in T
  OBVIOUS
<1>6. 0 \in Z
  OBVIOUS
<1> HIDE DEF T, Z
<1>7. Min(T) \in T /\ \A y \in T : Min(T) <= y
  BY <1>1, MinOf
<1>8. Max(Z) \in Z /\ \A y \in Z : Max(Z) >= y
  BY <1>2, MaxOf
<1>9. Min(T) \in Int /\ Max(Z) \in Int /\ Max(Z) >= 0
  BY <1>1, <1>2, <1>6, <1>7, <1>8
<1>10. ASSUME ~\E g \in S : Max(Z) = f[g]
       PROVE  Max(Z) = 0 /\ \A g \in S : f[g] < 0
  <2>1. Max(Z) = 0
    BY <1>4, <1>5, <1>8, <1>10
  <2>2. ASSUME NEW g \in S PROVE f[g] < 0
    BY <1>3, <1>8, <1>9, <1>10, <2>1
  <2> QED BY <2>1, <2>2
<1>11. /\ Min(T) \in Int /\ \A g \in S : Min(T) <= f[g]
       /\ \E g \in S : Min(T) = f[g]
       /\ Max(Z) \in Nat /\ \A g \in S : Max(Z) >= f[g]
  BY <1>3, <1>4, <1>7, <1>8, <1>9
<1> QED BY <1>10, <1>11 DEF T, Z

(* Rectangles as sets of points.                                           *)
LEMMA BoxCovers ==
  ASSUME NEW b, NEW g, IsMade(b), IsUsed(g), ~CrossesDateLine(b), ~CrossesDateLine(g),
         b.minX <= g.minX, g.maxX <= b.maxX, b.minY <= g.minY, g.maxY <= b.maxY
  PROVE  Covers(b, g)
<1>1. /\ b.minX \in Int /\ b.maxX \in Int /\ g.minX \in Int /\ g.maxX \in Int
      /\ b.minY \in Int /\ b.maxY \in Int /\ g.minY \in Int /\ g.maxY \in Int
      /\ b.minX + Width(b) = b.maxX /\ g.minX + Width(g) = g.maxX
  BY DEF IsMade, IsUsed, Width
<1>2. g.minX..g.maxX \subseteq b.minX..b.maxX /\ g.minY..g.maxY \subseteq b.minY..b.maxY
  BY <1>1
<1> QED BY <1>1, <1>2 DEF Covers, Longitudes, Latitudes

LEMMA BoxOfUncrossed ==
  ASSUME NEW S \in Collections, S # {}, \A g \in S : IsUsed(g) /\ ~CrossesDateLine(g)
  PROVE  LET box == BoundingBox(S) IN
         /\ IsMade(box) /\ ~CrossesDateLine(box)
         /\ \A g \in S : /\ box.minX <= g.minX /\ g.maxX <= box.maxX
                         /\ box.minY <= g.minY /\ g.maxY <= box.maxY
         /\ \E g \in S : g.minX = box.minX
         /\ \E g \in S : g.minY = box.minY
         /\ box.maxX >= 0 /\ box.maxY >= 0
         /\ (\E g \in S : g.maxX = box.maxX) \/ (box.maxX = 0 /\ \A g \in S : g.maxX < 0)
         /\ (\E g \in S : g.maxY = box.maxY) \/ (box.maxY = 0 /\ \A g \in S : g.maxY < 0)
<1> DEFINE x1 == Min({ g.minX : g \in S })
           x2 == Max({0} \cup { g.maxX : g \in S })
           y1 == Min({ g.minY : g \in S })
           y2 == Max({0} \cup { g.maxY : g \in S })
           box == BoundingBox(S)
<1>1. IsFiniteSet(S)
  BY CollectionsAssumption
<1>2. /\ x1 \in Int /\ (\A g \in S : x1 <= g.minX) /\ \E g \in S : x1 = g.minX
      /\ y1 \in Int /\ (\A g \in S : y1 <= g.minY) /\ \E g \in S : y1 = g.minY
  <2> DEFINE f == [g \in S |-> g.minX]
             h == [g \in S |-> g.minY]
  <2>1. f \in [S -> Int] /\ h \in [S -> Int]
    BY UsedFacts
  <2>2. { f[g] : g \in S } = { g.minX : g \in S } /\ { h[g] : g \in S } = { g.minY : g \in S }
    OBVIOUS
  <2>3. /\ Min({ f[g] : g \in S }) \in Int
        /\ (\A g \in S : Min({ f[k] : k \in S }) <= f[g])
        /\ (\E g \in S : Min({ f[k] : k \in S }) = f[g])
    <3> HIDE DEF f
    <3> QED BY <1>1, <2>1, Extremes
  <2>4. /\ Min({ h[g] : g \in S }) \in Int
        /\ (\A g \in S : Min({ h[k] : k \in S }) <= h[g])
        /\ (\E g \in S : Min({ h[k] : k \in S }) = h[g])
    <3> HIDE DEF h
    <3> QED BY <1>1, <2>1, Extremes
  <2> QED BY <2>2, <2>3, <2>4
<1>3. /\ x2 \in Nat /\ (\A g \in S : x2 >= g.maxX)
      /\ (\E g \in S : x2 = g.maxX) \/ (x2 = 0 /\ \A g \in S : g.maxX < 0)
      /\ y2 \in Nat /\ (\A g \in S : y2 >= g.maxY)
      /\ (\E g \in S : y2 = g.maxY) \/ (y2 = 0 /\ \A g \in S : g.maxY < 0)
  <2> DEFINE f == [g \in S |-> g.maxX]
             h == [g \in S |-> g.maxY]
  <2>1. f \in [S -> Int] /\ h \in [S -> Int]
    BY UsedFacts
  <2>2. { f[g] : g \in S } = { g.maxX : g \in S } /\ { h[g] : g \in S } = { g.maxY : g \in S }
    OBVIOUS
  <2>3. /\ Max({0} \cup { f[g] : g \in S }) \in Nat
        /\ (\A g \in S : Max({0} \cup { f[k] : k \in S }) >= f[g])
        /\ \/ \E g \in S : Max({0} \cup { f[k] : k \in S }) = f[g]
           \/ Max({0} \cup { f[k] : k \in S }) = 0 /\ \A g \in S : f[g] < 0
    <3> HIDE DEF f
    <3> QED BY <1>1, <2>1, Extremes
  <2>4. /\ Max({0} \cup { h[g] : g \in S }) \in Nat
        /\ (\A g \in S : Max({0} \cup { h[k] : k \in S }) >= h[g])
        /\ \/ \E g \in S : Max({0} \cup { h[k] : k \in S }) = h[g]
           \/ Max({0} \cup { h[k] : k \in S }) = 0 /\ \A g \in S : h[g] < 0
    <3> HIDE DEF h
    <3> QED BY <1>1, <2>1, Extremes
  <2> QED BY <2>2, <2>3, <2>4
<1>4. box = MakeRect(x1, x2, y1, y2)
  BY DEF BoundingBox
<1>5. \A g \in S : /\ g.minX \in Int /\ g.maxX \in Int /\ g.minX <= g.maxX
                   /\ g.minY \in Int /\ g.maxY \in Int /\ g.minY <= g.maxY
                   /\ Geo => /\ -HalfTurn <= g.minX /\ g.minX < HalfTurn
                             /\ \/ g.maxX < HalfTurn
                                \/ g.maxX = HalfTurn /\ g.minX = -HalfTurn
  BY HalfTurnAssumption DEF IsUsed, IsMade, CrossesDateLine
<1> HIDE DEF x1, x2, y1, y2, box
<1>6. x1 <= x2 /\ y1 <= y2
  BY <1>2, <1>3, <1>5
<1>7. Geo => /\ -HalfTurn <= x1 /\ x1 < HalfTurn
             /\ x2 < HalfTurn \/ (x2 = HalfTurn /\ x1 = -HalfTurn)
  <2> SUFFICES ASSUME Geo
               PROVE  /\ -HalfTurn <= x1 /\ x1 < HalfTurn
                      /\ x2 < HalfTurn \/ (x2 = HalfTurn /\ x1 = -HalfTurn)
    OBVIOUS
  <2>1. -HalfTurn <= x1 /\ x1 < HalfTurn
    BY <1>2, <1>5, HalfTurnAssumption
  <2>2. ASSUME NEW g \in S, x2 = g.maxX
        PROVE  x2 < HalfTurn \/ (x2 = HalfTurn /\ x1 = -HalfTurn)
    BY <1>2, <1>5, <2>1, <2>2, HalfTurnAssumption
  <2> QED BY <1>3, <2>1, <2>2, HalfTurnAssumption
<1>8. box = Rect(x1, x2, y1, y2)
  BY <1>2, <1>3, <1>4, <1>6, <1>7, NormLonOnce, HalfTurnAssumption
     DEF MakeRect, Rect, Width, CrossesDateLine
<1>9. /\ box.minX = x1 /\ box.maxX = x2 /\ box.minY = y1 /\ box.maxY = y2 /\ ~IsPoint(box)
      /\ box \in [kind : {"point", "rect"}, minX : Int, maxX : Int, minY : Int, maxY : Int]
  BY <1>2, <1>3, <1>8 DEF Rect, IsPoint
<1>10. IsMade(box) /\ ~CrossesDateLine(box)
  BY <1>2, <1>3, <1>6, <1>7, <1>9, HalfTurnAssumption DEF IsMade, CrossesDateLine
<1>11. /\ \A g \in S : /\ box.minX <= g.minX /\ g.maxX <= box.maxX
                       /\ box.minY <= g.minY /\ g.maxY <= box.maxY
       /\ \E g \in S : g.minX = box.minX
       /\ \E g \in S : g.minY = box.minY
       /\ box.maxX >= 0 /\ box.maxY >= 0
       /\ (\E g \in S : g.maxX = box.maxX) \/ (box.maxX = 0 /\ \A g \in S : g.maxX < 0)
       /\ (\E g \in S : g.maxY = box.maxY) \/ (box.maxY = 0 /\ \A g \in S : g.maxY < 0)
  BY <1>2, <1>3, <1>5, <1>9
<1> QED BY <1>10, <1>11 DEF box

-----------------------------------------------------------------------------
(* The loop.                                                               *)

Arguments == geoms \in Collections /\ other \in Others

(* What the loop has found out is about the members that it has seen.      *)
SeenMembers ==
  /\ rest \subseteq geoms
  /\ allOutside \in BOOLEAN /\ allContains \in BOOLEAN
  /\ allOutside  <=> \A g \in geoms \ rest : Relate(g, other) = "DISJOINT"
  /\ allContains <=> \A g \in geoms \ rest : Relate(g, other) = "CONTAINS"

(* It goes on while either answer is open, and answers for all members.    *)
Answer ==
  /\ result \in {"none", "DISJOINT", "CONTAINS", "INTERSECTS"}
  /\ result = "none"       => allOutside \/ allContains
  /\ result = "DISJOINT"   => rest = {} /\ allOutside
  /\ result = "CONTAINS"   => rest = {} /\ allContains
  /\ result = "INTERSECTS" => ~allOutside /\ ~allContains

IInv == Arguments /\ SeenMembers /\ Answer

LEMMA InitIInv == Init => IInv
<1> SUFFICES ASSUME Init PROVE IInv
  OBVIOUS
<1>1. Arguments /\ Answer
  BY DEF Init, Arguments, Answer
<1>2. geoms \ rest = {}
  BY DEF Init
<1>3. rest \subseteq geoms /\ allOutside = TRUE /\ allContains = TRUE
  BY DEF Init
<1>4. SeenMembers
  BY <1>2, <1>3 DEF SeenMembers
<1> QED BY <1>1, <1>4 DEF IInv

LEMMA RelateMemberStep ==
  ASSUME IInv, RelateMember
  PROVE  IInv'
<1>1. PICK g \in rest :
        /\ rest' = rest \ {g}
        /\ allOutside' = (allOutside /\ Relate(g, other) = "DISJOINT")
        /\ allContains' = (allContains /\ Relate(g, other) = "CONTAINS")
  BY DEF RelateMember
<1>2. /\ geoms' = geoms /\ other' = other
      /\ result' = IF allOutside' \/ allContains' THEN "none" ELSE "INTERSECTS"
  BY DEF RelateMember
<1>3. (geoms \ rest)' = (geoms \ rest) \cup {g}
  BY <1>1, <1>2 DEF IInv, SeenMembers
<1>4. Arguments'
  BY <1>2 DEF IInv, Arguments
<1>5. SeenMembers'
  <2>1. rest' \subseteq geoms' /\ allOutside' \in BOOLEAN /\ allContains' \in BOOLEAN
    BY <1>1, <1>2 DEF IInv, SeenMembers
  <2>2. allOutside' <=> \A h \in (geoms \ rest)' : Relate(h, other') = "DISJOINT"
    BY <1>1, <1>2, <1>3 DEF IInv, SeenMembers
  <2>3. allContains' <=> \A h \in (geoms \ rest)' : Relate(h, other') = "CONTAINS"
    BY <1>1, <1>2, <1>3 DEF IInv, SeenMembers
  <2> QED BY <1>2, <2>1, <2>2, <2>3 DEF SeenMembers
<1>6. Answer'
  <2>1. CASE allOutside' \/ allContains'
    BY <1>2, <2>1 DEF Answer
  <2>2. CASE ~(allOutside' \/ allContains')
    BY <1>2, <2>2 DEF Answer
  <2> QED BY <2>1, <2>2
<1> QED BY <1>4, <1>5, <1>6 DEF IInv

LEMMA ReturnRelationStep ==
  ASSUME IInv, ReturnRelation
  PROVE  IInv'
<1>1. UNCHANGED << geoms, other, rest, allOutside, allContains >> /\ result = "none" /\ rest = {}
  BY DEF ReturnRelation
<1>2. Arguments' /\ SeenMembers'
  BY <1>1 DEF IInv, Arguments, SeenMembers
<1>3. Answer'
  <2>1. CASE allOutside
    BY <1>1, <2>1 DEF ReturnRelation, Answer
  <2>2. CASE ~allOutside
    BY <1>1, <2>2 DEF ReturnRelation, Answer, IInv
  <2> QED BY <2>1, <2>2
<1> QED BY <1>2, <1>3 DEF IInv

LEMMA Invariance == Spec => []IInv
<1>1. IInv /\ [Next]_vars => IInv'
  <2> SUFFICES ASSUME IInv, [Next]_vars PROVE IInv'
    OBVIOUS
  <2>1. CASE RelateMember
    BY <2>1, RelateMemberStep
  <2>2. CASE ReturnRelation
    BY <2>2, ReturnRelationStep
  <2>3. CASE UNCHANGED vars
    BY <2>3 DEF vars, IInv, Arguments, SeenMembers, Answer
  <2> QED BY <2>1, <2>2, <2>3 DEF Next
<1> QED BY <1>1, InitIInv, PTL DEF Spec

LEMMA ArgumentsAreUsed ==
  ASSUME Arguments
  PROVE  IsUsed(other) /\ \A g \in geoms : IsUsed(g)
<1>1. other \in Others \cup UNION Collections
      /\ \A g \in geoms : g \in Others \cup UNION Collections
  BY DEF Arguments
<1> QED BY <1>1, ShapesAssumption DEF IsUsed

-----------------------------------------------------------------------------

(* On every globe and on the plane, and for whatever points and rectangles,*)
(* relate() says how the sets of points lie to each other.                 *)
THEOREM RelationsAreRight == Spec => []RelationsAreThoseOfPointSets
<1>1. IInv => RelationsAreThoseOfPointSets
  <2> SUFFICES ASSUME IInv, NEW g \in geoms PROVE TellsShapes(Relate(g, other), g, other)
    BY DEF RelationsAreThoseOfPointSets, TellsShapes
  <2> QED BY ArgumentsAreUsed, RelateTells DEF IInv
<1> QED BY <1>1, Invariance, PTL

(* The relations of two shapes to each other are transposes.               *)
THEOREM RelationsAreTransposes == Spec => []RelationsTranspose
<1>1. IInv => RelationsTranspose
  <2> SUFFICES ASSUME IInv, NEW g \in geoms
               PROVE  \/ Relate(other, g) = Transpose(Relate(g, other))
                      \/ Covers(g, other) /\ Covers(other, g)
    BY DEF RelationsTranspose
  <2> QED BY ArgumentsAreUsed, RelateTransposes DEF IInv
<1> QED BY <1>1, Invariance, PTL

(* The centre of a shape is a point of it, across the date line too.       *)
THEOREM CentersAreInside == Spec => []CenterIsInside
<1>1. IInv => CenterIsInside
  BY ArgumentsAreUsed, CenterTouches DEF IInv, CenterIsInside
<1> QED BY <1>1, Invariance, PTL

(* Whatever the order of the members and wherever the loop stops, the      *)
(* answer for a collection is right.                                       *)
THEOREM CollectionsRelateRight == Spec => []MultiShapeIsExact
<1>1. IInv => MultiShapeIsExact
  <2> SUFFICES ASSUME IInv PROVE MultiShapeIsExact
    OBVIOUS
  <2>1. \A g \in geoms : TellsShapes(Relate(g, other), g, other)
    BY ArgumentsAreUsed, RelateTells DEF IInv
  <2>2. result = "DISJOINT" => \A g \in geoms : ~Touch(g, other)
    BY <2>1 DEF IInv, SeenMembers, Answer, TellsShapes
  <2>3. result = "CONTAINS" => \A g \in geoms : Covers(g, other)
    BY <2>1 DEF IInv, SeenMembers, Answer, TellsShapes
  <2>4. result = "INTERSECTS" => /\ \E g \in geoms : Touch(g, other)
                                 /\ \E g \in geoms : Relate(g, other) # "CONTAINS"
    BY <2>1 DEF IInv, SeenMembers, Answer, TellsShapes
  <2> QED BY <2>2, <2>3, <2>4 DEF MultiShapeIsExact
<1> QED BY <1>1, Invariance, PTL

(* The bounding box holds the members that do not cross the date line, and *)
(* is no larger than they are, or than is needed to reach 0.               *)
THEOREM BoxesHoldMembers == Spec => []BoxHoldsMembers
<1>1. IInv => BoxHoldsMembers
  <2> SUFFICES ASSUME IInv, \A g \in geoms : ~CrossesDateLine(g), geoms # {}
               PROVE  BoxHoldsMembers
    BY DEF BoxHoldsMembers
  <2> DEFINE box == BoundingBox(geoms)
  <2>1. geoms \in Collections /\ \A g \in geoms : IsUsed(g) /\ ~CrossesDateLine(g)
    BY ArgumentsAreUsed DEF IInv, Arguments
  <2>2. /\ IsMade(box) /\ ~CrossesDateLine(box)
        /\ \A g \in geoms : /\ box.minX <= g.minX /\ g.maxX <= box.maxX
                            /\ box.minY <= g.minY /\ g.maxY <= box.maxY
        /\ \E g \in geoms : g.minX = box.minX
        /\ \E g \in geoms : g.minY = box.minY
        /\ box.maxX >= 0 /\ box.maxY >= 0
        /\ (\E g \in geoms : g.maxX = box.maxX) \/ (box.maxX = 0 /\ \A g \in geoms : g.maxX < 0)
        /\ (\E g \in geoms : g.maxY = box.maxY) \/ (box.maxY = 0 /\ \A g \in geoms : g.maxY < 0)
    BY <2>1, BoxOfUncrossed
  <2> HIDE DEF box
  <2>3. \A g \in geoms : Covers(box, g)
    BY <2>1, <2>2, BoxCovers
  <2>4. \A g \in geoms : g.maxX \in Int /\ g.maxY \in Int
    BY <2>1, UsedFacts
  <2>5. /\ IF \A g \in geoms : g.maxX < 0 THEN box.maxX = 0 ELSE \E g \in geoms : g.maxX = box.maxX
        /\ IF \A g \in geoms : g.maxY < 0 THEN box.maxY = 0 ELSE \E g \in geoms : g.maxY = box.maxY
    BY <2>2, <2>4
  <2> QED BY <2>2, <2>3, <2>5 DEF BoxHoldsMembers, box
<1> QED BY <1>1, Invariance, PTL
=============================================================================
