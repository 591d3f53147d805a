------------------------------ MODULE QuadTree ------------------------------
(***************************************************************************)
(* QuadPrefixTree with the algorithms it inherits from SpatialPrefixTree   *)
(* and Node, on the world -HalfTurn..HalfTurn by -HalfTurn/2..HalfTurn/2.  *)
(***************************************************************************)
EXTENDS Tokens, Shapes, FiniteSetsExt, SequencesExt

(* levelW[] and levelH[] of the constructor, for the cells of that level.  *)
LevelW[level \in 0..MaxLevels] ==
  IF level = 0 THEN 2 * HalfTurn ELSE LevelW[level - 1] \div 2
LevelH[level \in 0..MaxLevels] ==
  IF level = 0 THEN HalfTurn ELSE LevelH[level - 1] \div 2

(* Four sub-cells, and a world whose smallest cells still have integer     *)
(* centres.                                                                *)
ASSUME QuadAssumption ==
  /\ Arity = 4
  /\ \A level \in 0..MaxLevels : LevelH[level] % 2 = 0

AllCells ==
  UNION { { SubSeq(c, 1, n) : c \in [1..MaxLevels -> 1..Arity] } : n \in 1..MaxLevels }

CellRect(x, y, level) == MakeRect(x, x + LevelW[level], y, y + LevelH[level])

(* The lower left corner of a cell: B and D are the right half of their    *)
(* parent, A and B the upper one.                                          *)
CornerX(c) ==
  LET x[n \in 0..Len(c)] ==
        IF n = 0 THEN -HalfTurn ELSE x[n - 1] + (IF c[n] \in {2, 4} THEN LevelW[n] ELSE 0)
  IN  x[Len(c)]
CornerY(c) ==
  LET y[n \in 0..Len(c)] ==
        IF n = 0 THEN -(HalfTurn \div 2) ELSE y[n - 1] + (IF c[n] \in {1, 2} THEN LevelH[n] ELSE 0)
  IN  y[Len(c)]

(* QuadCell.makeShape().                                                   *)
CellShapes == [c \in AllCells |-> CellRect(CornerX(c), CornerY(c), Len(c))]

(* A shape that the context makes, within the bounds of the grid's world.  *)
(* A rectangle short of the whole turn leaves some longitude out, which is *)
(* true of the code's doubles: no two longitudes used are neighbours here. *)
IsOfWorld(s) ==
  /\ IsMade(s)
  /\ -(HalfTurn \div 2) <= s.minY /\ s.maxY <= HalfTurn \div 2
  /\ IF Geo THEN Width(s) # 2 * HalfTurn - 1 ELSE -HalfTurn <= s.minX /\ s.maxX <= HalfTurn

(* QuadCell.getShape(): made once, then cached.                            *)
CellShape(c) == CellShapes[c]

(* Mutant of SubCells: from D to A.                                        *)
SubCellsReversed(c) == [i \in 1..Arity |-> Append(c, Arity + 1 - i)]

SubCells(c) == [i \in 1..Arity |-> Append(c, i)]

(* QuadPrefixTree.build() and checkBattenberg() for a point: the search    *)
(* goes, in order, into the sub-cells that are not disjoint from the       *)
(* point, and getNode(Point, level) takes its first match.  A point of a   *)
(* cell is in one of its sub-cells, so the search never comes back.        *)
PointCell(p, level) ==
  LET cell[n \in 0..level] ==
        IF n = 0 THEN WorldCell
        ELSE Append(cell[n - 1],
               Min({ i \in 1..Arity : Relate(p, CellShape(Append(cell[n - 1], i))) # "DISJOINT" }))
  IN  cell[level]

(* What a loop over getSubCells(Shape) collects: the sub-cells, in order,  *)
(* that the shape is not disjoint from.                                    *)
ForSubCells(c, shape, List(_)) ==
  LET list(i) == LET s == SubCells(c)[i] IN
                 IF Relate(CellShape(s), shape) = "DISJOINT" THEN << >> ELSE List(s)
  IN  list(1) \o list(2) \o list(3) \o list(4)

(* Node.getSubCells(Shape); for a point the one cell that                  *)
(* getSubCell(Point) finds.                                                *)
SubCellsOf(c, shape) ==
  IF IsPoint(shape) THEN << PointCell(shape, Len(c) + 1) >>
  ELSE ForSubCells(c, shape, LAMBDA s : << s >>)

(* Node.isLeaf() of a cell that getSubCells(Shape) returned.               *)
WithinShape(c, shape) == Relate(CellShape(c), shape) = "WITHIN"

(* getMaxLevelForPrecision() and getLevelForDistance(): the detail levels  *)
(* that the error fractions 0..0.5 give for one shape.  With the fraction  *)
(* f, sqrt(area)/2 * f is compared with the cell sizes of level + 1; some  *)
(* f makes it exceed the smaller one, levelH[level], just when             *)
(* sqrt(area)/4 does.                                                      *)
DetailLevels(shape) ==
  IF IsPoint(shape) \/ Area(shape) = 0 THEN {MaxLevels}
  ELSE {MaxLevels} \cup
       { l \in 1..(MaxLevels - 1) : Area(shape) > 16 * LevelH[l + 1] * LevelH[l + 1] }

Node(c, leaf) == [cell |-> c, leaf |-> leaf]

(* The sub-cells of c one level above the detail level: if all of them     *)
(* intersect, c takes their place.                                         *)
LastNodes(c, shape, parents) ==
  IF Len(SubCellsOf(c, shape)) = Arity THEN << Node(c, TRUE) >>
  ELSE parents \o ForSubCells(c, shape, LAMBDA s : << Node(s, TRUE) >>)

(* SpatialPrefixTree.recursiveGetNodes() for a shape that is not a point.  *)
(* worldLeaf: the shared world cell was made a leaf by an earlier call.    *)
RecursiveGetNodes(shape, detailLevel, inclParents, worldLeaf) ==
  LET parents(c) == IF inclParents THEN << Node(c, FALSE) >> ELSE << >>
      nodes[c \in UNION { [1..l -> 1..Arity] : l \in 0..(detailLevel - 1) }] ==
        IF IF c = WorldCell THEN worldLeaf ELSE WithinShape(c, shape)
          THEN << Node(c, TRUE) >>
        ELSE IF Len(c) = detailLevel - 1
          THEN LastNodes(c, shape, parents(c))
        ELSE parents(c) \o ForSubCells(c, shape, LAMBDA s : nodes[s])
  IN  nodes[WorldCell]

(* The one call that changes a shared cell: every sub-cell of the world    *)
(* intersects the shape and the detail level is 1.                         *)
MakesWorldLeaf(shape, detailLevel) ==
  ~IsPoint(shape) /\ detailLevel = 1 /\ Len(SubCellsOf(WorldCell, shape)) = Arity

(* getNodes() of such a shape removes the world cell, first in the list.   *)
GetShapeNodes(shape, detailLevel, worldLeaf) ==
  Tail(RecursiveGetNodes(shape, detailLevel, TRUE, worldLeaf))

(* getNodesAltPoint(), with parents: its cells are not leaves.             *)
GetPointNodes(p, detailLevel) ==
  [n \in 1..detailLevel |-> Node(PointCell(p, n), FALSE)]

(* The last cell that createField() adds: the centre, at full resolution.  *)
CenterNode(shape) == Node(PointCell(Center(shape), MaxLevels), FALSE)

(* Mutant of FieldNodes: the parents of the leaves are left out.           *)
FieldNodesUnrooted(shape, detailLevel, worldLeaf) ==
  IF IsPoint(shape) THEN << Node(PointCell(shape, detailLevel), FALSE) >>
  ELSE Append(RecursiveGetNodes(shape, detailLevel, FALSE, worldLeaf), CenterNode(shape))

(* PrefixTreeStrategy.createField(): the cells of the shape with their     *)
(* parents and, unless it is a point, its centre.                          *)
FieldNodes(shape, detailLevel, worldLeaf) ==
  IF IsPoint(shape) THEN GetPointNodes(shape, detailLevel)
  ELSE Append(GetShapeNodes(shape, detailLevel, worldLeaf), CenterNode(shape))

(* The terms that CellTokenStream.incrementToken() makes of the cells.     *)
TermsOf(nodes) ==
  { node.cell : node \in ToSet(nodes) }
  \cup { Marked(node.cell) : node \in { node \in ToSet(nodes) : node.leaf } }
=============================================================================
