------------------------------ MODULE MCFilter ------------------------------
(***************************************************************************)
(* RecursivePrefixTreeFilter on quad trees: every index of at most two     *)
(* documents out of a few fields, against a few queries at each of their   *)
(* detail levels and at an early and a late scan.                          *)
(***************************************************************************)
EXTENDS FieldSearch

CONSTANTS d1, d2

(* Coordinates are multiples of half the smallest cell, so that shapes end *)
(* on edges, on centres and at corners of cells.                           *)
FieldShapes == {
  MakePoint(-10, 3),                \* inside a smallest cell
  MakePoint(0, 0),                  \* the corner where four cells meet
  MakePoint(16, -7),                \* on the date line
  MakeRect(-16, 0, 0, 8),           \* exactly one cell of level 1
  MakeRect(-10, 16, -8, 8),         \* two of them and parts of the others
  MakeRect(-13, -9, 1, 3),          \* a few of the smallest cells
  MakeRect(12, 20, -4, 4) }         \* across the date line

(* One variable per comprehension: TLC then evaluates these sets once.  A  *)
(* field that comes down to the world cell has no leaf but its centre, and *)
(* is not searched (see MCIndexingWorldLeaf.cfg).                         *)
Fields ==
  UNION { { Field(s, l) : l \in { l \in DetailLevels(s) : ~MakesWorldLeaf(s, l) } } :
            s \in FieldShapes }

(* The empty segment, one document, and two documents with two fields.     *)
FieldContents ==
  { << >> }
  \cup { d1 :> f : f \in Fields }
  \cup { LET f == CHOOSE f \in pair : TRUE
             g == CHOOSE g \in pair : g # f
         IN  d1 :> f @@ d2 :> g : pair \in kSubset(2, Fields) }

FieldIndexes == { IndexOf(fields) : fields \in FieldContents }

QueryShapes == {
  MakePoint(-10, 3),
  MakePoint(-8, 4),                 \* a corner of four cells, inside one of level 1
  MakeRect(1, 15, -7, -1),          \* inside one cell of level 1
  MakeRect(-16, -4, -4, 8),
  MakeRect(-6, 6, -2, 2),
  MakeRect(10, 18, -8, 8),
  MakeRect(-16, 16, -8, 8) }

(* A late scan, an early one and one with a deleted document, for each.    *)
LateQueries ==
  UNION { { QueryOf(s, l, 9, {d1, d2}) : l \in DetailLevels(s) } : s \in QueryShapes }

EarlyQueries == { [q EXCEPT !.prefixGridScanLevel = -1] : q \in LateQueries }

ShapeQueries ==
  LateQueries \cup EarlyQueries
  \cup { [q EXCEPT !.acceptDocs = {d2}] : q \in EarlyQueries }

MCDocs     == {d1, d2}
MCContents == FieldContents
MCIndexes  == FieldIndexes
MCQueries  == ShapeQueries
=============================================================================
