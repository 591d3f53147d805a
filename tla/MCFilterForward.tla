-------------------------- MODULE MCFilterForward --------------------------
(***************************************************************************)
(* RecursivePrefixTreeFilter on a grid of four levels, the fewest on which *)
(* its cursor goes back.  The centre of d1's first rectangle is in the     *)
(* cell ABCC, of which d1 has no other ancestor than its leaf A; a point   *)
(* of d2 near by makes the cell AB exist, and a query goes through AB.     *)
(* The other fields and queries are there for cursors that do not go back, *)
(* or go back elsewhere.                                                   *)
(***************************************************************************)
EXTENDS RecursivePrefixTreeFilter, PrefixTreeSearch

CONSTANTS d1, d2

FieldsOf(shapes) == UNION { { Field(s, l) : l \in DetailLevels(s) } : s \in shapes }

CoarseFields == FieldsOf({ MakeRect(-32, 8, 0, 16), MakeRect(-32, 0, 0, 16),
                           MakeRect(-22, -2, -2, 14), MakeRect(20, 44, -8, 8) })

FineFields == FieldsOf({ MakePoint(-3, 9), MakePoint(-13, 9), MakePoint(-30, 1),
                         MakeRect(-14, -6, 5, 11) })

ForwardIndexes == { IndexOf(d1 :> f @@ d2 :> g) : f \in CoarseFields, g \in FineFields }

QueryShapes == { MakeRect(-14, -2, 9, 11), MakeRect(-31, -1, 1, 15), MakeRect(-20, 24, -6, 9) }

ForwardQueries ==
  UNION { { QueryOf(s, l, n, {d1, d2}) : l \in DetailLevels(s), n \in {-1, 3} } : s \in QueryShapes }

MCDocs    == {d1, d2}
MCIndexes == ForwardIndexes
MCQueries == ForwardQueries
=============================================================================
