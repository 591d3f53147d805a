---------------------------- MODULE MCMultiShape ----------------------------
(***************************************************************************)
(* MultiShape on a small globe: all rectangles whose edges are on the even *)
(* coordinates, and the points there; a point with an odd coordinate shows *)
(* that a shape has an inside.  The collections pair each of them with one *)
(* of a few.                                                               *)
(***************************************************************************)
EXTENDS MultiShape

Edges == { x \in -HalfTurn..(HalfTurn - 1) : x % 2 = 0 }
Lats  == { y \in -(HalfTurn \div 2)..(HalfTurn \div 2) : y % 2 = 0 }
Turn  == { w \in 0..(2 * HalfTurn) : w % 2 = 0 }

AllShapes ==
  { MakeRect(x, x + w, y[1], y[2]) :
      x \in Edges, w \in Turn, y \in { l \in Lats \X Lats : l[1] <= l[2] } }
  \cup { MakePoint(x, y) : x \in Edges \cup {HalfTurn}, y \in Lats }

Seconds == {
  MakePoint(-HalfTurn, 0),
  MakeRect(HalfTurn - 2, HalfTurn, -2, 2),
  MakeRect(0, 2, 0, 0),
  MakeRect(-HalfTurn, HalfTurn, -2, 2) }

MCOthers == AllShapes
MCCollections == { {s, t} : s \in AllShapes, t \in Seconds }
=============================================================================
