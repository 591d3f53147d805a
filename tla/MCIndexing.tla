----------------------------- MODULE MCIndexing -----------------------------
(***************************************************************************)
(* PrefixTreeStrategy: two threads with every pair of some shapes, each at *)
(* the detail levels that its error fractions give; and with fewer shapes  *)
(* for a grid of two levels.                                               *)
(***************************************************************************)
EXTENDS PrefixTreeStrategy

CONSTANTS t1, t2

SharedShapes == {
  MakePoint(0, 0),                  \* the corner where four cells meet
  MakeRect(-16, 0, 0, 8),           \* exactly one cell of level 1
  MakeRect(-14, 4, -3, 8),          \* parts of four cells
  MakeRect(12, 20, -4, 4),          \* across the date line
  MakeRect(-16, 16, -8, 8) }        \* the world

DeepShapes == SharedShapes \cup {
  MakePoint(-10, 3),                \* inside a smallest cell
  MakePoint(16, -7),                \* on the date line
  MakeRect(-16, 4, 0, 8),
  MakeRect(-13, -9, 1, 3),
  MakeRect(-6, 6, 2, 2),            \* a line
  MakeRect(-8, -8, 0, 4) }          \* a line on the edges of cells

SharedJobs == UNION { { JobOf(s, l) : l \in DetailLevels(s) } : s \in SharedShapes }
DeepJobs   == UNION { { JobOf(s, l) : l \in DetailLevels(s) } : s \in DeepShapes }

TwoThreads   == {t1, t2}
MCSharedJobs == SharedJobs
MCDeepJobs   == DeepJobs
=============================================================================
