--------------------------- MODULE IndexedShapes ---------------------------
(***************************************************************************)
(* The segments of an index as ShapeFieldCacheProvider reads them: of each *)
(* field its terms with their postings, in which a leaf term stands for    *)
(* the shape of its cell.                                                  *)
(***************************************************************************)
EXTENDS Tokens, FiniteSetsExt

CONSTANTS
  Threads,      \* the threads that search
  FieldNames,   \* the fields of the strategy
  Readers,      \* the readers of the segments
  Docs,         \* the document numbers of a segment
  Segments,     \* of each reader and field: its terms with their postings
  Distance,     \* of a cell: the distance of its centre from the query's point
  NaN

ASSUME SegmentsAssumption ==
  /\ Segments \in [Readers \X FieldNames -> [terms : Seq(Terms), docs : Seq(SUBSET Docs)]]
  /\ \A s \in Readers \X FieldNames : Len(Segments[s].docs) = Len(Segments[s].terms)

(* The shapes among the first n terms that document d has for field f: the *)
(* cells of its leaf terms.                                                *)
ShapesUpTo(n, r, f, d) ==
  { CellOf(Segments[<< r, f >>].terms[i]) :
      i \in { j \in 1..n : /\ IsLeafTerm(Segments[<< r, f >>].terms[j])
                           /\ d \in Segments[<< r, f >>].docs[j] } }

ShapesOf(r, f, d) == ShapesUpTo(Len(Segments[<< r, f >>].terms), r, f, d)

(* The distance of document d: NaN when it has no shape.                   *)
Nearest(r, f, d) ==
  IF ShapesOf(r, f, d) = {} THEN NaN
  ELSE Min({ Distance[c] : c \in ShapesOf(r, f, d) })
=============================================================================
