---------------------------- MODULE FieldSearch ----------------------------
(***************************************************************************)
(* Indexing and searching put together: RecursivePrefixTreeFilter on the   *)
(* indexes that createField() makes of shapes, with the queries that       *)
(* makeFilter() makes of shapes.  What the filter assumes of an index and  *)
(* of a query then follows from the two ends (FieldSearch_proofs), and its *)
(* result can be told from the shapes alone.                               *)
(***************************************************************************)
EXTENDS TermQueryPrefixTreeStrategy

CONSTANTS
  Contents    \* what the segments hold: functions from documents to fields

(* A field as createField() makes it of a shape, at one of the detail      *)
(* levels that its error fractions give.  One that comes down to the world *)
(* cell has no leaf but its centre (WorldIsNoLeaf), and is left out.       *)
IsField(f) ==
  /\ IsOfWorld(f.shape)
  /\ f.detailLevel \in DetailLevels(f.shape)
  /\ ~MakesWorldLeaf(f.shape, f.detailLevel)
  /\ f = Field(f.shape, f.detailLevel)

ASSUME ContentsAssumption ==
  /\ \A fields \in Contents : /\ DOMAIN fields \subseteq Docs
                              /\ \A d \in DOMAIN fields : IsField(fields[d])
  /\ Indexes = { IndexOf(fields) : fields \in Contents }

(* A query as makeFilter() makes it, of an operation that it supports: its *)
(* detail level is found as that of a field is.                            *)
IsQuery(q) ==
  /\ IsOfWorld(q.shape)
  /\ q.detailLevel \in DetailLevels(q.shape)
  /\ q.prefixGridScanLevel \in Int
  /\ q.acceptDocs \subseteq Docs
  /\ q = QueryOf(q.shape, q.detailLevel, q.prefixGridScanLevel, q.acceptDocs)

ASSUME QueriesAssumption == \A q \in Queries : IsQuery(q)

-----------------------------------------------------------------------------

(* The coarser of the detail levels of a document and of the query.        *)
CommonLevel(d) ==
  IF index.levels[d] < query.detailLevel THEN index.levels[d] ELSE query.detailLevel

(* At that level there is a cell that the query touches, and the document: *)
(* of a point, the one cell of the grid that it is in.                     *)
HasCommonCell(d) ==
  LET level == CommonLevel(d)
      shape == index.shapes[d]
  IN  \E c \in AllCells :
        /\ Len(c) = level
        /\ IF IsPoint(shape) THEN c = PointCell(shape, level)
           ELSE Relate(CellShape(c), shape) # "DISJOINT"
        /\ Relate(CellShape(c), query.shape) # "DISJOINT"

(* What a search finds, when the query is not resolved down to the smallest*)
(* cells (whose centres the scan looks at): the live documents that have a *)
(* cell of the coarser grid in common with the query.  Neither the leaves  *)
(* that stand for many cells, in the field or in the query, nor parents,   *)
(* nor the centre, nor the scan change it.                                 *)
FindsByCommonCells ==
  pc = "done" /\ query.detailLevel < MaxLevels =>
    bits = { d \in DOMAIN index.shapes \cap query.acceptDocs : HasCommonCell(d) }

(* A live document whose shape intersects the query shape is found, when   *)
(* the query is not resolved down to the smallest cells: the cells of a    *)
(* field cover its shape, so do those of the query, and the filter finds   *)
(* the cells they share.                                                   *)
NoDocumentLost ==
  pc = "done" /\ query.detailLevel < MaxLevels =>
    \A d \in DOMAIN index.shapes \cap query.acceptDocs :
      Relate(query.shape, index.shapes[d]) # "DISJOINT" => d \in bits
=============================================================================
