--------------------- MODULE TermQueryPrefixTreeStrategy ---------------------
(***************************************************************************)
(* TermQueryPrefixTreeStrategy.makeQuery(), of an operation that it        *)
(* supports: one optional TermQuery for each cell of the query shape.  It  *)
(* is put beside the filter of RecursivePrefixTreeStrategy, on the same    *)
(* index and the same query.                                               *)
(***************************************************************************)
EXTENDS RecursivePrefixTreeFilter, PrefixTreeSearch

(* Mutant of QueryCells: the parents of the cells are asked for as well.   *)
QueryCellsWithParents(shape, detailLevel) ==
  IF IsPoint(shape) THEN { PointCell(shape, n) : n \in 1..detailLevel }
  ELSE { node.cell : node \in ToSet(RecursiveGetNodes(shape, detailLevel, TRUE, FALSE)) }

(* grid.getNodes(qshape, detailLevel, false), of a grid whose world cell   *)
(* was not made a leaf before.  The token of a node has no leaf byte, and  *)
(* that of the world cell is the empty string.                             *)
QueryCells(shape, detailLevel) ==
  IF IsPoint(shape) THEN { PointCell(shape, detailLevel) }
  ELSE { node.cell : node \in ToSet(RecursiveGetNodes(shape, detailLevel, FALSE, FALSE)) }

(* What a BooleanQuery of SHOULD clauses finds: the live documents that    *)
(* hold a term of at least one clause.                                     *)
DocsOfTerms(terms) ==
  UNION { LiveDocs(p) : p \in { p \in 1..Size : index.terms[p] \in terms } }

-----------------------------------------------------------------------------

(* The documents with a leaf that is a parent of a cell in the set.  Every *)
(* term lies inside the world cell, and no document holds its token.       *)
CoarserDocs(terms) ==
  { d \in query.acceptDocs :
      \/ WorldCell \in terms
      \/ \E p \in 1..Size :
           /\ d \in index.docs[p]
           /\ IsMarked(index.terms[p])
           /\ \E c \in terms : c # CellOf(index.terms[p]) /\ StartsWith(c, CellOf(index.terms[p])) }

(* The documents in cells that the scan finds at the edge of a query point *)
(* or by their centre, and the descent does not visit.                     *)
EdgeDocs ==
  { d \in query.acceptDocs :
      \E p \in 1..Size : /\ d \in index.docs[p]
                         /\ Matches(index.terms[p])
                         /\ CellOf(index.terms[p]) \notin query.visits }

(* The two strategies answer the same query alike, but for a few documents.*)
(* What the term query finds touches the query; what the filter finds and  *)
(* the term query does not is indexed with a leaf larger than a cell of the*)
(* query - the terms of the query's cells are below that leaf and were     *)
(* never indexed (TermQueryPrefixTreeStrategy.java:54-58) - or else is in a*)
(* cell at the edge of the query, or mistaken for a leaf.                  *)
TermQueryLosesOnlyCoarserDocs ==
  pc = "done" =>
    LET asked == QueryCells(query.shape, query.detailLevel)
        found == DocsOfTerms(asked)
    IN  /\ found \subseteq TouchingDocs
        /\ bits \ found \subseteq CoarserDocs(asked) \cup EdgeDocs \cup MistakenDocs
=============================================================================
