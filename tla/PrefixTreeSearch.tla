-------------------------- MODULE PrefixTreeSearch --------------------------
(***************************************************************************)
(* The two ends of RecursivePrefixTreeFilter: the index that fields made   *)
(* by PrefixTreeStrategy.createField() give, and the query that            *)
(* RecursivePrefixTreeStrategy.makeFilter() makes of a shape.              *)
(***************************************************************************)
EXTENDS QuadTree

(* One field: a shape, indexed to one of the detail levels of its error.   *)
Field(shape, detailLevel) ==
  [ shape       |-> shape,
    detailLevel |-> detailLevel,
    terms       |-> TermsOf(FieldNodes(shape, detailLevel, FALSE)) ]

(* The terms of a set in the order of TermsEnum: each comes after as many  *)
(* of them as are less.                                                    *)
Ascending(terms) ==
  LET ranked == { << t, Cardinality({ u \in terms : Less(u, t) }) >> : t \in terms }
  IN  [i \in 1..Cardinality(terms) |-> (CHOOSE r \in ranked : r[2] = i - 1)[1]]

(* The inverted index of documents with one field each: the distinct terms *)
(* in order with their postings and, for reference, what was indexed.      *)
IndexOf(fields) ==
  LET terms == Ascending(UNION { fields[d].terms : d \in DOMAIN fields })
  IN  [ terms  |-> terms,
        docs   |-> [i \in 1..Len(terms) |-> { d \in DOMAIN fields : terms[i] \in fields[d].terms }],
        shapes |-> [d \in DOMAIN fields |-> fields[d].shape],
        levels |-> [d \in DOMAIN fields |-> fields[d].detailLevel] ]

(* Where createField() put the centres, for PrefixFieldCacheProvider.      *)
CentersOf(fields) ==
  [d \in DOMAIN fields |->
     [ cell    |-> PointCell(Center(fields[d].shape), MaxLevels),
       isPoint |-> IsPoint(fields[d].shape) ]]

(* RecursivePrefixTreeFilter, line 142: the shape of a scanned cell is its *)
(* centre at full length.                                                  *)
ScanShape(c) ==
  IF Len(c) = MaxLevels THEN Center(CellShape(c)) ELSE CellShape(c)

Parent(c) == SubSeq(c, 1, Len(c) - 1)

(* makeFilter() for one detail level and prefixGridScanLevel, as the three *)
(* sets of cells that the filter's use of the grid comes down to.          *)
QueryOn(visits, meets, shape, detailLevel, scanLevel, acceptDocs) ==
  [ shape       |-> shape,
    visits      |-> visits,
    within      |-> { c \in visits : ~IsPoint(shape) /\ WithinShape(c, shape) },
    meets       |-> meets,
    detailLevel |-> detailLevel,
    prefixGridScanLevel |-> scanLevel,
    acceptDocs  |-> acceptDocs ]

(* The filter does not ask the grid about cells below the detail level.    *)
QueryOf(shape, detailLevel, scanLevel, acceptDocs) ==
  LET asked == { c \in AllCells : Len(c) <= detailLevel } IN
  QueryOn({ c \in asked : c \in ToSet(SubCellsOf(Parent(c), shape)) },
          { c \in asked : Relate(shape, ScanShape(c)) # "DISJOINT" },
          shape, detailLevel, scanLevel, acceptDocs)
=============================================================================
