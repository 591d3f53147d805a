---------------------- MODULE RecursivePrefixTreeFilter ----------------------
(***************************************************************************)
(* RecursivePrefixTreeFilter.getDocIdSet(): the depth-first descent through*)
(* the cells that intersect the query, along one cursor over the sorted    *)
(* terms of the field.                                                     *)
(*                                                                         *)
(* The index of a segment is a strictly sorted sequence of terms, each     *)
(* with the documents that hold it.  The query enters as three sets of     *)
(* cells, so that the algorithm is independent of the grid and the shapes: *)
(*   visits   the cells that getSubCells(queryShape) of their parent keeps *)
(*   within   those of them that it marks WITHIN, Node.isLeaf()            *)
(*   meets    the cells whose shape - at full length, whose centre - is    *)
(*            not disjoint from the query shape (the test of the scan)     *)
(* The object scanCell, which reset() fills from the term at the cursor, is*)
(* read as that term itself: it is no state of the model.                  *)
(***************************************************************************)
EXTENDS Tokens, FiniteSets

CONSTANTS
  Docs,       \* document numbers
  Indexes,    \* the indexes considered
  Queries     \* the queries considered

(* TermsEnum hands out terms in strictly ascending order.                  *)
Sorted(terms) ==
  \A i, j \in 1..Len(terms) : i < j => Less(terms[i], terms[j])

(* PrefixTreeStrategy indexes a cell without the leaf byte, short of full  *)
(* length, only together with a longer term that starts with it: a leaf    *)
(* with its marked twin, a parent with its descendants.                    *)
ParentsExtended(terms) ==
  \A i \in 1..Len(terms) :
    Level(terms[i]) < MaxLevels /\ ~IsMarked(terms[i])
      => \E j \in 1..Len(terms) : j # i /\ StartsWith(terms[j], terms[i])

(* A leaf's marked term is handed out next after the cell's own.           *)
MarkersFollowCells(terms) ==
  \A i \in 1..Len(terms) :
    IsMarked(terms[i]) => \E j \in 1..Len(terms) : terms[j] = CellOf(terms[i])

ASSUME IndexAssumption ==
  \A ix \in Indexes :
    /\ ix.terms \in Seq(Terms)
    /\ ix.docs \in Seq(SUBSET Docs)
    /\ Len(ix.docs) = Len(ix.terms)
    /\ Sorted(ix.terms)
    /\ ParentsExtended(ix.terms)
    /\ MarkersFollowCells(ix.terms)

ASSUME QueryAssumption ==
  \A q \in Queries :
    /\ q.visits \subseteq Cells
    /\ q.within \subseteq Cells
    /\ q.meets \subseteq Cells
    /\ q.detailLevel \in 1..MaxLevels
    /\ q.prefixGridScanLevel \in Int
    /\ q.acceptDocs \subseteq Docs

Holds(ix, d, t) == \E r \in 1..Len(ix.terms) : ix.terms[r] = t /\ d \in ix.docs[r]

(* A document holds the parents of the cell of a term, up to that cell or  *)
(* to a leaf of its own: the cell of the centre is below a leaf.           *)
HeldToLeaf(ix, d, t) ==
  \E k \in 1..Level(t) :
    /\ \A n \in 1..k : Holds(ix, d, SubSeq(t, 1, n))
    /\ k = Level(t) \/ Holds(ix, d, Marked(SubSeq(t, 1, k)))

(* At or below each of its cells a document has a leaf or a smallest cell. *)
HasLeafBelow(ix, d, t) ==
  \E r \in 1..Len(ix.terms) :
    d \in ix.docs[r] /\ IsLeafTerm(ix.terms[r]) /\ StartsWith(ix.terms[r], CellOf(t))

ASSUME DocumentAssumption ==
  \A ix \in Indexes : \A p \in 1..Len(ix.terms) : \A d \in ix.docs[p] :
    HeldToLeaf(ix, d, ix.terms[p]) /\ HasLeafBelow(ix, d, ix.terms[p])

(* All that is in a cell within the query shape intersects it; what is     *)
(* above a cell that intersects it does.  Short of the smallest cells the  *)
(* descent and the scan ask the same of a cell.                            *)
ASSUME GridAssumption ==
  \A q \in Queries :
    /\ \A c \in q.within : \A n \in 1..q.detailLevel : \A x \in [1..n -> 1..Arity] :
         StartsWith(x, c) => x \in q.visits
    /\ \A c \in q.visits : \A n \in 1..Len(c) : SubSeq(c, 1, n) \in q.visits
    /\ q.detailLevel < MaxLevels => q.visits = q.meets

VARIABLES
  index,      \* the terms and postings of the segment
  query,      \* the filter and acceptDocs
  cells,      \* the LinkedList of cells, used as a stack
  pos,        \* position of termsEnum: 0 unpositioned, Len + 1 exhausted
  cell,       \* the cell that is being scanned
  term,       \* the scan loop's term; NoTerm for null
  bits,       \* the documents collected
  pc          \* "start", "pop", "scan", "done" (returned bits) or
              \* "null" (returned null)

vars == << index, query, cells, pos, cell, term, bits, pc >>

NoTerm == << >>

Size == Len(index.terms)

(* The constructor keeps the scan level in 1..MaxLevels-1.                 *)
ScanLevel ==
  LET capped == IF query.prefixGridScanLevel < MaxLevels - 1
                THEN query.prefixGridScanLevel ELSE MaxLevels - 1
  IN  IF capped > 1 THEN capped ELSE 1

(* Mutant of LiveDocs: acceptDocs is not passed on.                        *)
LiveDocsUnfiltered(p) == index.docs[p]

(* termsEnum.docs(acceptDocs, ..) at position p.                           *)
LiveDocs(p) == index.docs[p] \cap query.acceptDocs

(* Mutant of SubCellLists: the sub-cells come in any order.                *)
SubCellListsUnsorted(c) ==
  LET kids == { i \in 1..Arity : Append(c, i) \in query.visits }
      n    == Cardinality(kids)
  IN  { s \in [1..n -> { Append(c, i) : i \in kids }] :
          \A i \in kids : \E m \in 1..n : s[m] = Append(c, i) }

(* Node.getSubCells(queryShape): the sub-cells of c that intersect the     *)
(* query, in order.  It is a set with the one such sequence in it.         *)
SubCellLists(c) ==
  LET kids == { i \in 1..Arity : Append(c, i) \in query.visits }
  IN  { s \in UNION { [1..n -> { Append(c, i) : i \in kids }] : n \in 0..Arity } :
          /\ \A i \in kids : \E n \in 1..Len(s) : s[n] = Append(c, i)
          /\ \A m, n \in 1..Len(s) : m < n => Before(s[m], s[n]) }

(* termsEnum.seekCeil(t): p is the first position whose term is not below  *)
(* t, and Size + 1 for SeekStatus.END.                                     *)
IsCeil(p, t) ==
  /\ p \in 1..(Size + 1)
  /\ \A i \in 1..(p - 1) : Less(index.terms[i], t)
  /\ p <= Size => ~Less(index.terms[p], t)

(* Mutant of Advance: the last term is never left.                         *)
AdvanceStuck(p) == IF p < Size THEN p + 1 ELSE Size

(* termsEnum.next() from position p.                                       *)
Advance(p) == IF p < Size THEN p + 1 ELSE Size + 1

(* The term of an enum at p.  Of an exhausted one, termsEnum.term() is     *)
(* undefined: null or still the last term.                                 *)
TermsAt(p) == IF p <= Size THEN { index.terms[p] } ELSE { NoTerm, index.terms[Size] }

Init ==
  /\ index \in Indexes
  /\ query \in Queries
  /\ cells = << >>
  /\ pos = 0
  /\ cell = WorldCell
  /\ term = NoTerm
  /\ bits = {}
  /\ pc = "start"

(* reader.terms(fieldName) is null when no document has the field.         *)
NoField ==
  /\ pc = "start"
  /\ Size = 0
  /\ pc' = "null"
  /\ UNCHANGED << index, query, cells, pos, cell, term, bits >>

Start ==
  /\ pc = "start"
  /\ Size > 0
  /\ cells' \in SubCellLists(WorldCell)
  /\ pc' = "pop"
  /\ UNCHANGED << index, query, pos, cell, term, bits >>

(* Mutant of Finish: the loop ends with cells still on the stack.          *)
FinishEarly ==
  /\ pc = "pop"
  /\ pc' = "done"
  /\ UNCHANGED << index, query, cells, pos, cell, term, bits >>

(* cells.isEmpty(): the loop ends.                                         *)
Finish ==
  /\ pc = "pop"
  /\ cells = << >>
  /\ pc' = "done"
  /\ UNCHANGED << index, query, cells, pos, cell, term, bits >>

(* seekCeil() is END: break.                                               *)
SeekEnd ==
  /\ pc = "pop"
  /\ cells # << >>
  /\ \E p \in 1..(Size + 1) :
       /\ IsCeil(p, Head(cells))
       /\ p = Size + 1
       /\ pos' = p
  /\ cells' = Tail(cells)
  /\ pc' = "done"
  /\ UNCHANGED << index, query, cell, term, bits >>

(* seekCeil() is NOT_FOUND: continue.                                      *)
SeekNotFound ==
  /\ pc = "pop"
  /\ cells # << >>
  /\ \E p \in 1..Size :
       /\ IsCeil(p, Head(cells))
       /\ index.terms[p] # Head(cells)
       /\ pos' = p
  /\ cells' = Tail(cells)
  /\ UNCHANGED << index, query, cell, term, bits, pc >>

(* Mutant of IsComplete: from one level above the detail level on.         *)
IsCompleteEarly(c) == Len(c) >= query.detailLevel - 1 \/ c \in query.within

(* The cell is complete as it is: at the detail level or within the query. *)
IsComplete(c) == Len(c) = query.detailLevel \/ c \in query.within

(* Mutant of Found: NOT_FOUND is not looked at.                            *)
FoundCeil(p) == IsCeil(p, Head(cells))

(* seekCeil() is FOUND.                                                    *)
Found(p) == IsCeil(p, Head(cells)) /\ index.terms[p] = Head(cells)

CollectCell ==
  /\ pc = "pop"
  /\ cells # << >>
  /\ IsComplete(Head(cells))
  /\ \E p \in 1..Size :
       /\ Found(p)
       /\ pos' = p
       /\ bits' = bits \cup LiveDocs(p)
  /\ cells' = Tail(cells)
  /\ UNCHANGED << index, query, cell, term, pc >>

(* Mutants of AfterLeaf: the cursor moves on from a term that is no leaf,  *)
(* or moves on twice; and of DocsOfLeaf: any next term is taken for a leaf,*)
(* or a leaf is passed over.                                               *)
AfterAny(p) == Advance(p)
AfterLeafTwice(p) == IF IsLeafTerm(index.terms[p]) THEN Advance(Advance(p)) ELSE p
DocsOfAny(p) == LiveDocs(p)
DocsOfNone(p) == {}

(* termsEnum.next(), the documents of a leaf there, and past that leaf.    *)
AfterLeaf(p) == IF IsLeafTerm(index.terms[p]) THEN Advance(p) ELSE p

DocsOfLeaf(p) == IF IsLeafTerm(index.terms[p]) THEN LiveDocs(p) ELSE {}

(* Any other intersection: the leaf marker first, then divide and conquer. *)
(* The code relies on the next term being one below the cell; without one, *)
(* here, there is no step (NextTermAssertion).                             *)
Divide ==
  /\ pc = "pop"
  /\ cells # << >>
  /\ ~IsComplete(Head(cells))
  /\ Len(Head(cells)) < ScanLevel
  /\ \E p \in 1..(Size - 1) :
       /\ Found(p)
       /\ pos' = AfterLeaf(p + 1)
       /\ bits' = bits \cup DocsOfLeaf(p + 1)
  /\ \E subCells \in SubCellLists(Head(cells)) : cells' = subCells \o Tail(cells)
  /\ UNCHANGED << index, query, cell, term, pc >>

(* Or, from the scan level on, the scan of all terms within the cell.      *)
StartScan ==
  /\ pc = "pop"
  /\ cells # << >>
  /\ ~IsComplete(Head(cells))
  /\ Len(Head(cells)) >= ScanLevel
  /\ \E p \in 1..(Size - 1) :
       /\ Found(p)
       /\ pos' = AfterLeaf(p + 1)
       /\ bits' = bits \cup DocsOfLeaf(p + 1)
       /\ term' \in TermsAt(AfterLeaf(p + 1))
  /\ cell' = Head(cells)
  /\ cells' = Tail(cells)
  /\ pc' = "scan"
  /\ UNCHANGED << index, query >>

InScan == term # NoTerm /\ StartsWith(term, cell)

(* Mutant of Matches: the scanned cell is not related to the query shape.  *)
MatchesUnrelated(t) ==
  /\ Level(t) <= query.detailLevel
  /\ Level(t) = query.detailLevel \/ IsLeafTerm(t)

(* The scan's test: a leaf or a cell of the detail level, not deeper than  *)
(* that, that meets the query shape.                                       *)
Matches(t) ==
  /\ Level(t) <= query.detailLevel
  /\ Level(t) = query.detailLevel \/ IsLeafTerm(t)
  /\ CellOf(t) \in query.meets

(* One round of the scan.  An enum that still shows its last term when it  *)
(* is exhausted shows that term's documents.                               *)
ScanTerm ==
  /\ pc = "scan"
  /\ InScan
  /\ LET at == IF pos <= Size THEN pos ELSE Size IN
       bits' = IF Matches(term) THEN bits \cup LiveDocs(at) ELSE bits
  /\ pos' = Advance(pos)
  /\ term' = IF pos' <= Size THEN index.terms[pos'] ELSE NoTerm
  /\ UNCHANGED << index, query, cells, cell, pc >>

EndScan ==
  /\ pc = "scan"
  /\ ~InScan
  /\ pc' = "pop"
  /\ UNCHANGED << index, query, cells, pos, cell, term, bits >>

Next ==
  \/ NoField \/ Start \/ Finish
  \/ SeekEnd \/ SeekNotFound \/ CollectCell \/ Divide \/ StartScan
  \/ ScanTerm \/ EndScan

(* One thread runs the method to its end.                                  *)
Spec == Init /\ [][Next]_vars /\ WF_vars(Next)

-----------------------------------------------------------------------------

TypeOK ==
  /\ cells \in Seq(Cells)
  /\ pos \in 0..(Size + 1)
  /\ cell \in Cells \cup {WorldCell}
  /\ term \in Terms \cup {NoTerm}
  /\ bits \subseteq query.acceptDocs
  /\ pc \in {"start", "pop", "scan", "done", "null"}

(* The stack is in the order of the terms and no cell of it is inside      *)
(* another, the cell being scanned coming before them all: "It's in sorted *)
(* order" (RecursivePrefixTreeFilter.java:91).  seekCeil() of one cell can *)
(* therefore not pass over a term of a later one.                          *)
StackSorted ==
  /\ \A i, j \in 1..Len(cells) : i < j => Before(cells[i], cells[j])
  /\ pc = "scan" => \A i \in 1..Len(cells) : Before(cell, cells[i])

(* When the filter goes below a cell there is a next term and it starts    *)
(* with the cell's: "assert StringHelper.startsWith(nextCellTerm,          *)
(* cellTerm)" (RecursivePrefixTreeFilter.java:118), without which it would *)
(* take a null or another cell's term for a leaf of this one.              *)
NextTermAssertion ==
  \A p \in 1..Size :
    pc = "pop" /\ cells # << >> /\ Found(p) /\ ~IsComplete(Head(cells))
      => p < Size /\ StartsWith(index.terms[p + 1], Head(cells))

(* The cursor goes back by at most one term: over a full-length term taken *)
(* for a leaf marker (RecursivePrefixTreeFilter.java:120-124) and no other.*)
SeekBackAtMostOne ==
  [][pos' >= pos \/ (pos' = pos - 1 /\ Len(index.terms[pos']) = MaxLevels)]_pos

(* "we always advance forward through the termsEnum index"                 *)
(* (RecursivePrefixTreeFilter.java:92), taken at its word.                 *)
AlwaysForward == [][pos' >= pos]_pos

(* Every parent of the term at q, and its cell, intersects the query.      *)
Reached(q) ==
  \A n \in 1..Level(index.terms[q]) : SubSeq(index.terms[q], 1, n) \in query.visits

(* Document d was indexed with every parent of the term at q, and its cell.*)
Rooted(d, q) ==
  \A n \in 1..Level(index.terms[q]) :
    \E r \in 1..Size : index.terms[r] = SubSeq(index.terms[q], 1, n) /\ d \in index.docs[r]

(* The documents a caller must get: live ones with a leaf, or a cell of    *)
(* the detail level, that meets the query.                                 *)
RequiredDocs ==
  { d \in query.acceptDocs :
      \E q \in 1..Size : /\ d \in index.docs[q]
                         /\ Matches(index.terms[q])
                         /\ Reached(q)
                         /\ Rooted(d, q) }

(* The documents with a leaf, or a cell of the detail level, that          *)
(* intersects the query, for the descent or for the scan.  At full length  *)
(* a cell may intersect the query and its centre, which is what the scan   *)
(* looks at, may not; and a point on an edge is in one cell for the        *)
(* descent and in all cells at that edge for the scan.                     *)
TouchingDocs ==
  { d \in query.acceptDocs :
      \E q \in 1..Size : LET t == index.terms[q] IN
        /\ d \in index.docs[q]
        /\ Level(t) <= query.detailLevel
        /\ Level(t) = query.detailLevel \/ IsLeafTerm(t)
        /\ CellOf(t) \in query.visits \cup query.meets }

(* The documents of a full-length term that comes right after the term of  *)
(* an intersecting cell: Node.b_fixLeaf() makes it a leaf, and so the      *)
(* filter mistakes it for the leaf marker of that cell.                    *)
MistakenDocs ==
  { d \in query.acceptDocs :
      \E p \in 1..(Size - 1) :
        /\ d \in index.docs[p + 1]
        /\ index.terms[p] \in query.visits
        /\ Len(index.terms[p]) < query.detailLevel
        /\ Len(index.terms[p + 1]) = MaxLevels
        /\ StartsWith(index.terms[p + 1], index.terms[p]) }

Returned == pc \in {"done", "null"}

(* No document that must be found is missing, whichever mixture of descent *)
(* and scan was used and wherever the loop ended - also by the break of    *)
(* line 109, which drops the cells that are still on the stack.            *)
Complete == Returned => RequiredDocs \subseteq bits

(* Scanning "is a performance optimization trade-off" (line 127) and the   *)
(* scan level does not change the result (the test                         *)
(* testFilterWithVariableScanLevel): above the last level of the grid the  *)
(* result is one that is stated without the scan level.                    *)
ExactBelowMaxLevels ==
  pc = "done" /\ query.detailLevel < MaxLevels => bits = TouchingDocs

(* With the scan starting two or more levels above the last (the default   *)
(* is four), every collected document has a cell that touches the query.   *)
SoundWhenScanIsEarly ==
  ScanLevel <= MaxLevels - 2 => bits \subseteq TouchingDocs

(* "If the next indexed term is the leaf marker, then add all of them"     *)
(* (line 116): nothing else is added without a look at the query.          *)
OnlyTouchingDocs == bits \subseteq TouchingDocs

(* The filter does what a filter promises, the documents of mistaken leaf  *)
(* markers being allowed.                                                  *)
Abstract == INSTANCE SpatialFilter WITH
  required <- RequiredDocs,
  allowed  <- TouchingDocs \cup MistakenDocs,
  returned <- Returned
ImplementsSpatialFilter == Abstract!Spec

(* getDocIdSet() returns.                                                  *)
Terminates == <>Returned
=============================================================================
