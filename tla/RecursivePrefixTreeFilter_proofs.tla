------------------- MODULE RecursivePrefixTreeFilter_proofs -------------------
(***************************************************************************)
(* RecursivePrefixTreeFilter on every index and for every query that       *)
(* satisfies the module's assumptions: the types, the order of the stack,  *)
(* the assertion of line 118, and that no required document is missing     *)
(* when getDocIdSet() returns.                                             *)
(*                                                                         *)
(* The inductive invariant is IInv.  What has to be added to the           *)
(* properties themselves is the depth of the cells (StackDepth), where the *)
(* cursor is while a cell is scanned (ScanCursor), and where each required *)
(* document that is not yet collected is still going to be found           *)
(* (Coverage).                                                             *)
(***************************************************************************)
EXTENDS RecursivePrefixTreeFilter, TokensAndShapes_proofs

Inputs ==
  /\ index \in Indexes
  /\ query \in Queries

(* The cells of the stack, and the scanned one, intersect the query and    *)
(* are not below the detail level; the scanned one is above it.            *)
StackDepth ==
  /\ \A i \in 1..Len(cells) :
       cells[i] \in query.visits /\ Len(cells[i]) <= query.detailLevel
  /\ pc = "scan" => cell \in query.visits /\ Len(cell) < query.detailLevel

(* During a scan the cursor is past the term of the scanned cell, and the  *)
(* loop's term is the one at the cursor as long as there is one.           *)
ScanCursor ==
  pc = "scan" =>
    /\ \E p \in 1..Size : p < pos /\ index.terms[p] = cell
    /\ pos <= Size => term = index.terms[pos]

(* The term at q makes the filter owe the caller document d.               *)
Hit(d, q) ==
  /\ d \in query.acceptDocs
  /\ d \in index.docs[q]
  /\ Matches(index.terms[q])
  /\ Reached(q)
  /\ Rooted(d, q)

(* A document that is owed is collected, or a cell on the stack leads to   *)
(* its term, or the scan has not come to its term yet.                     *)
Pending(d, q) ==
  \/ d \in bits
  \/ /\ pc \in {"pop", "scan"}
     /\ \E i \in 1..Len(cells) : StartsWith(index.terms[q], cells[i])
  \/ /\ pc = "scan"
     /\ StartsWith(index.terms[q], cell)
     /\ pos <= q

Coverage ==
  pc # "start" => \A q \in 1..Size : \A d \in Docs : Hit(d, q) => Pending(d, q)

IInv == Inputs /\ TypeOK /\ StackSorted /\ StackDepth /\ ScanCursor /\ Coverage

-----------------------------------------------------------------------------

(* What the assumptions say of the one index and the one query of a run.   *)
LEMMA IndexFacts ==
  ASSUME Inputs
  PROVE  /\ index.terms \in Seq(Terms)
         /\ Size \in Nat
         /\ \A p \in 1..Size : index.terms[p] \in Terms
         /\ \A p \in 1..Size : index.docs[p] \subseteq Docs
         /\ \A p, q \in 1..Size : p < q => Less(index.terms[p], index.terms[q])
         /\ ParentsExtended(index.terms)
<1>1. /\ index.terms \in Seq(Terms)
      /\ index.docs \in Seq(SUBSET Docs)
      /\ Len(index.docs) = Len(index.terms)
      /\ Sorted(index.terms)
      /\ ParentsExtended(index.terms)
  BY IndexAssumption DEF Inputs
<1>2. \A p \in 1..Size : index.terms[p] \in Terms
  BY <1>1, ElementOfSeq, Zenon DEF Size
<1>3. \A p \in 1..Len(index.docs) : index.docs[p] \in SUBSET Docs
  BY <1>1, ElementOfSeq, Zenon
<1> QED BY <1>1, <1>2, <1>3 DEF Size, Sorted

LEMMA QueryFacts ==
  ASSUME Inputs
  PROVE  /\ query.visits \subseteq Cells
         /\ query.detailLevel \in 1..MaxLevels
         /\ query.acceptDocs \subseteq Docs
BY QueryAssumption DEF Inputs

(* getSubCells(queryShape) returns, in order, sub-cells that intersect.    *)
LEMMA SubCellFacts ==
  ASSUME Inputs, NEW c \in Cells \cup {WorldCell}, NEW s \in SubCellLists(c)
  PROVE  /\ s \in Seq(Cells)
         /\ \A m \in 1..Len(s) : /\ s[m] \in query.visits
                                 /\ Len(s[m]) = Len(c) + 1
                                 /\ \E i \in 1..Arity : s[m] = Append(c, i)
         /\ \A m, n \in 1..Len(s) : m < n => Before(s[m], s[n])
<1> DEFINE kids == { i \in 1..Arity : Append(c, i) \in query.visits }
           subs == { Append(c, i) : i \in kids }
<1>1. c \in Seq(Nat)
  BY WorldOrCell
<1>2. PICK n \in 0..Arity : s \in [1..n -> subs]
  BY Zenon DEF SubCellLists
<1>3. \A m, k \in 1..Len(s) : m < k => Before(s[m], s[k])
  BY Zenon DEF SubCellLists
<1>4. n \in Nat
  BY <1>2, ArityAssumption
<1>5. Len(s) = n
  BY <1>2, <1>4
<1>6. \A m \in 1..n : \E i \in 1..Arity : s[m] = Append(c, i) /\ Append(c, i) \in query.visits
  BY <1>2
<1>7. \A m \in 1..n : s[m] \in Cells
  BY <1>6, QueryFacts
<1>8. s \in [1..n -> Cells]
  BY <1>2, <1>7
<1>9. s \in Seq(Cells)
  BY <1>8, <1>4
<1>10. \A i \in 1..Arity : Len(Append(c, i)) = Len(c) + 1
  BY <1>1, ArityAssumption
<1> QED BY <1>3, <1>5, <1>6, <1>9, <1>10

(* All of them: a term below c, all of whose parents intersect the query,  *)
(* is below one of them.                                                   *)
LEMMA SubCellsCover ==
  ASSUME Inputs, NEW c \in Cells \cup {WorldCell}, NEW s \in SubCellLists(c),
         NEW q \in 1..Size, Reached(q),
         StartsWith(index.terms[q], c), Len(c) < Level(index.terms[q])
  PROVE  \E m \in 1..Len(s) : StartsWith(index.terms[q], s[m])
<1> DEFINE t == index.terms[q]
           n == Len(c) + 1
           i == t[n]
           x == SubSeq(t, 1, n)
<1>1. t \in Terms
  BY IndexFacts
<1>2. c \in Seq(Nat) /\ t \in Seq(Nat) /\ Len(c) \in Nat
  BY <1>1, WorldOrCell, TermsAreSequences
<1>3. n \in 1..Level(t) /\ n \in 1..Len(t) /\ i \in 1..Arity
  BY <1>1, <1>2, LevelOfTerm, TermsAreSequences
<1>4. x \in Seq(Nat) /\ Len(x) = n /\ \A k \in 1..n : x[k] = t[k]
  BY <1>2, <1>3, FirstBytes
<1>5. x = Append(c, i)
  <2>1. /\ Append(c, i) \in Seq(Nat) /\ Len(Append(c, i)) = n
        /\ Append(c, i)[n] = i /\ \A k \in 1..Len(c) : Append(c, i)[k] = c[k]
    BY <1>2, <1>3
  <2>2. \A k \in 1..Len(c) : t[k] = c[k]
    BY DEF StartsWith
  <2>3. ASSUME NEW k \in 1..n
        PROVE  x[k] = Append(c, i)[k]
    <3>1. k \in 1..Len(c) \/ k = n
      BY <1>2
    <3> QED BY <1>4, <2>1, <2>2, <3>1
  <2> QED BY <1>4, <2>1, <2>3, SeqEqual
<1>6. x \in query.visits
  BY <1>3 DEF Reached
<1>7. PICK m \in 1..Len(s) : s[m] = Append(c, i)
  BY <1>3, <1>5, <1>6, Zenon DEF SubCellLists
<1>8. StartsWith(t, x)
  BY <1>3, <1>4, <1>2 DEF StartsWith
<1> QED BY <1>5, <1>7, <1>8

-----------------------------------------------------------------------------

(* The inputs do not change and the variables keep their types.            *)
LEMMA InputsStep ==
  ASSUME Inputs, [Next]_vars
  PROVE  Inputs' /\ index' = index /\ query' = query
BY DEF Inputs, Next, vars, NoField, Start, Finish, SeekEnd, SeekNotFound,
       CollectCell, Divide, StartScan, ScanTerm, EndScan

LEMMA TypeStep ==
  ASSUME Inputs, TypeOK, [Next]_vars
  PROVE  TypeOK'
<1> USE DEF TypeOK
<1>1. index' = index /\ query' = query /\ Size' = Size /\ Size \in Nat
  BY InputsStep, IndexFacts DEF Size
<1>2. CASE NoField
  BY <1>2, <1>1 DEF NoField
<1>3. CASE Start
  <2>1. cells' \in Seq(Cells)
    BY <1>3, SubCellFacts DEF Start
  <2> QED BY <1>3, <1>1, <2>1 DEF Start
<1>4. CASE Finish
  BY <1>4, <1>1 DEF Finish
<1>5. cells # << >> => Tail(cells) \in Seq(Cells) /\ Head(cells) \in Cells
  BY HeadTailProperties
<1>6. CASE SeekEnd
  BY <1>6, <1>1, <1>5 DEF SeekEnd
<1>7. CASE SeekNotFound
  BY <1>7, <1>1, <1>5 DEF SeekNotFound
<1>8. CASE CollectCell
  BY <1>8, <1>1, <1>5 DEF CollectCell, LiveDocs
<1>9. \A p \in 1..(Size - 1) :
        /\ AfterLeaf(p + 1) \in 1..(Size + 1)
        /\ DocsOfLeaf(p + 1) \subseteq query.acceptDocs
        /\ TermsAt(AfterLeaf(p + 1)) \subseteq Terms \cup {NoTerm}
  <2>1. \A p \in 1..(Size - 1) : AfterLeaf(p + 1) \in 1..(Size + 1)
    BY <1>1 DEF AfterLeaf, Advance
  <2>2. \A p \in 1..(Size - 1) : DocsOfLeaf(p + 1) \subseteq query.acceptDocs
    BY DEF DocsOfLeaf, LiveDocs
  <2>3. \A p \in 1..(Size - 1) : \A r \in 1..(Size + 1) : TermsAt(r) \subseteq Terms \cup {NoTerm}
    BY <1>1, IndexFacts DEF TermsAt
  <2> QED BY <2>1, <2>2, <2>3
<1>10. CASE Divide
  <2>1. PICK subCells \in SubCellLists(Head(cells)) : cells' = subCells \o Tail(cells)
    BY <1>10 DEF Divide
  <2>2. subCells \in Seq(Cells) /\ Tail(cells) \in Seq(Cells)
    BY <1>10, <1>5, <2>1, SubCellFacts DEF Divide
  <2>3. cells' \in Seq(Cells)
    BY <2>1, <2>2, ConcatProperties
  <2> QED BY <1>10, <1>1, <1>9, <2>3 DEF Divide
<1>11. CASE StartScan
  BY <1>11, <1>1, <1>5, <1>9 DEF StartScan
<1>12. CASE ScanTerm
  <2>1. bits' \subseteq query.acceptDocs
    BY <1>12 DEF ScanTerm, LiveDocs
  <2>2. pos' \in 1..(Size + 1)
    BY <1>12, <1>1 DEF ScanTerm, Advance
  <2>3. term' \in Terms \cup {NoTerm}
    BY <1>12, <1>1, <2>2, IndexFacts DEF ScanTerm
  <2> QED BY <1>12, <1>1, <2>1, <2>2, <2>3 DEF ScanTerm
<1>13. CASE EndScan
  BY <1>13, <1>1 DEF EndScan
<1>14. CASE UNCHANGED vars
  BY <1>14, <1>1 DEF vars
<1> QED BY <1>2, <1>3, <1>4, <1>6, <1>7, <1>8, <1>10, <1>11, <1>12, <1>13, <1>14 DEF Next

LEMMA TypeInit == Init => Inputs /\ TypeOK
<1> SUFFICES ASSUME Init
             PROVE  Inputs /\ TypeOK
  OBVIOUS
<1>1. Inputs
  BY DEF Init, Inputs
<1>2. Size \in Nat
  BY <1>1, IndexFacts
<1> QED BY <1>1, <1>2 DEF Init, TypeOK

(* The variables of the filter keep their types; in particular the bits    *)
(* are live documents and the cursor never leaves the terms by more than   *)
(* one.                                                                    *)
THEOREM TypeCorrect == Spec => []TypeOK
<1>1. Inputs /\ TypeOK /\ [Next]_vars => (Inputs /\ TypeOK)'
  BY InputsStep, TypeStep
<1> QED BY TypeInit, <1>1, PTL DEF Spec

-----------------------------------------------------------------------------

(* What is left of a stack, and what was on it.                            *)
LEMMA TailFacts ==
  ASSUME TypeOK, cells # << >>
  PROVE  /\ Len(cells) \in Nat \ {0} /\ Tail(cells) \in Seq(Cells)
         /\ Len(Tail(cells)) = Len(cells) - 1
         /\ Head(cells) = cells[1] /\ Head(cells) \in Cells
         /\ \A i \in 1..Len(Tail(cells)) : Tail(cells)[i] = cells[i + 1]
         /\ \A i \in 1..Len(cells) :
              i = 1 \/ (i - 1 \in 1..Len(Tail(cells)) /\ Tail(cells)[i - 1] = cells[i])
<1>1. cells \in Seq(Cells)
  BY DEF TypeOK
<1>2. /\ Head(cells) \in Cells /\ Tail(cells) \in Seq(Cells)
      /\ Len(Tail(cells)) = Len(cells) - 1
      /\ \A i \in 1..Len(Tail(cells)) : Tail(cells)[i] = cells[i + 1]
  BY <1>1, HeadTailProperties
<1>3. Len(cells) \in Nat \ {0} /\ Head(cells) = cells[1]
  BY <1>1, EmptySeq
<1> QED BY <1>2, <1>3

(* Dropping the top of the stack keeps its order and depth; the top comes  *)
(* before all that is left.                                                *)
LEMMA Popped ==
  ASSUME TypeOK, StackSorted, StackDepth, cells # << >>
  PROVE  /\ \A i, j \in 1..Len(Tail(cells)) : i < j => Before(Tail(cells)[i], Tail(cells)[j])
         /\ \A i \in 1..Len(Tail(cells)) :
              /\ Before(Head(cells), Tail(cells)[i])
              /\ Tail(cells)[i] \in query.visits
              /\ Len(Tail(cells)[i]) <= query.detailLevel
         /\ Head(cells) \in query.visits /\ Len(Head(cells)) <= query.detailLevel
<1> DEFINE rest == Tail(cells)
<1>1. /\ Len(cells) \in Nat \ {0}
      /\ Len(rest) = Len(cells) - 1
      /\ Head(cells) = cells[1]
      /\ \A i \in 1..Len(rest) : rest[i] = cells[i + 1]
  BY TailFacts
<1>2. \A i \in 1..Len(rest) : i + 1 \in 1..Len(cells)
  BY <1>1
<1>3. \A i, j \in 1..Len(rest) : i < j => Before(rest[i], rest[j])
  BY <1>1, <1>2 DEF StackSorted
<1>4. \A i \in 1..Len(rest) : Before(Head(cells), rest[i])
  BY <1>1, <1>2 DEF StackSorted
<1>5. \A i \in 1..Len(rest) : rest[i] \in query.visits /\ Len(rest[i]) <= query.detailLevel
  BY <1>1, <1>2 DEF StackDepth
<1>6. Head(cells) \in query.visits /\ Len(Head(cells)) <= query.detailLevel
  BY <1>1 DEF StackDepth
<1> QED BY <1>3, <1>4, <1>5, <1>6

(* An incomplete cell of the stack is above the detail level.              *)
LEMMA Incomplete ==
  ASSUME Inputs, TypeOK, StackSorted, StackDepth, cells # << >>, ~IsComplete(Head(cells))
  PROVE  Len(Head(cells)) < query.detailLevel /\ Len(Head(cells)) < MaxLevels
<1>1. Len(Head(cells)) <= query.detailLevel /\ Len(Head(cells)) # query.detailLevel
  BY Popped DEF IsComplete
<1>2. Head(cells) \in Cells /\ query.detailLevel \in 1..MaxLevels
  BY TailFacts, QueryFacts
<1>3. Len(Head(cells)) \in Nat
  BY <1>2, CellsAreSequences
<1> QED BY <1>1, <1>2, <1>3, MaxLevelsAssumption

LEMMA StackStep ==
  ASSUME Inputs, TypeOK, StackSorted, StackDepth, [Next]_vars
  PROVE  (StackSorted /\ StackDepth)'
<1> DEFINE rest == Tail(cells)
<1>1. index' = index /\ query' = query
  BY InputsStep
<1>2. CASE NoField \/ Finish
  BY <1>1, <1>2 DEF NoField, Finish, StackSorted, StackDepth
<1>3. CASE Start
  <2>1. cells' \in SubCellLists(WorldCell) /\ pc' = "pop"
    BY <1>3 DEF Start
  <2>2. Len(WorldCell) = 0 /\ query.detailLevel \in 1..MaxLevels
    BY QueryFacts, EmptySeq DEF WorldCell
  <2> QED BY <1>1, <2>1, <2>2, SubCellFacts DEF StackSorted, StackDepth
<1>4. CASE SeekEnd \/ SeekNotFound \/ CollectCell
  <2>1. cells # << >> /\ cells' = rest /\ pc' # "scan"
    BY <1>4 DEF SeekEnd, SeekNotFound, CollectCell
  <2> QED BY <1>1, <2>1, Popped DEF StackSorted, StackDepth
<1>5. CASE Divide
  <2> DEFINE h == Head(cells)
  <2>1. cells # << >> /\ ~IsComplete(h) /\ pc' = "pop"
    BY <1>5 DEF Divide
  <2>2. PICK sub \in SubCellLists(h) : cells' = sub \o rest
    BY <1>5 DEF Divide
  <2>3. h \in Cells /\ rest \in Seq(Cells)
    BY <2>1, TailFacts
  <2>4. /\ sub \in Seq(Cells)
        /\ \A m \in 1..Len(sub) : /\ sub[m] \in query.visits
                                  /\ Len(sub[m]) = Len(h) + 1
                                  /\ \E i \in 1..Arity : sub[m] = Append(h, i)
        /\ \A m, n \in 1..Len(sub) : m < n => Before(sub[m], sub[n])
    BY <2>3, SubCellFacts
  <2>5. /\ Len(cells') = Len(sub) + Len(rest)
        /\ \A i \in 1..(Len(sub) + Len(rest)) :
             cells'[i] = IF i <= Len(sub) THEN sub[i] ELSE rest[i - Len(sub)]
    BY <2>2, <2>3, <2>4, ConcatProperties
  <2>6. Len(sub) \in Nat /\ Len(rest) \in Nat
    BY <2>3, <2>4, LenProperties
  <2>7. ASSUME NEW m \in 1..Len(sub), NEW n \in 1..Len(rest)
        PROVE  Before(sub[m], rest[n])
    <3>1. PICK i \in 1..Arity : sub[m] = Append(h, i)
      BY <2>4
    <3>2. Before(h, rest[n])
      BY <2>1, Popped
    <3>3. i \in Nat /\ h \in Seq(Nat) /\ rest[n] \in Seq(Nat)
      BY <2>3, ArityAssumption, CellsAreSequences, ElementOfSeq
    <3> QED BY <3>1, <3>2, <3>3, BeforeAppend
  <2>8. \A i \in 1..Len(cells') :
          \/ i \in 1..Len(sub) /\ cells'[i] = sub[i]
          \/ /\ i > Len(sub) /\ i - Len(sub) \in 1..Len(rest)
             /\ cells'[i] = rest[i - Len(sub)]
    BY <2>5, <2>6
  <2>9. ASSUME NEW i \in 1..Len(cells'), NEW j \in 1..Len(cells'), i < j
        PROVE  Before(cells'[i], cells'[j])
    <3>1. CASE j \in 1..Len(sub) /\ cells'[j] = sub[j]
      <4>1. i \in 1..Len(sub) /\ cells'[i] = sub[i]
        BY <2>6, <2>8, <2>9, <3>1
      <4> QED BY <2>4, <2>9, <3>1, <4>1
    <3>2. CASE j > Len(sub) /\ j - Len(sub) \in 1..Len(rest) /\ cells'[j] = rest[j - Len(sub)]
      <4>1. CASE i \in 1..Len(sub) /\ cells'[i] = sub[i]
        BY <2>7, <3>2, <4>1
      <4>2. CASE i > Len(sub) /\ i - Len(sub) \in 1..Len(rest) /\ cells'[i] = rest[i - Len(sub)]
        <5>1. i - Len(sub) < j - Len(sub)
          BY <2>6, <2>9
        <5> QED BY <2>1, <3>2, <4>2, <5>1, Popped
      <4> QED BY <2>8, <4>1, <4>2
    <3> QED BY <2>8, <3>1, <3>2
  <2>10. ASSUME NEW i \in 1..Len(cells')
         PROVE  cells'[i] \in query.visits /\ Len(cells'[i]) <= query.detailLevel
    <3>1. CASE i \in 1..Len(sub) /\ cells'[i] = sub[i]
      <4>1. Len(h) < query.detailLevel /\ Len(h) \in Nat /\ query.detailLevel \in Nat
        BY <2>1, <2>3, Incomplete, CellsAreSequences, QueryFacts
      <4>2. sub[i] \in query.visits /\ Len(sub[i]) = Len(h) + 1
        BY <2>4, <3>1
      <4> QED BY <3>1, <4>1, <4>2
    <3>2. CASE i - Len(sub) \in 1..Len(rest) /\ cells'[i] = rest[i - Len(sub)]
      BY <2>1, <3>2, Popped
    <3> QED BY <2>8, <3>1, <3>2
  <2> QED BY <1>1, <2>1, <2>9, <2>10 DEF StackSorted, StackDepth
<1>6. CASE StartScan
  <2>1. cells # << >> /\ ~IsComplete(Head(cells)) /\ cells' = rest /\ cell' = Head(cells)
    BY <1>6 DEF StartScan
  <2> QED BY <1>1, <2>1, Popped, Incomplete DEF StackSorted, StackDepth
<1>7. CASE ScanTerm \/ EndScan
  BY <1>1, <1>7 DEF ScanTerm, EndScan, StackSorted, StackDepth
<1>8. CASE UNCHANGED vars
  BY <1>8 DEF vars, StackSorted, StackDepth
<1> QED BY <1>2, <1>3, <1>4, <1>5, <1>6, <1>7, <1>8 DEF Next

LEMMA StackInit == Init => StackSorted /\ StackDepth
<1> SUFFICES ASSUME Init
             PROVE  StackSorted /\ StackDepth
  OBVIOUS
<1>1. Len(cells) = 0 /\ pc = "start"
  BY EmptySeq DEF Init
<1> QED BY <1>1 DEF StackSorted, StackDepth

(* "It's in sorted order" (RecursivePrefixTreeFilter.java:91): whatever    *)
(* cells the query visits, the stack is ordered as the terms are, and none *)
(* of its cells is inside another.                                         *)
THEOREM StackIsSorted == Spec => []StackSorted
<1> DEFINE I == Inputs /\ TypeOK /\ StackSorted /\ StackDepth
<1>1. Init => I
  BY TypeInit, StackInit
<1>2. I /\ [Next]_vars => I'
  BY InputsStep, TypeStep, StackStep
<1>3. I => StackSorted
  OBVIOUS
<1> QED BY <1>1, <1>2, <1>3, PTL DEF Spec

(* What follows a cell that has an indexed descendant or leaf is one.      *)
LEMMA NextTermStarts ==
  ASSUME Inputs, NEW c \in Cells, Len(c) < MaxLevels,
         NEW p \in 1..Size, index.terms[p] = c
  PROVE  p < Size /\ StartsWith(index.terms[p + 1], c)
<1>1. c \in Terms /\ ~IsMarked(c) /\ Level(c) = Len(c)
  <2>1. c \in Terms
    BY IndexFacts
  <2>2. c[Len(c)] # LeafByte
    BY CellsAreSequences, ArityAssumption DEF LeafByte
  <2> QED BY <2>1, <2>2, LevelOfTerm DEF IsMarked
<1>2. PICK j \in 1..Size : j # p /\ StartsWith(index.terms[j], c)
  BY <1>1, IndexFacts DEF ParentsExtended, Size
<1>3. /\ Size \in Nat /\ c \in Seq(Nat)
      /\ \A r \in 1..Size : index.terms[r] \in Seq(Nat)
  BY IndexFacts, CellsAreSequences, TermsAreSequences
<1>4. p < j
  <2> SUFFICES ASSUME j < p
               PROVE  FALSE
    BY <1>2
  <2>1. Less(index.terms[j], c)
    BY IndexFacts
  <2>2. index.terms[j] # c
    BY <1>3, <2>1, LessIrreflexive
  <2> QED BY <1>2, <1>3, <2>1, <2>2, StartsWithLess, LessAsymmetric
<1>5. p < Size /\ p + 1 \in 1..Size
  BY <1>3, <1>4
<1>6. CASE j = p + 1
  BY <1>2, <1>5, <1>6
<1>7. CASE p + 1 < j
  <2>1. Less(c, index.terms[p + 1]) /\ Less(index.terms[p + 1], index.terms[j])
    BY <1>3, <1>5, <1>7, IndexFacts
  <2> QED BY <1>2, <1>3, <1>5, <2>1, BetweenStartsWith
<1> QED BY <1>3, <1>4, <1>5, <1>6, <1>7

(* The assertion of RecursivePrefixTreeFilter.java:118 cannot fail on an   *)
(* index that PrefixTreeStrategy wrote.                                    *)
THEOREM NextTermAssertionHolds == Spec => []NextTermAssertion
<1> DEFINE I == Inputs /\ TypeOK /\ StackSorted /\ StackDepth
<1>1. Init => I
  BY TypeInit, StackInit
<1>2. I /\ [Next]_vars => I'
  BY InputsStep, TypeStep, StackStep
<1>3. I => NextTermAssertion
  <2> SUFFICES ASSUME I, NEW p \in 1..Size, cells # << >>, Found(p), ~IsComplete(Head(cells))
               PROVE  p < Size /\ StartsWith(index.terms[p + 1], Head(cells))
    BY DEF NextTermAssertion
  <2>1. Head(cells) \in Cells /\ Len(Head(cells)) < MaxLevels
    BY TailFacts, Incomplete
  <2> QED BY <2>1, NextTermStarts DEF Found
<1> QED BY <1>1, <1>2, <1>3, PTL DEF Spec

-----------------------------------------------------------------------------

(* What the filter owes depends on the inputs only.                        *)
LEMMA HitStep ==
  ASSUME Inputs, [Next]_vars
  PROVE  Size' = Size /\ \A q, d : Hit(d, q)' <=> Hit(d, q)
<1>1. index' = index /\ query' = query
  BY InputsStep
<1> QED BY <1>1 DEF Size, Hit, Matches, Reached, Rooted

(* Every cell above an owed term is itself indexed, with that document.    *)
LEMMA HitRoot ==
  ASSUME Inputs, NEW q \in 1..Size, NEW d, Hit(d, q),
         NEW c \in Cells, StartsWith(index.terms[q], c)
  PROVE  \E r \in 1..Size : index.terms[r] = c /\ d \in index.docs[r]
<1>1. index.terms[q] \in Terms
  BY IndexFacts
<1>2. Len(c) \in 1..Level(index.terms[q]) /\ SubSeq(index.terms[q], 1, Len(c)) = c
  BY <1>1, PrefixOfTerm, LevelOfTerm, CellsAreSequences
<1> QED BY <1>2 DEF Hit, Rooted

(* seekCeil() finds the term of a cell if there is one.                    *)
LEMMA SeekFinds ==
  ASSUME Inputs, NEW c \in Cells, NEW p \in 1..(Size + 1), IsCeil(p, c),
         NEW r \in 1..Size, index.terms[r] = c
  PROVE  p = r
<1>1. Size \in Nat /\ c \in Seq(Nat)
  BY IndexFacts, CellsAreSequences
<1>2. ~Less(c, c)
  BY <1>1, LessIrreflexive
<1>3. ~(r < p)
  BY <1>1, <1>2 DEF IsCeil
<1>4. ~(p < r)
  BY <1>1, IndexFacts DEF IsCeil
<1> QED BY <1>1, <1>3, <1>4

(* Below an incomplete cell, at p, what is owed comes after the cell's     *)
(* term: it is the leaf right after it, or deeper than the cell.           *)
LEMMA HitBelow ==
  ASSUME Inputs, NEW c \in Cells, Len(c) < query.detailLevel,
         NEW p \in 1..Size, index.terms[p] = c,
         NEW q \in 1..Size, NEW d, Hit(d, q), StartsWith(index.terms[q], c)
  PROVE  /\ p + 1 <= q
         /\ \/ Len(c) < Level(index.terms[q])
            \/ q = p + 1 /\ IsLeafTerm(index.terms[p + 1])
<1> DEFINE t == index.terms[q]
<1>1. /\ Size \in Nat /\ c \in Seq(Nat) /\ t \in Terms /\ t \in Seq(Nat)
      /\ \A r \in 1..Size : index.terms[r] \in Seq(Nat)
      /\ Len(c) \in 1..MaxLevels /\ query.detailLevel \in 1..MaxLevels
  BY IndexFacts, CellsAreSequences, TermsAreSequences, QueryFacts
<1>2. ~IsMarked(c) /\ Level(c) = Len(c)
  <2>1. c[Len(c)] # LeafByte
    BY CellsAreSequences, ArityAssumption DEF LeafByte
  <2> QED BY <2>1 DEF IsMarked, Level
<1>3. t # c
  BY <1>1, <1>2 DEF Hit, Matches, IsLeafTerm
<1>4. Less(c, t) /\ ~Less(t, c)
  BY <1>1, <1>3, StartsWithLess, LessAsymmetric
<1>5. p < q
  <2>1. p # q
    BY <1>3
  <2>2. ~(q < p)
    BY <1>4, IndexFacts
  <2> QED BY <1>1, <2>1, <2>2
<1>6. Len(c) <= Level(t) /\ Level(t) \in Nat
  BY <1>1, PrefixOfTerm, LevelOfTerm
<1>7. CASE Level(t) = Len(c)
  <2>1. t = Marked(c)
    BY <1>1, <1>3, <1>7, TermOfCell
  <2>2. q = p + 1
    <3> SUFFICES ASSUME p + 1 < q
                 PROVE  FALSE
      BY <1>1, <1>5
    <3>1. p + 1 \in 1..Size /\ p < p + 1
      BY <1>1
    <3>2. Less(c, index.terms[p + 1]) /\ Less(index.terms[p + 1], t)
      BY <3>1, IndexFacts
    <3> QED BY <1>1, <2>1, <3>1, <3>2, NothingBetweenMarked
  <2>3. IsLeafTerm(t)
    BY <1>1, <1>7 DEF Hit, Matches
  <2> QED BY <1>1, <2>2, <2>3
<1> QED BY <1>1, <1>5, <1>6, <1>7

LEMMA ScanCursorStep ==
  ASSUME Inputs, TypeOK, ScanCursor, [Next]_vars
  PROVE  ScanCursor'
<1>1. index' = index /\ Size' = Size /\ Size \in Nat
  BY InputsStep, IndexFacts DEF Size
<1>2. CASE pc' # "scan"
  BY <1>2 DEF ScanCursor
<1>3. CASE StartScan
  <2>1. PICK p \in 1..(Size - 1) :
          /\ Found(p)
          /\ pos' = AfterLeaf(p + 1)
          /\ term' \in TermsAt(AfterLeaf(p + 1))
    BY <1>3 DEF StartScan
  <2>2. p \in 1..Size /\ index.terms[p] = cell' /\ p < pos'
    BY <1>1, <1>3, <2>1 DEF StartScan, Found, AfterLeaf, Advance
  <2>3. pos' <= Size => term' = index.terms[pos']
    BY <2>1 DEF TermsAt
  <2> QED BY <1>1, <2>2, <2>3 DEF ScanCursor
<1>4. CASE ScanTerm
  <2>1. PICK p \in 1..Size : p < pos /\ index.terms[p] = cell
    BY <1>4 DEF ScanTerm, ScanCursor
  <2>2. p < pos' /\ cell' = cell
    BY <1>1, <1>4, <2>1 DEF ScanTerm, Advance, TypeOK
  <2>3. pos' <= Size => term' = index.terms[pos']
    BY <1>4 DEF ScanTerm
  <2> QED BY <1>1, <2>1, <2>2, <2>3 DEF ScanCursor
<1>5. CASE UNCHANGED vars
  BY <1>5 DEF vars, ScanCursor, Size
<1> QED BY <1>2, <1>3, <1>4, <1>5 DEF Next, NoField, Start, Finish, SeekEnd,
           SeekNotFound, CollectCell, Divide, EndScan

(* No step makes the filter forget a document that it owes.                *)
LEMMA CoverageStep ==
  ASSUME IInv, [Next]_vars
  PROVE  Coverage'
<1> USE DEF IInv
<1> SUFFICES ASSUME NEW q \in 1..Size, NEW d \in Docs, Hit(d, q), pc' # "start"
             PROVE  Pending(d, q)'
  BY HitStep DEF Coverage
<1> DEFINE t == index.terms[q]
           h == Head(cells)
           rest == Tail(cells)
<1>1. index' = index /\ Size' = Size /\ Size \in Nat
  BY InputsStep, IndexFacts DEF Size
<1>2. t \in Terms /\ t \in Seq(Nat) /\ Len(t) >= 1 /\ Level(t) \in 1..MaxLevels
  BY IndexFacts, TermsAreSequences, LevelOfTerm
<1>3. pc # "start" => Pending(d, q)
  BY DEF Coverage
(* A document owed because of the stack is owed because of its top or of   *)
(* the rest, and then its term is below an indexed cell.                   *)
<1>4. ASSUME pc = "pop", cells # << >>, d \notin bits
      PROVE  \/ StartsWith(t, h)
             \/ \E i \in 1..Len(rest) : StartsWith(t, rest[i])
  BY <1>3, <1>4, TailFacts DEF Pending
<1>5. ASSUME NEW p \in 1..(Size + 1), pc = "pop", cells # << >>, IsCeil(p, h), StartsWith(t, h)
      PROVE  p \in 1..Size /\ index.terms[p] = h /\ d \in index.docs[p]
  BY <1>5, TailFacts, HitRoot, SeekFinds
<1>6. d \in query.acceptDocs
  BY DEF Hit
<1>7. CASE NoField
  BY <1>1, <1>7 DEF NoField
<1>8. CASE Start
  <2>1. StartsWith(t, WorldCell) /\ Len(WorldCell) = 0
    BY <1>2, EmptySeq DEF StartsWith, WorldCell
  <2>2. \E m \in 1..Len(cells') : StartsWith(t, cells'[m])
    BY <1>2, <1>8, <2>1, SubCellsCover DEF Start, Hit
  <2> QED BY <1>1, <1>8, <2>2 DEF Start, Pending
<1>9. CASE Finish
  <2>1. Len(cells) = 0
    BY <1>9, EmptySeq DEF Finish
  <2> QED BY <1>3, <1>9, <2>1 DEF Finish, Pending
<1>10. CASE SeekEnd
  <2>1. IsCeil(Size + 1, h) /\ cells # << >> /\ pc = "pop" /\ bits' = bits
    BY <1>10 DEF SeekEnd
  <2>2. ~StartsWith(t, h)
    BY <1>1, <1>5, <2>1
  <2>3. ASSUME NEW i \in 1..Len(rest), StartsWith(t, rest[i])
        PROVE  FALSE
    <3>1. rest[i] \in Cells /\ h \in Cells /\ Before(h, rest[i])
      BY <2>1, TailFacts, Popped, ElementOfSeq
    <3>2. PICK r \in 1..Size : index.terms[r] = rest[i]
      BY <2>3, <3>1, HitRoot
    <3>3. Size \in Nat /\ r \in 1..((Size + 1) - 1)
      BY <1>1, <3>2
    <3>4. Less(index.terms[r], h)
      BY <2>1, <3>3 DEF IsCeil
    <3>5. Less(h, rest[i])
      BY <3>1 DEF Less
    <3> QED BY <3>1, <3>2, <3>4, <3>5, CellsAreSequences, LessAsymmetric
  <2> QED BY <1>4, <2>1, <2>2, <2>3 DEF Pending
<1>11. CASE SeekNotFound
  <2>1. /\ cells # << >> /\ pc = "pop" /\ pc' = "pop" /\ bits' = bits /\ cells' = rest
        /\ \E p \in 1..Size : IsCeil(p, h) /\ index.terms[p] # h
    BY <1>11 DEF SeekNotFound
  <2>2. ~StartsWith(t, h)
    BY <1>1, <1>5, <2>1
  <2> QED BY <1>1, <1>4, <2>1, <2>2 DEF Pending
<1>12. CASE CollectCell
  <2>1. PICK p \in 1..Size : IsCeil(p, h) /\ bits' = bits \cup LiveDocs(p)
    BY <1>12 DEF CollectCell, Found
  <2>2. cells # << >> /\ pc = "pop" /\ pc' = "pop" /\ cells' = rest
    BY <1>12 DEF CollectCell
  <2>3. CASE StartsWith(t, h)
    BY <1>1, <1>5, <1>6, <2>1, <2>2, <2>3 DEF LiveDocs, Pending
  <2> QED BY <1>1, <1>4, <2>1, <2>2, <2>3 DEF Pending
<1>13. CASE Divide
  <2>1. PICK p \in 1..(Size - 1) : Found(p) /\ bits' = bits \cup DocsOfLeaf(p + 1)
    BY <1>13 DEF Divide
  <2>2. PICK sub \in SubCellLists(h) : cells' = sub \o rest
    BY <1>13 DEF Divide
  <2>3. cells # << >> /\ pc = "pop" /\ pc' = "pop" /\ ~IsComplete(h)
    BY <1>13 DEF Divide
  <2>4. h \in Cells /\ rest \in Seq(Cells) /\ sub \in Seq(Cells)
    BY <2>2, <2>3, TailFacts, SubCellFacts
  <2>5. /\ \A m \in 1..Len(sub) : m \in 1..Len(cells') /\ cells'[m] = sub[m]
        /\ \A m \in 1..Len(rest) :
             m + Len(sub) \in 1..Len(cells') /\ cells'[m + Len(sub)] = rest[m]
    <3>1. /\ Len(cells') = Len(sub) + Len(rest)
          /\ \A i \in 1..(Len(sub) + Len(rest)) :
               cells'[i] = IF i <= Len(sub) THEN sub[i] ELSE rest[i - Len(sub)]
      BY <2>2, <2>4, ConcatProperties
    <3>2. Len(sub) \in Nat /\ Len(rest) \in Nat
      BY <2>4, LenProperties
    <3> DEFINE m1 == Len(sub)
               m2 == Len(rest)
    <3>3. m1 \in Nat /\ m2 \in Nat /\ Len(cells') = m1 + m2
      BY <3>1, <3>2
    <3>4. \A i \in 1..(m1 + m2) : cells'[i] = IF i <= m1 THEN sub[i] ELSE rest[i - m1]
      BY <3>1
    <3> HIDE DEF m1, m2, rest
    <3>5. ASSUME NEW m \in 1..m1 PROVE m \in 1..Len(cells') /\ cells'[m] = sub[m]
      BY <3>3, <3>4
    <3>6. ASSUME NEW m \in 1..m2
          PROVE  m + m1 \in 1..Len(cells') /\ cells'[m + m1] = rest[m]
      <4>1. m + m1 \in 1..(m1 + m2) /\ ~(m + m1 <= m1) /\ (m + m1) - m1 = m
        BY <3>3
      <4> QED BY <3>3, <3>4, <4>1
    <3> QED BY <3>5, <3>6 DEF m1, m2
  <2>6. CASE StartsWith(t, h)
    <3>1. \/ Len(h) < Level(t)
          \/ q = p + 1 /\ IsLeafTerm(index.terms[p + 1])
      BY <1>1, <2>1, <2>3, <2>4, <2>6, Incomplete, HitBelow DEF Found
    <3>2. CASE Len(h) < Level(t)
      <4>1. \E m \in 1..Len(sub) : StartsWith(t, sub[m])
        BY <2>2, <2>4, <2>6, <3>2, SubCellsCover DEF Hit
      <4> QED BY <1>1, <2>3, <2>5, <4>1 DEF Pending
    <3>3. CASE q = p + 1 /\ IsLeafTerm(index.terms[p + 1])
      BY <1>6, <2>1, <3>3 DEF DocsOfLeaf, LiveDocs, Pending, Hit
    <3> QED BY <3>1, <3>2, <3>3
  <2> QED BY <1>1, <1>4, <2>1, <2>3, <2>5, <2>6 DEF Pending
<1>14. CASE StartScan
  <2>1. PICK p \in 1..(Size - 1) : /\ Found(p)
                                   /\ pos' = AfterLeaf(p + 1)
                                   /\ bits' = bits \cup DocsOfLeaf(p + 1)
    BY <1>14 DEF StartScan
  <2>2. /\ cells # << >> /\ pc = "pop" /\ pc' = "scan" /\ ~IsComplete(h)
        /\ cells' = rest /\ cell' = h
    BY <1>14 DEF StartScan
  <2>3. CASE StartsWith(t, h)
    <3>1. p + 1 <= q /\ p \in 1..Size
      BY <1>1, <2>1, <2>2, <2>3, TailFacts, Incomplete, HitBelow DEF Found
    <3>2. CASE q = p + 1 /\ IsLeafTerm(index.terms[p + 1])
      BY <1>6, <2>1, <3>2 DEF DocsOfLeaf, LiveDocs, Pending, Hit
    <3>3. CASE ~(q = p + 1 /\ IsLeafTerm(index.terms[p + 1]))
      <4>1. pos' <= q
        BY <1>1, <2>1, <3>1, <3>3 DEF AfterLeaf, Advance
      <4> QED BY <1>1, <2>2, <2>3, <4>1 DEF Pending
    <3> QED BY <3>2, <3>3
  <2> QED BY <1>1, <1>4, <2>1, <2>2, <2>3 DEF Pending
<1>15. CASE ScanTerm
  <2>1. pc = "scan" /\ pc' = "scan" /\ cells' = cells /\ cell' = cell /\ pos' = Advance(pos)
    BY <1>15 DEF ScanTerm
  <2>2. bits \subseteq bits'
    BY <1>15 DEF ScanTerm
  <2>3. ASSUME StartsWith(t, cell), pos <= q
        PROVE  d \in bits' \/ pos' <= q
    <3>1. CASE pos = q
      <4>1. term = t /\ Matches(t) /\ d \in LiveDocs(q)
        BY <1>6, <2>1, <3>1 DEF ScanCursor, Hit, LiveDocs
      <4> QED BY <1>15, <3>1, <4>1 DEF ScanTerm
    <3>2. CASE pos # q
      BY <1>1, <2>1, <2>3, <3>2 DEF Advance, TypeOK
    <3> QED BY <3>1, <3>2
  <2> QED BY <1>1, <1>3, <2>1, <2>2, <2>3 DEF Pending
<1>16. CASE EndScan
  <2>1. pc = "scan" /\ ~InScan /\ pc' = "pop" /\ cells' = cells /\ bits' = bits
    BY <1>16 DEF EndScan
  <2>2. ASSUME StartsWith(t, cell), pos <= q
        PROVE  FALSE
    <3>1. PICK p \in 1..Size : p < pos /\ index.terms[p] = cell
      BY <2>1 DEF ScanCursor
    <3>2. pos \in 1..Size /\ term = index.terms[pos]
      BY <1>1, <2>1, <2>2, <3>1 DEF ScanCursor, TypeOK
    <3>3. /\ term \in Seq(Nat) /\ Len(term) >= 1 /\ cell \in Seq(Nat)
      BY <3>1, <3>2, IndexFacts, TermsAreSequences
    <3>4. term # NoTerm
      BY <3>3, EmptySeq DEF NoTerm
    <3>5. ~StartsWith(term, cell)
      BY <2>1, <3>4 DEF InScan
    <3>6. pos # q
      BY <2>2, <3>2, <3>5
    <3>7. Less(cell, term) /\ Less(term, t)
      BY <1>1, <2>2, <3>1, <3>2, <3>6, IndexFacts
    <3> QED BY <1>2, <2>2, <3>3, <3>5, <3>7, BetweenStartsWith
  <2> QED BY <1>1, <1>3, <2>1, <2>2 DEF Pending
<1>17. CASE UNCHANGED vars
  BY <1>3, <1>17 DEF vars, Pending
<1> QED BY <1>7, <1>8, <1>9, <1>10, <1>11, <1>12, <1>13, <1>14, <1>15, <1>16, <1>17 DEF Next

(* No required document is missing when getDocIdSet() returns, for every   *)
(* index, query, detail level and scan level: neither going below cells    *)
(* only that have a term, nor the leaf markers taken in passing, nor the   *)
(* break of line 109 loses one.                                            *)
THEOREM FilterIsComplete == Spec => []Complete
<1>1. Init => IInv
  <2> SUFFICES ASSUME Init
               PROVE  ScanCursor /\ Coverage
    BY TypeInit, StackInit DEF IInv
  <2> QED BY DEF Init, ScanCursor, Coverage
<1>2. IInv /\ [Next]_vars => IInv'
  BY InputsStep, TypeStep, StackStep, ScanCursorStep, CoverageStep DEF IInv
<1>3. IInv => Complete
  <2> SUFFICES ASSUME IInv, Returned, NEW d \in RequiredDocs
               PROVE  d \in bits
    BY DEF Complete
  <2>1. PICK q \in 1..Size : Hit(d, q)
    BY DEF RequiredDocs, Hit
  <2>2. d \in Docs
    BY <2>1, QueryFacts DEF IInv, Hit
  <2> QED BY <2>1, <2>2 DEF IInv, Coverage, Pending, Returned
<1> QED BY <1>1, <1>2, <1>3, PTL DEF Spec

-----------------------------------------------------------------------------
(***************************************************************************)
(* What RecursivePrefixTreeFilter may return, on every index and for every *)
(* query that satisfies the module's assumptions: only documents with a    *)
(* cell that touches the query, but for those of a mistaken leaf marker;   *)
(* above the last level exactly the former, whatever the scan level is;    *)
(* and so it implements SpatialFilter.                                     *)
(*                                                                         *)
(* To the invariant of completeness, IInv, are added the depth of the      *)
(* stack (AboveScan), the term of an exhausted cursor (LastTerm) and what  *)
(* the collected documents are (Gathered).                                 *)
(***************************************************************************)

(* The descent does not go below the scan level.                           *)
AboveScan == \A i \in 1..Len(cells) : Len(cells[i]) <= ScanLevel

(* Of an exhausted cursor the scan sees null or the last term.             *)
LastTerm == pc = "scan" /\ ~(pos <= Size) => term \in { NoTerm, index.terms[Size] }

(* A document may be mistaken only where a cell of the last level but one  *)
(* is divided or scanned.                                                  *)
Gathered(d) ==
  \/ d \in TouchingDocs
  \/ /\ d \in MistakenDocs
     /\ query.detailLevel = MaxLevels
     /\ ScanLevel > MaxLevels - 2

SoundBits == \A d \in bits : Gathered(d)

SoundInv == IInv /\ AboveScan /\ LastTerm /\ SoundBits

-----------------------------------------------------------------------------

(* The cells above a term, and above the leaf marker of one of them.       *)
LEMMA CellAbove ==
  ASSUME NEW t \in Terms, NEW n \in 1..Level(t)
  PROVE  LET x == SubSeq(t, 1, n) IN
         /\ x \in Cells /\ Len(x) = n /\ \A i \in 1..n : x[i] = t[i]
         /\ ~IsMarked(x) /\ Level(x) = n /\ CellOf(x) = x
         /\ StartsWith(t, x)
         /\ IsMarked(Marked(x)) /\ Level(Marked(x)) = n /\ CellOf(Marked(x)) = x
         /\ \A m \in 1..n : /\ SubSeq(x, 1, m) = SubSeq(t, 1, m)
                            /\ SubSeq(Marked(x), 1, m) = SubSeq(t, 1, m)
<1> DEFINE x == SubSeq(t, 1, n)
           u == Marked(x)
<1>1. /\ t \in Seq(Nat) /\ Level(t) \in 1..MaxLevels /\ Level(t) <= Len(t)
      /\ n \in 1..Len(t) /\ \A i \in 1..n : t[i] \in 1..Arity
  BY TermsAreSequences, LevelOfTerm
<1>2. x \in Seq(Nat) /\ Len(x) = n /\ \A i \in 1..n : x[i] = t[i]
  BY <1>1, FirstBytes
<1>3. x \in Cells
  <2>1. \A i \in 1..n : x[i] \in 1..Arity
    BY <1>1, <1>2
  <2>2. x \in Seq(1..Arity)
    BY <1>2, <2>1
  <2> QED BY <1>1, <1>2, <2>2, MaxLevelsAssumption DEF Cells
<1>4. ~IsMarked(x)
  <2>1. n \in 1..n /\ t[n] \in 1..Arity /\ x[n] = t[n] /\ t[n] # 0
    BY <1>1, <1>2, ArityAssumption
  <2> QED BY <1>2, <2>1 DEF IsMarked, LeafByte
<1>5. Level(x) = n /\ CellOf(x) = x
  BY <1>2, <1>4 DEF Level, CellOf
<1>6. StartsWith(t, x)
  BY <1>1, <1>2 DEF StartsWith
<1>7. u \in Seq(Nat) /\ Len(u) = n + 1 /\ u[n + 1] = 0 /\ \A i \in 1..n : u[i] = x[i]
  BY <1>2 DEF Marked, LeafByte
<1>8. IsMarked(u) /\ Level(u) = n
  BY <1>2, <1>7 DEF IsMarked, Level, LeafByte
<1>9. CellOf(u) = x
  <2>1. CellOf(u) = SubSeq(u, 1, n)
    BY <1>2, <1>7, <1>8 DEF CellOf
  <2>2. SubSeq(u, 1, n) \in Seq(Nat) /\ Len(SubSeq(u, 1, n)) = n
        /\ \A i \in 1..n : SubSeq(u, 1, n)[i] = u[i]
    BY <1>2, <1>7, FirstBytes
  <2> QED BY <1>2, <1>7, <2>1, <2>2, SeqEqual
<1>10. ASSUME NEW m \in 1..n
       PROVE  SubSeq(x, 1, m) = SubSeq(t, 1, m) /\ SubSeq(u, 1, m) = SubSeq(t, 1, m)
  <2>1. /\ SubSeq(t, 1, m) \in Seq(Nat) /\ Len(SubSeq(t, 1, m)) = m
        /\ \A i \in 1..m : SubSeq(t, 1, m)[i] = t[i]
    BY <1>1, FirstBytes
  <2>2. /\ SubSeq(x, 1, m) \in Seq(Nat) /\ Len(SubSeq(x, 1, m)) = m
        /\ \A i \in 1..m : SubSeq(x, 1, m)[i] = x[i]
    BY <1>2, FirstBytes
  <2>3. /\ SubSeq(u, 1, m) \in Seq(Nat) /\ Len(SubSeq(u, 1, m)) = m
        /\ \A i \in 1..m : SubSeq(u, 1, m)[i] = u[i]
    BY <1>2, <1>7, FirstBytes
  <2>4. \A i \in 1..m : t[i] = x[i] /\ u[i] = x[i]
    BY <1>2, <1>7
  <2>5. SubSeq(x, 1, m) = SubSeq(t, 1, m)
    BY <2>1, <2>2, <2>4, SeqEqual
  <2>6. SubSeq(u, 1, m) = SubSeq(t, 1, m)
    BY <2>1, <2>3, <2>4, SeqEqual
  <2> QED BY <2>5, <2>6
<1> QED BY <1>2, <1>3, <1>4, <1>5, <1>6, <1>8, <1>9, <1>10

(* The cell of a term is the cell at its level.                            *)
LEMMA CellOfIsAbove ==
  ASSUME NEW t \in Terms
  PROVE  CellOf(t) = SubSeq(t, 1, Level(t))
<1>1. t \in Seq(Nat) /\ Len(t) \in 1..(MaxLevels + 1)
  BY TermsAreSequences
<1>2. CASE IsMarked(t)
  BY <1>1, <1>2 DEF CellOf, Level
<1>3. CASE ~IsMarked(t)
  <2>1. /\ SubSeq(t, 1, Len(t)) \in Seq(Nat) /\ Len(SubSeq(t, 1, Len(t))) = Len(t)
        /\ \A i \in 1..Len(t) : SubSeq(t, 1, Len(t))[i] = t[i]
    BY <1>1, FirstBytes
  <2>2. SubSeq(t, 1, Len(t)) = t
    BY <1>1, <2>1, SeqEqual
  <2> QED BY <1>3, <2>2 DEF CellOf, Level
<1> QED BY <1>2, <1>3

(* A term below a cell has the cells above that cell above itself.         *)
LEMMA CellsInCommon ==
  ASSUME NEW t \in Terms, NEW c \in Cells, StartsWith(t, c), NEW n \in 1..Len(c)
  PROVE  n \in 1..Level(t) /\ SubSeq(t, 1, n) = SubSeq(c, 1, n)
<1>1. Len(c) <= Level(t) /\ SubSeq(t, 1, Len(c)) = c
  BY PrefixOfTerm
<1>2. Len(c) \in Nat /\ Level(t) \in Nat /\ Len(c) \in 1..Level(t)
  BY <1>1, CellsAreSequences, LevelOfTerm
<1>3. SubSeq(SubSeq(t, 1, Len(c)), 1, n) = SubSeq(t, 1, n)
  BY <1>2, CellAbove
<1> QED BY <1>1, <1>2, <1>3

(* And so has a cell between the two.                                      *)
LEMMA CellsBelow ==
  ASSUME NEW t \in Terms, NEW c \in Cells, StartsWith(t, c), NEW n \in Len(c)..Level(t)
  PROVE  StartsWith(SubSeq(t, 1, n), c)
<1>1. Len(c) \in 1..MaxLevels /\ n \in 1..Level(t)
  BY CellsAreSequences, LevelOfTerm
<1>2. Len(SubSeq(t, 1, n)) = n /\ \A i \in 1..n : SubSeq(t, 1, n)[i] = t[i]
  BY <1>1, CellAbove
<1> QED BY <1>1, <1>2 DEF StartsWith

-----------------------------------------------------------------------------

(* What DocumentAssumption and GridAssumption say of the one index and the *)
(* one query of a run.                                                     *)
LEMMA DocumentFacts ==
  ASSUME Inputs, NEW p \in 1..Size, NEW d \in index.docs[p]
  PROVE  HeldToLeaf(index, d, index.terms[p]) /\ HasLeafBelow(index, d, index.terms[p])
BY DocumentAssumption, Zenon DEF Inputs, Size

LEMMA GridFacts ==
  ASSUME Inputs
  PROVE  /\ \A c \in query.within : \A n \in 1..query.detailLevel : \A x \in [1..n -> 1..Arity] :
              StartsWith(x, c) => x \in query.visits
         /\ \A c \in query.visits : \A n \in 1..Len(c) : SubSeq(c, 1, n) \in query.visits
         /\ query.detailLevel < MaxLevels => query.visits = query.meets
BY GridAssumption, Zenon DEF Inputs

(* The cells above the term t down to the detail level intersect the query.*)
Visited(t) ==
  \A n \in 1..Level(t) : n <= query.detailLevel => SubSeq(t, 1, n) \in query.visits

(* A leaf, or a term at or below the detail level, whose cells intersect   *)
(* the query makes its documents touch it.                                 *)
LEMMA TouchBy ==
  ASSUME Inputs, NEW q \in 1..Size, NEW d \in index.docs[q], d \in query.acceptDocs,
         IsLeafTerm(index.terms[q]) \/ Level(index.terms[q]) >= query.detailLevel,
         Visited(index.terms[q])
  PROVE  d \in TouchingDocs
<1> DEFINE t == index.terms[q]
           D == query.detailLevel
<1>1. t \in Terms /\ D \in Nat \ {0} /\ Level(t) \in Nat \ {0}
  BY IndexFacts, QueryFacts, LevelOfTerm
<1>2. CASE Level(t) <= D
  <2>1. CellOf(t) \in query.visits
    <3>1. Level(t) \in 1..Level(t)
      BY <1>1
    <3>2. SubSeq(t, 1, Level(t)) \in query.visits
      BY <1>2, <3>1 DEF Visited
    <3> QED BY <1>1, <3>2, CellOfIsAbove
  <2>2. Level(t) = D \/ IsLeafTerm(t)
    BY <1>1, <1>2
  <2> QED BY <1>2, <2>1, <2>2 DEF TouchingDocs
<1>3. CASE D < Level(t)
  <2>1. PICK k \in 1..Level(t) :
          /\ \A n \in 1..k : Holds(index, d, SubSeq(t, 1, n))
          /\ k = Level(t) \/ Holds(index, d, Marked(SubSeq(t, 1, k)))
    BY DocumentFacts DEF HeldToLeaf
  <2>2. CASE D <= k
    <3>1. D \in 1..k /\ D \in 1..Level(t)
      BY <1>1, <1>3, <2>2
    <3>2. PICK r \in 1..Size : index.terms[r] = SubSeq(t, 1, D) /\ d \in index.docs[r]
      BY <2>1, <3>1 DEF Holds, Size
    <3>3. Level(SubSeq(t, 1, D)) = D /\ CellOf(SubSeq(t, 1, D)) = SubSeq(t, 1, D)
      BY <1>1, <3>1, CellAbove
    <3>4. SubSeq(t, 1, D) \in query.visits
      BY <1>1, <3>1 DEF Visited
    <3>5. Level(index.terms[r]) = D /\ CellOf(index.terms[r]) \in query.visits
      BY <3>2, <3>3, <3>4, Zenon
    <3>6. Level(index.terms[r]) <= D
      BY <1>1, <3>5
    <3> QED BY <3>2, <3>5, <3>6 DEF TouchingDocs
  <2>3. CASE k < D
    <3>1. k # Level(t) /\ k <= D
      BY <1>1, <1>3, <2>3
    <3>2. PICK r \in 1..Size : index.terms[r] = Marked(SubSeq(t, 1, k)) /\ d \in index.docs[r]
      BY <2>1, <3>1 DEF Holds, Size
    <3> DEFINE u == Marked(SubSeq(t, 1, k))
    <3>3. Level(u) = k /\ CellOf(u) = SubSeq(t, 1, k) /\ IsMarked(u)
      BY <1>1, CellAbove
    <3>4. SubSeq(t, 1, k) \in query.visits
      BY <3>1 DEF Visited
    <3>5. /\ Level(index.terms[r]) <= D /\ IsLeafTerm(index.terms[r])
          /\ CellOf(index.terms[r]) \in query.visits
      BY <3>1, <3>2, <3>3, <3>4 DEF IsLeafTerm
    <3> QED BY <3>2, <3>5 DEF TouchingDocs
  <2> QED BY <1>1, <2>2, <2>3
<1> QED BY <1>1, <1>2, <1>3

(* A complete cell has only documents that touch the query.                *)
LEMMA CompleteTouches ==
  ASSUME Inputs, NEW p \in 1..Size, index.terms[p] \in query.visits, IsComplete(index.terms[p]),
         NEW d \in index.docs[p], d \in query.acceptDocs
  PROVE  d \in TouchingDocs
<1> DEFINE c == index.terms[p]
           D == query.detailLevel
<1>1. c \in Cells /\ c \in Terms /\ D \in Nat \ {0} /\ Len(c) \in 1..MaxLevels
  BY IndexFacts, QueryFacts, CellsAreSequences
<1>2. ~IsMarked(c) /\ Level(c) = Len(c) /\ CellOf(c) = c
  <2>1. Len(c) \in 1..Len(c) /\ c[Len(c)] # LeafByte
    BY <1>1, CellsAreSequences, ArityAssumption DEF LeafByte
  <2> QED BY <2>1 DEF IsMarked, Level, CellOf
<1>3. CASE Len(c) = D
  <2>1. Visited(c)
    BY <1>2, GridFacts DEF Visited
  <2>2. Level(c) >= D
    BY <1>1, <1>2, <1>3
  <2> QED BY <2>1, <2>2, TouchBy
<1>4. CASE c \in query.within
  <2>1. PICK r \in 1..Size : /\ d \in index.docs[r] /\ IsLeafTerm(index.terms[r])
                             /\ StartsWith(index.terms[r], c)
    BY <1>2, DocumentFacts DEF HasLeafBelow, Size
  <2> DEFINE t == index.terms[r]
  <2>2. t \in Terms /\ Level(t) \in Nat
    BY IndexFacts, LevelOfTerm
  <2>3. ASSUME NEW n \in 1..Level(t), n <= D
        PROVE  SubSeq(t, 1, n) \in query.visits
    <3>1. CASE n <= Len(c)
      <4>1. n \in 1..Len(c)
        BY <1>1, <3>1
      <4>2. SubSeq(t, 1, n) = SubSeq(c, 1, n)
        BY <1>1, <2>1, <2>2, <4>1, CellsInCommon
      <4> QED BY <4>1, <4>2, GridFacts
    <3>2. CASE Len(c) < n
      <4>1. StartsWith(SubSeq(t, 1, n), c)
        BY <1>1, <2>1, <2>2, <3>2, CellsBelow
      <4>2. SubSeq(t, 1, n) \in Cells /\ Len(SubSeq(t, 1, n)) = n
        BY <2>2, CellAbove
      <4>3. SubSeq(t, 1, n) \in [1..n -> 1..Arity]
        <5> DEFINE x == SubSeq(t, 1, n)
        <5> HIDE DEF x
        <5>1. x \in Seq(1..Arity) /\ Len(x) = n
          BY <4>2 DEF x, Cells
        <5> QED BY <5>1, LenProperties DEF x
      <4>4. n \in 1..D
        BY <1>1, <2>2, <2>3
      <4> QED BY <1>4, <4>1, <4>3, <4>4, GridFacts
    <3> QED BY <1>1, <2>2, <3>1, <3>2
  <2> QED BY <2>1, <2>3, TouchBy DEF Visited
<1> QED BY <1>3, <1>4 DEF IsComplete

(* The leaf right after an incomplete cell is the leaf marker of that cell,*)
(* or below a leaf of its documents that is no further down, or a smallest *)
(* cell that is mistaken for a leaf marker.                                *)
LEMMA NextLeafGathered ==
  ASSUME Inputs, NEW p \in 1..(Size - 1), index.terms[p] \in query.visits,
         Len(index.terms[p]) < query.detailLevel, Len(index.terms[p]) <= ScanLevel,
         IsLeafTerm(index.terms[p + 1]),
         NEW d \in index.docs[p + 1], d \in query.acceptDocs
  PROVE  Gathered(d)
<1> DEFINE c == index.terms[p]
           t == index.terms[p + 1]
           D == query.detailLevel
<1>1. /\ Size \in Nat /\ p \in 1..Size /\ p + 1 \in 1..Size
      /\ c \in Cells /\ t \in Terms /\ c \in Seq(Nat) /\ t \in Seq(Nat)
      /\ D \in 1..MaxLevels /\ Len(c) \in 1..MaxLevels
      /\ Level(t) \in 1..MaxLevels /\ MaxLevels \in Nat
  <2>1. Size \in Nat
    BY IndexFacts
  <2>2. p \in 1..Size /\ p + 1 \in 1..Size
    BY <2>1
  <2>3. c \in Cells /\ t \in Terms
    BY <2>2, IndexFacts, QueryFacts
  <2>4. c \in Seq(Nat) /\ t \in Seq(Nat) /\ Len(c) \in 1..MaxLevels /\ Level(t) \in 1..MaxLevels
    BY <2>3, CellsAreSequences, TermsAreSequences, LevelOfTerm
  <2> QED BY <2>1, <2>2, <2>3, <2>4, QueryFacts, MaxLevelsAssumption
<1>2. StartsWith(t, c) /\ Less(c, t)
  <2>1. Len(c) < MaxLevels
    BY <1>1
  <2>2. p < p + 1
    BY <1>1
  <2> QED BY <1>1, <2>1, <2>2, NextTermStarts, IndexFacts
<1>3. t # c /\ Len(c) <= Level(t)
  BY <1>1, <1>2, LessIrreflexive, PrefixOfTerm
<1>4. \A n \in 1..Len(c) : /\ n \in 1..Level(t)
                           /\ SubSeq(t, 1, n) = SubSeq(c, 1, n)
                           /\ SubSeq(t, 1, n) \in query.visits
  BY <1>1, <1>2, CellsInCommon, GridFacts
<1>5. CASE Level(t) = Len(c)
  <2>1. Visited(t)
    BY <1>4, <1>5 DEF Visited
  <2> QED BY <1>1, <2>1, TouchBy DEF Gathered
<1>6. CASE Len(c) < Level(t)
  <2>1. PICK k \in 1..Level(t) :
          /\ \A n \in 1..k : Holds(index, d, SubSeq(t, 1, n))
          /\ k = Level(t) \/ Holds(index, d, Marked(SubSeq(t, 1, k)))
    BY <1>1, DocumentFacts DEF HeldToLeaf
  <2>2. CASE k <= Len(c)
    <3> DEFINE u == Marked(SubSeq(t, 1, k))
    <3>1. k \in 1..Len(c) /\ k # Level(t)
      BY <1>1, <1>6, <2>2
    <3>2. PICK r \in 1..Size : index.terms[r] = u /\ d \in index.docs[r]
      BY <2>1, <3>1 DEF Holds, Size
    <3>3. /\ Level(u) = k /\ IsMarked(u)
          /\ \A m \in 1..k : SubSeq(u, 1, m) = SubSeq(t, 1, m)
      BY <1>1, CellAbove
    <3>4. \A m \in 1..k : m \in 1..Len(c)
      BY <1>1, <3>1
    <3>5. Visited(u)
      BY <1>4, <3>3, <3>4 DEF Visited
    <3>6. IsLeafTerm(u)
      BY <3>3 DEF IsLeafTerm
    <3> QED BY <3>2, <3>5, <3>6, TouchBy DEF Gathered
  <2>3. CASE Len(c) < k
    <3> DEFINE n == Len(c) + 1
               x == SubSeq(t, 1, n)
    <3>1. n \in 1..k /\ n \in 1..Level(t) /\ n \in Len(c)..Level(t)
      BY <1>1, <2>3
    <3>2. PICK r \in 1..Size : index.terms[r] = x /\ d \in index.docs[r]
      BY <2>1, <3>1 DEF Holds, Size
    <3>3. x \in Cells /\ Len(x) = n /\ ~IsMarked(x) /\ StartsWith(t, x)
      BY <1>1, <3>1, CellAbove
    <3>4. x \in Seq(Nat) /\ StartsWith(x, c) /\ x # c
      <4>1. StartsWith(x, c)
        BY <1>1, <1>2, <3>1, CellsBelow
      <4>2. x # c
        BY <1>1, <3>3
      <4> QED BY <3>3, <4>1, <4>2, CellsAreSequences
    <3>5. x = t
      <4> SUFFICES ASSUME x # t
                   PROVE  FALSE
        OBVIOUS
      <4>1. Less(c, x) /\ Less(x, t)
        BY <1>1, <3>3, <3>4, StartsWithLess
      <4>2. ~Less(x, c) /\ ~Less(t, x)
        BY <1>1, <3>4, <4>1, LessAsymmetric
      <4>3. ~(r < p) /\ ~(p + 1 < r) /\ r # p /\ r # p + 1
        BY <1>1, <3>2, <3>4, <4>2, IndexFacts
      <4> QED BY <1>1, <4>3
    <3>6. Len(t) = MaxLevels /\ Len(c) = MaxLevels - 1
      <4>1. ~IsMarked(t) /\ Len(t) = Len(c) + 1
        BY <3>3, <3>5
      <4> QED BY <1>1, <4>1 DEF IsLeafTerm
    <3>7. D = MaxLevels /\ ScanLevel > MaxLevels - 2
      <4>1. ScanLevel \in Int
        BY QueryAssumption, <1>1 DEF Inputs, ScanLevel
      <4> QED BY <1>1, <3>6, <4>1
    <3>8. d \in MistakenDocs
      BY <1>1, <1>2, <3>6 DEF MistakenDocs
    <3> QED BY <3>7, <3>8 DEF Gathered
  <2> QED BY <1>1, <2>2, <2>3
<1> QED BY <1>1, <1>3, <1>5, <1>6

(* What the scan matches touches the query.                                *)
LEMMA MatchTouches ==
  ASSUME NEW p \in 1..Size, Matches(index.terms[p]),
         NEW d \in index.docs[p], d \in query.acceptDocs
  PROVE  d \in TouchingDocs
BY DEF Matches, TouchingDocs

-----------------------------------------------------------------------------

(* Which documents touch the query or may be mistaken depends on the inputs*)
(* only.                                                                   *)
LEMMA FixedStep ==
  ASSUME Inputs, [Next]_vars
  PROVE  /\ Size' = Size /\ ScanLevel' = ScanLevel /\ query' = query /\ index' = index
         /\ RequiredDocs' = RequiredDocs
         /\ TouchingDocs' = TouchingDocs
         /\ MistakenDocs' = MistakenDocs
         /\ \A d : Gathered(d)' <=> Gathered(d)
<1>1. index' = index /\ query' = query
  BY InputsStep
<1>2. Size' = Size /\ ScanLevel' = ScanLevel
  BY <1>1 DEF Size, ScanLevel
<1>3. TouchingDocs' = TouchingDocs /\ MistakenDocs' = MistakenDocs
  BY <1>1, <1>2 DEF TouchingDocs, MistakenDocs
<1>4. RequiredDocs' = RequiredDocs
  BY <1>1, <1>2 DEF RequiredDocs, Matches, Reached, Rooted
<1> QED BY <1>1, <1>2, <1>3, <1>4 DEF Gathered

LEMMA ScanLevelIsInt ==
  ASSUME Inputs
  PROVE  ScanLevel \in Int /\ ScanLevel >= 1
BY QueryAssumption, MaxLevelsAssumption DEF Inputs, ScanLevel

LEMMA AboveScanStep ==
  ASSUME Inputs, TypeOK, AboveScan, [Next]_vars
  PROVE  AboveScan'
<1> DEFINE rest == Tail(cells)
<1>1. ScanLevel' = ScanLevel /\ ScanLevel \in Int /\ ScanLevel >= 1
  BY FixedStep, ScanLevelIsInt
<1>2. ASSUME cells # << >>
      PROVE  \A i \in 1..Len(rest) : Len(rest[i]) <= ScanLevel
  <2>1. /\ Len(rest) = Len(cells) - 1 /\ Len(cells) \in Nat
        /\ \A i \in 1..Len(rest) : rest[i] = cells[i + 1]
    BY <1>2, TailFacts
  <2>2. \A i \in 1..Len(rest) : i + 1 \in 1..Len(cells)
    BY <2>1
  <2> QED BY <2>1, <2>2 DEF AboveScan
<1>3. CASE UNCHANGED cells
  BY <1>1, <1>3 DEF AboveScan
<1>4. CASE Start
  <2>1. cells' \in SubCellLists(WorldCell) /\ Len(WorldCell) = 0
    BY <1>4, EmptySeq DEF Start, WorldCell
  <2>2. \A i \in 1..Len(cells') : Len(cells'[i]) = 1
    <3>1. WorldCell \in Cells \cup {WorldCell}
      OBVIOUS
    <3>2. \A i \in 1..Len(cells') : Len(cells'[i]) = Len(WorldCell) + 1
      BY <2>1, <3>1, SubCellFacts
    <3> QED BY <2>1, <3>2
  <2> QED BY <1>1, <2>2 DEF AboveScan
<1>5. CASE cells # << >> /\ cells' = rest
  BY <1>1, <1>2, <1>5 DEF AboveScan
<1>6. CASE Divide
  <2> DEFINE h == Head(cells)
  <2>1. cells # << >> /\ Len(h) < ScanLevel
    BY <1>6 DEF Divide
  <2>2. PICK sub \in SubCellLists(h) : cells' = sub \o rest
    BY <1>6 DEF Divide
  <2>3. h \in Cells /\ Len(h) \in Nat /\ rest \in Seq(Cells)
    BY <2>1, TailFacts, CellsAreSequences
  <2>4. sub \in Seq(Cells) /\ \A m \in 1..Len(sub) : Len(sub[m]) = Len(h) + 1
    BY <2>3, SubCellFacts
  <2>5. /\ Len(cells') = Len(sub) + Len(rest)
        /\ \A i \in 1..(Len(sub) + Len(rest)) :
             cells'[i] = IF i <= Len(sub) THEN sub[i] ELSE rest[i - Len(sub)]
    BY <2>2, <2>3, <2>4, ConcatProperties
  <2>6. Len(sub) \in Nat /\ Len(rest) \in Nat
    BY <2>3, <2>4, LenProperties
  <2>7. ASSUME NEW i \in 1..Len(cells')
        PROVE  Len(cells'[i]) <= ScanLevel
    <3>1. CASE i <= Len(sub)
      <4>1. i \in 1..Len(sub) /\ cells'[i] = sub[i]
        BY <2>5, <2>6, <3>1
      <4> QED BY <1>1, <2>1, <2>3, <2>4, <4>1
    <3>2. CASE ~(i <= Len(sub))
      <4>1. i - Len(sub) \in 1..Len(rest) /\ cells'[i] = rest[i - Len(sub)]
        BY <2>5, <2>6, <3>2
      <4> QED BY <1>2, <2>1, <4>1
    <3> QED BY <3>1, <3>2
  <2> QED BY <1>1, <2>7 DEF AboveScan
<1> QED BY <1>3, <1>4, <1>5, <1>6 DEF Next, vars, NoField, Finish, SeekEnd, SeekNotFound,
           CollectCell, StartScan, ScanTerm, EndScan

LEMMA LastTermStep ==
  ASSUME Inputs, TypeOK, LastTerm, [Next]_vars
  PROVE  LastTerm'
<1>1. index' = index /\ Size' = Size
  BY FixedStep
<1>2. CASE pc' # "scan"
  BY <1>2 DEF LastTerm
<1>3. CASE StartScan
  <2>1. PICK p \in 1..(Size - 1) : /\ pos' = AfterLeaf(p + 1)
                                   /\ term' \in TermsAt(AfterLeaf(p + 1))
    BY <1>3 DEF StartScan
  <2> QED BY <1>1, <2>1 DEF LastTerm, TermsAt
<1>4. CASE ScanTerm
  BY <1>1, <1>4 DEF ScanTerm, LastTerm
<1>5. CASE UNCHANGED vars
  BY <1>1, <1>5 DEF vars, LastTerm
<1> QED BY <1>2, <1>3, <1>4, <1>5 DEF Next, NoField, Start, Finish, SeekEnd,
           SeekNotFound, CollectCell, Divide, EndScan

(* Each step collects only documents that may be returned.                 *)
LEMMA SoundStep ==
  ASSUME SoundInv, [Next]_vars
  PROVE  SoundBits'
<1> USE DEF SoundInv, IInv
<1> DEFINE h == Head(cells)
<1>1. \A d : Gathered(d)' <=> Gathered(d)
  BY FixedStep
<1>2. SUFFICES ASSUME NEW d, d \in bits', d \notin bits
               PROVE  Gathered(d)
  BY <1>1 DEF SoundBits
<1>3. Size \in Nat
  BY IndexFacts
<1>4. CASE CollectCell
  <2>1. cells # << >> /\ IsComplete(h)
    BY <1>4 DEF CollectCell
  <2>2. PICK p \in 1..Size : Found(p) /\ bits' = bits \cup LiveDocs(p)
    BY <1>4 DEF CollectCell
  <2>3. h \in query.visits
    BY <2>1, Popped
  <2>4. index.terms[p] = h /\ d \in index.docs[p] /\ d \in query.acceptDocs
    BY <1>2, <2>2 DEF Found, LiveDocs
  <2> QED BY <2>1, <2>3, <2>4, CompleteTouches DEF Gathered
<1>5. CASE Divide \/ StartScan
  <2>1. cells # << >> /\ ~IsComplete(h)
    BY <1>5 DEF Divide, StartScan
  <2>2. PICK p \in 1..(Size - 1) : Found(p) /\ bits' = bits \cup DocsOfLeaf(p + 1)
    BY <1>5 DEF Divide, StartScan
  <2>3. h \in query.visits /\ Len(h) < query.detailLevel
    BY <2>1, Popped, Incomplete
  <2>4. Len(h) <= ScanLevel
    BY <2>1, TailFacts DEF AboveScan
  <2>5. /\ IsLeafTerm(index.terms[p + 1])
        /\ d \in index.docs[p + 1] /\ d \in query.acceptDocs
    BY <1>2, <2>2 DEF DocsOfLeaf, LiveDocs
  <2>6. index.terms[p] = h
    BY <2>2 DEF Found
  <2> QED BY <2>3, <2>4, <2>5, <2>6, NextLeafGathered
<1>6. CASE ScanTerm
  <2> DEFINE at == IF pos <= Size THEN pos ELSE Size
  <2>1. pc = "scan" /\ InScan /\ Matches(term) /\ d \in LiveDocs(at)
    BY <1>2, <1>6 DEF ScanTerm
  <2>2. PICK p \in 1..Size : p < pos
    BY <2>1 DEF ScanCursor
  <2>3. at \in 1..Size
    BY <1>3, <2>2 DEF TypeOK
  <2>4. term = index.terms[at]
    BY <2>1 DEF ScanCursor, LastTerm, InScan
  <2> QED BY <2>1, <2>3, <2>4, MatchTouches DEF LiveDocs, Gathered
<1> QED BY <1>2, <1>4, <1>5, <1>6 DEF Next, vars, NoField, Start, Finish, SeekEnd,
           SeekNotFound, EndScan

LEMMA SoundInvInit == Init => SoundInv
<1> SUFFICES ASSUME Init
             PROVE  SoundInv
  OBVIOUS
<1>1. IInv
  BY TypeInit, StackInit DEF IInv, Init, ScanCursor, Coverage
<1>2. AboveScan
  BY EmptySeq DEF Init, AboveScan
<1>3. LastTerm /\ SoundBits
  BY DEF Init, LastTerm, SoundBits
<1> QED BY <1>1, <1>2, <1>3 DEF SoundInv

LEMMA SoundInvStep == SoundInv /\ [Next]_vars => SoundInv'
BY InputsStep, TypeStep, StackStep, ScanCursorStep, CoverageStep,
   AboveScanStep, LastTermStep, SoundStep DEF SoundInv, IInv

(* With the scan two or more levels above the last - the default is four - *)
(* nothing is returned that does not touch the query, for every index and  *)
(* query: a leaf marker can be mistaken only at the last level but one.    *)
THEOREM SoundWhenEarly == Spec => []SoundWhenScanIsEarly
<1>1. SoundInv => SoundWhenScanIsEarly
  <2> SUFFICES ASSUME SoundInv, ScanLevel <= MaxLevels - 2, NEW d \in bits
               PROVE  d \in TouchingDocs
    BY DEF SoundWhenScanIsEarly
  <2>1. ScanLevel \in Int /\ MaxLevels \in Nat
    BY ScanLevelIsInt, MaxLevelsAssumption DEF SoundInv, IInv
  <2>2. ~(ScanLevel > MaxLevels - 2)
    BY <2>1
  <2> QED BY <2>2 DEF SoundInv, SoundBits, Gathered
<1> QED BY SoundInvInit, SoundInvStep, <1>1, PTL DEF Spec

(* Above the last level a document that touches the query is owed: the leaf*)
(* of its own that keeps it from having a parent is itself owed.           *)
LEMMA TouchingIsRequired ==
  ASSUME Inputs, query.detailLevel < MaxLevels, NEW d \in TouchingDocs
  PROVE  d \in RequiredDocs
<1> DEFINE D == query.detailLevel
<1>1. PICK q \in 1..Size :
        /\ d \in index.docs[q]
        /\ Level(index.terms[q]) <= D
        /\ Level(index.terms[q]) = D \/ IsLeafTerm(index.terms[q])
        /\ CellOf(index.terms[q]) \in query.visits \cup query.meets
  BY DEF TouchingDocs
<1> DEFINE t == index.terms[q]
<1>2. t \in Terms /\ D \in Nat /\ Level(t) \in 1..MaxLevels
  BY IndexFacts, QueryFacts, LevelOfTerm
<1>3. d \in query.acceptDocs
  BY DEF TouchingDocs
<1>4. CellOf(t) \in query.visits /\ query.visits = query.meets
  BY <1>1, GridFacts
<1>5. \A n \in 1..Level(t) : SubSeq(t, 1, n) \in query.visits
  <2>1. CellOf(t) = SubSeq(t, 1, Level(t)) /\ Level(t) \in 1..Level(t)
    BY <1>2, CellOfIsAbove
  <2>2. /\ Len(CellOf(t)) = Level(t)
        /\ \A n \in 1..Level(t) : SubSeq(CellOf(t), 1, n) = SubSeq(t, 1, n)
    BY <1>2, <2>1, CellAbove
  <2>3. \A n \in 1..Level(t) : SubSeq(CellOf(t), 1, n) \in query.visits
    BY <1>4, <2>2, GridFacts
  <2> QED BY <2>2, <2>3
<1>6. PICK k \in 1..Level(t) :
        /\ \A n \in 1..k : Holds(index, d, SubSeq(t, 1, n))
        /\ k = Level(t) \/ Holds(index, d, Marked(SubSeq(t, 1, k)))
  BY <1>1, DocumentFacts DEF HeldToLeaf
<1>7. CASE k = Level(t)
  <2>1. Rooted(d, q)
    BY <1>6, <1>7 DEF Rooted, Holds, Size
  <2>2. Reached(q)
    BY <1>5 DEF Reached
  <2>3. Matches(t)
    BY <1>1, <1>4 DEF Matches
  <2> QED BY <1>1, <1>3, <2>1, <2>2, <2>3 DEF RequiredDocs
<1>8. CASE k # Level(t)
  <2> DEFINE u == Marked(SubSeq(t, 1, k))
  <2>1. PICK r \in 1..Size : index.terms[r] = u /\ d \in index.docs[r]
    BY <1>6, <1>8 DEF Holds, Size
  <2>2. /\ Level(u) = k /\ IsMarked(u) /\ CellOf(u) = SubSeq(t, 1, k)
        /\ \A m \in 1..k : SubSeq(u, 1, m) = SubSeq(t, 1, m)
    BY <1>2, CellAbove
  <2>3. \A m \in 1..k : m \in 1..Level(t)
    BY <1>2
  <2>4. Rooted(d, r)
    BY <1>6, <2>1, <2>2 DEF Rooted, Holds, Size
  <2>5. Reached(r)
    BY <1>5, <2>1, <2>2, <2>3 DEF Reached
  <2>6. Matches(u)
    <3>1. k <= D
      BY <1>1, <1>2
    <3>2. SubSeq(t, 1, k) \in query.meets
      BY <1>4, <1>5
    <3> QED BY <2>2, <3>1, <3>2 DEF Matches, IsLeafTerm
  <2> QED BY <1>3, <2>1, <2>4, <2>5, <2>6 DEF RequiredDocs
<1> QED BY <1>7, <1>8

LEMMA SoundInvComplete == SoundInv => Complete
<1> SUFFICES ASSUME IInv, Returned, NEW d \in RequiredDocs
             PROVE  d \in bits
  BY DEF Complete, SoundInv
<1>1. PICK q \in 1..Size : Hit(d, q)
  BY DEF RequiredDocs, Hit
<1>2. d \in Docs
  BY <1>1, QueryFacts DEF IInv, Hit
<1> QED BY <1>1, <1>2 DEF IInv, Coverage, Pending, Returned

(* Above the last level the filter returns exactly the documents that touch*)
(* the query, a set in whose definition the scan level does not occur: the *)
(* scan is "a performance optimization trade-off" and no more              *)
(* (RecursivePrefixTreeFilter.java:127).                                   *)
THEOREM ExactAboveLastLevel == Spec => []ExactBelowMaxLevels
<1>1. SoundInv => ExactBelowMaxLevels
  <2> SUFFICES ASSUME SoundInv, pc = "done", query.detailLevel < MaxLevels
               PROVE  bits = TouchingDocs
    BY DEF ExactBelowMaxLevels
  <2>1. ASSUME NEW d \in bits
        PROVE  d \in TouchingDocs
    BY MaxLevelsAssumption, QueryFacts DEF SoundInv, IInv, SoundBits, Gathered
  <2>2. ASSUME NEW d \in TouchingDocs
        PROVE  d \in bits
    BY TouchingIsRequired, SoundInvComplete DEF SoundInv, IInv, Complete, Returned
  <2> QED BY <2>1, <2>2
<1> QED BY SoundInvInit, SoundInvStep, <1>1, PTL DEF Spec

(* A step of the filter is a Collect, a Return or a stutter of what a      *)
(* filter promises.                                                        *)
LEMMA RefinementStep ==
  ASSUME SoundInv, SoundInv', Complete', [Next]_vars
  PROVE  [Abstract!Next]_(Abstract!vars)
<1>1. RequiredDocs' = RequiredDocs /\ (TouchingDocs \cup MistakenDocs)' = TouchingDocs \cup MistakenDocs
  BY FixedStep DEF SoundInv, IInv
<1>2. bits' \subseteq bits \cup (TouchingDocs \cup MistakenDocs)
  BY <1>1 DEF SoundInv, SoundBits, Gathered
<1>3. RequiredDocs \subseteq bits' \/ ~Returned'
  BY <1>1 DEF Complete
<1>4. CASE NoField \/ Finish \/ SeekEnd
  <2>1. ~Returned /\ Returned' /\ bits' = bits
    BY <1>4 DEF NoField, Finish, SeekEnd, Returned
  <2> QED BY <1>1, <1>3, <2>1 DEF Abstract!Next, Abstract!Return
<1>5. CASE Start \/ SeekNotFound \/ CollectCell \/ Divide \/ StartScan \/ ScanTerm \/ EndScan
  <2>1. ~Returned /\ ~Returned' /\ bits \subseteq bits'
    BY <1>5 DEF Start, SeekNotFound, CollectCell, Divide, StartScan, ScanTerm, EndScan, Returned
  <2>2. Returned' = Returned
    BY <2>1 DEF Returned
  <2> QED BY <1>1, <1>2, <2>1, <2>2 DEF Abstract!Next, Abstract!Collect
<1>6. CASE UNCHANGED vars
  BY <1>1, <1>6 DEF vars, Abstract!vars, Returned
<1> QED BY <1>4, <1>5, <1>6 DEF Next

(* For every index, query and scan level the filter does what a filter     *)
(* promises: it collects only documents that it may return and returns only*)
(* when it has all that it must.                                           *)
THEOREM FilterImplementsSpatialFilter == Spec => ImplementsSpatialFilter
<1>1. Init => Abstract!Init
  <2> SUFFICES ASSUME Init
               PROVE  Abstract!Init
    OBVIOUS
  <2>1. query.acceptDocs \subseteq Docs
    BY QueryFacts DEF Init, Inputs
  <2>2. RequiredDocs \subseteq Docs /\ TouchingDocs \subseteq Docs /\ MistakenDocs \subseteq Docs
    BY <2>1 DEF RequiredDocs, TouchingDocs, MistakenDocs
  <2>3. bits = {} /\ Returned = FALSE
    BY DEF Init, Returned
  <2> QED BY <2>2, <2>3 DEF Abstract!Init
<1>2. SoundInv /\ SoundInv' /\ Complete' /\ [Next]_vars => [Abstract!Next]_(Abstract!vars)
  BY RefinementStep
<1> QED BY SoundInvInit, SoundInvStep, SoundInvComplete, <1>1, <1>2, PTL
        DEF Spec, ImplementsSpatialFilter, Abstract!Spec

-----------------------------------------------------------------------------
(***************************************************************************)
(* How far the cursor of RecursivePrefixTreeFilter goes back, on every     *)
(* index and for every query that satisfies the module's assumptions.      *)
(*                                                                         *)
(* The invariant to add is CursorBehind: of the terms that a cell of the   *)
(* stack may still lead to, the cursor has passed at most the last, and    *)
(* only when it is of full length.                                         *)
(***************************************************************************)

(* The term at q was taken for the leaf marker of the cell before it.      *)
TakenForMarker(q) == q = pos - 1 /\ Len(index.terms[q]) = MaxLevels

CursorBehind ==
  /\ pc = "start" => pos = 0
  /\ pc \in {"pop", "scan"} =>
       \A i \in 1..Len(cells) : \A q \in 1..Size :
         q < pos => \/ Less(index.terms[q], cells[i])
                    \/ pc = "pop" /\ TakenForMarker(q)

CursorInv == Inputs /\ TypeOK /\ StackSorted /\ StackDepth /\ ScanCursor /\ CursorBehind

-----------------------------------------------------------------------------

LEMMA TermFacts ==
  ASSUME Inputs, NEW q \in 1..Size
  PROVE  index.terms[q] \in Terms /\ index.terms[q] \in Seq(Nat)
BY IndexFacts, TermsAreSequences

(* A marked term right after a cell that it starts with is its marker:     *)
(* between a cell and the marker of another one below it is that other.    *)
LEMMA MarkerOfCell ==
  ASSUME Inputs, NEW c \in Cells, Len(c) < MaxLevels,
         NEW p \in 1..Size, index.terms[p] = c, p + 1 \in 1..Size,
         IsMarked(index.terms[p + 1])
  PROVE  index.terms[p + 1] = Marked(c)
<1> DEFINE t == index.terms[p + 1]
           y == CellOf(t)
<1>1. t \in Terms /\ t \in Seq(Nat) /\ c \in Seq(Nat) /\ Size \in Nat
  BY TermFacts, CellsAreSequences, IndexFacts
<1>2. StartsWith(t, c)
  BY NextTermStarts
<1>3. Len(c) <= Level(t) /\ Len(c) \in Nat /\ Level(t) \in 1..MaxLevels
      /\ Len(t) = Level(t) + 1
  BY <1>1, <1>2, PrefixOfTerm, LevelOfTerm, CellsAreSequences
<1>4. ~IsMarked(c)
  BY CellsAreSequences, ArityAssumption DEF IsMarked, LeafByte
<1>5. CASE Level(t) = Len(c)
  BY <1>1, <1>2, <1>4, <1>5, TermOfCell
<1>6. CASE Len(c) < Level(t)
  <2>1. y = SubSeq(t, 1, Level(t))
    BY DEF CellOf, Level
  <2>2. Level(t) \in 1..Len(t)
    BY <1>3
  <2>3. y \in Seq(Nat) /\ Len(y) = Level(t) /\ \A k \in 1..Level(t) : y[k] = t[k]
    BY <1>1, <2>1, <2>2, FirstBytes
  <2>4. StartsWith(t, y) /\ t # y
    BY <1>3, <2>3 DEF StartsWith
  <2>5. StartsWith(y, c) /\ y # c
    <3>1. \A k \in 1..Len(c) : k \in 1..Level(t) /\ t[k] = c[k]
      BY <1>2, <1>3 DEF StartsWith
    <3> QED BY <1>3, <1>6, <2>3, <3>1 DEF StartsWith
  <2>6. Less(c, y) /\ Less(y, t)
    BY <1>1, <2>3, <2>4, <2>5, StartsWithLess
  <2>7. PICK r \in 1..Size : index.terms[r] = y
    BY IndexAssumption DEF Inputs, MarkersFollowCells, Size
  <2>8. ~(r <= p)
    <3>1. CASE r = p
      BY <1>1, <2>6, <2>7, <3>1, LessIrreflexive
    <3>2. CASE r < p
      <4>1. Less(y, c)
        BY <2>7, <3>2, IndexFacts
      <4> QED BY <1>1, <2>3, <2>6, <4>1, LessAsymmetric
    <3> QED BY <3>1, <3>2
  <2>9. ~(p + 1 <= r)
    <3>1. CASE r = p + 1
      BY <1>1, <2>6, <2>7, <3>1, LessIrreflexive
    <3>2. CASE p + 1 < r
      <4>1. Less(t, y)
        BY <2>7, <3>2, IndexFacts
      <4> QED BY <1>1, <2>3, <2>6, <4>1, LessAsymmetric
    <3> QED BY <3>1, <3>2
  <2> QED BY <2>8, <2>9
<1> QED BY <1>3, <1>5, <1>6

(* Up to the cell that a seek has found, all terms come before what comes  *)
(* after the cell, and before what is below it.                            *)
LEMMA TermsUpTo ==
  ASSUME Inputs, NEW c \in Cells, NEW p \in 1..Size, IsCeil(p, c),
         NEW x \in Cells, Before(c, x) \/ (StartsWith(x, c) /\ x # c)
  PROVE  /\ \A q \in 1..(p - 1) : Less(index.terms[q], x)
         /\ index.terms[p] = c => Less(index.terms[p], x)
<1>1. c \in Seq(Nat) /\ x \in Seq(Nat) /\ Size \in Nat
  BY CellsAreSequences, IndexFacts
<1>2. \A q \in 1..(p - 1) : q \in 1..Size /\ Less(index.terms[q], c)
  BY <1>1 DEF IsCeil
<1>3. \A q \in 1..(p - 1) : Less(index.terms[q], x)
  BY <1>1, <1>2, TermFacts, LessBefore, LessStartsWith
<1>4. Less(c, x)
  BY <1>1, StartsWithLess DEF Less
<1> QED BY <1>3, <1>4

(* The term after a found cell comes before what comes after the cell; and *)
(* when it is taken for a marker and is not of full length, before what is *)
(* below the cell, too.                                                    *)
LEMMA TermAfter ==
  ASSUME Inputs, NEW c \in Cells, Len(c) < MaxLevels,
         NEW p \in 1..Size, index.terms[p] = c
  PROVE  /\ p + 1 \in 1..Size
         /\ \A x \in Cells : Before(c, x) => Less(index.terms[p + 1], x)
         /\ IsLeafTerm(index.terms[p + 1]) /\ Len(index.terms[p + 1]) # MaxLevels =>
              \A i \in 1..Arity : Append(c, i) \in Cells =>
                Less(index.terms[p + 1], Append(c, i))
<1>1. c \in Seq(Nat) /\ Size \in Nat /\ Len(c) \in Nat
  BY CellsAreSequences, IndexFacts
<1>2. p + 1 \in 1..Size /\ StartsWith(index.terms[p + 1], c)
  BY <1>1, NextTermStarts
<1>3. index.terms[p + 1] \in Seq(Nat)
  BY <1>2, TermFacts
<1>4. ASSUME NEW x \in Cells, Before(c, x)
      PROVE  Less(index.terms[p + 1], x)
  <2>1. x \in Seq(Nat)
    BY CellsAreSequences
  <2> QED BY <1>1, <1>2, <1>3, <1>4, <2>1, BelowBefore DEF Less
<1>5. ASSUME IsLeafTerm(index.terms[p + 1]), Len(index.terms[p + 1]) # MaxLevels,
             NEW i \in 1..Arity
      PROVE  Less(index.terms[p + 1], Append(c, i))
  <2>1. index.terms[p + 1] = Marked(c)
    BY <1>2, <1>5, MarkerOfCell DEF IsLeafTerm
  <2> DEFINE m == Append(c, LeafByte)
             x == Append(c, i)
             n == Len(c) + 1
  <2>2. /\ n \in 1..Len(m) /\ n <= Len(x) /\ m[n] = 0 /\ x[n] = i
        /\ \A k \in 1..Len(c) : m[k] = c[k] /\ x[k] = c[k]
    BY <1>1 DEF LeafByte
  <2>3. 0 < i /\ \A k \in 1..(n - 1) : m[k] = x[k]
    BY <1>1, <2>2, ArityAssumption
  <2>4. m[n] < x[n]
    BY <2>2, <2>3
  <2>5. Before(m, x)
    BY <2>2, <2>3, <2>4 DEF Before
  <2> QED BY <2>1, <2>5 DEF Less, Marked
<1> QED BY <1>2, <1>4, <1>5

(* Where the cursor stands after the leaf marker of a found cell.          *)
LEMMA AfterLeafFacts ==
  ASSUME Inputs, NEW p \in 1..(Size - 1)
  PROVE  /\ p \in 1..Size /\ p + 1 \in 1..Size
         /\ \/ AfterLeaf(p + 1) = p + 1
            \/ AfterLeaf(p + 1) = p + 2 /\ IsLeafTerm(index.terms[p + 1])
<1>1. Size \in Nat
  BY IndexFacts
<1>2. p \in 1..Size /\ p + 1 \in 1..Size
  BY <1>1
<1>3. Advance(p + 1) = p + 2
  BY <1>1, <1>2 DEF Advance
<1> QED BY <1>2, <1>3 DEF AfterLeaf

(* The sub-cells that replace a cell are below it.                         *)
LEMMA SubCellsBelow ==
  ASSUME Inputs, NEW c \in Cells, NEW s \in SubCellLists(c), NEW m \in 1..Len(s)
  PROVE  /\ s[m] \in Cells /\ StartsWith(s[m], c) /\ s[m] # c
         /\ \E i \in 1..Arity : s[m] = Append(c, i)
<1>1. s \in Seq(Cells) /\ c \in Seq(Nat)
  BY SubCellFacts, CellsAreSequences
<1>2. s[m] \in Cells
  BY <1>1, ElementOfSeq, Zenon
<1>3. PICK i \in 1..Arity : s[m] = Append(c, i)
  BY SubCellFacts
<1>4. /\ Len(Append(c, i)) = Len(c) + 1 /\ Len(c) \in Nat
      /\ \A k \in 1..Len(c) : Append(c, i)[k] = c[k]
  BY <1>1
<1> QED BY <1>2, <1>3, <1>4 DEF StartsWith

LEMMA CursorStep ==
  ASSUME CursorInv, [Next]_vars
  PROVE  CursorBehind'
<1> DEFINE h    == Head(cells)
           rest == Tail(cells)
<1>1. /\ Inputs /\ TypeOK /\ StackSorted /\ StackDepth /\ ScanCursor /\ CursorBehind
      /\ index' = index /\ Size' = Size /\ Size \in Nat /\ pos \in 0..(Size + 1)
      /\ cells \in Seq(Cells)
  BY InputsStep, IndexFacts DEF CursorInv, TypeOK, Size
<1>2. pc' = "start" => pos' = 0
  BY <1>1 DEF Next, vars, NoField, Start, Finish, SeekEnd, SeekNotFound,
              CollectCell, Divide, StartScan, ScanTerm, EndScan, CursorBehind
<1>3. ASSUME pc' \in {"pop", "scan"}, NEW i \in 1..Len(cells'), NEW q \in 1..Size, q < pos'
      PROVE  \/ Less(index.terms[q], cells'[i])
             \/ pc' = "pop" /\ q = pos' - 1 /\ Len(index.terms[q]) = MaxLevels
  <2>1. CASE NoField \/ Finish \/ SeekEnd
    BY <1>3, <2>1 DEF NoField, Finish, SeekEnd
  <2>2. CASE Start
    BY <1>1, <1>3, <2>2 DEF Start, CursorBehind
  <2>3. CASE SeekNotFound \/ CollectCell
    <3>1. PICK p \in 1..Size : IsCeil(p, h) /\ pos' = p
      BY <2>3 DEF SeekNotFound, CollectCell, Found
    <3>2. cells # << >> /\ cells' = rest
      BY <2>3 DEF SeekNotFound, CollectCell
    <3>3. h \in Cells /\ rest \in Seq(Cells) /\ i \in 1..Len(rest)
      BY <1>1, <1>3, <3>2, TailFacts
    <3>4. rest[i] \in Cells /\ Before(h, rest[i])
      BY <1>1, <3>2, <3>3, Popped, ElementOfSeq
    <3>5. q \in 1..(p - 1)
      BY <1>3, <3>1
    <3> QED BY <1>1, <3>1, <3>2, <3>3, <3>4, <3>5, TermsUpTo
  <2>4. CASE Divide \/ StartScan
    <3>1. cells # << >> /\ ~IsComplete(h)
      BY <2>4 DEF Divide, StartScan
    <3>2. PICK p \in 1..(Size - 1) : Found(p) /\ pos' = AfterLeaf(p + 1)
      BY <2>4 DEF Divide, StartScan
    <3>3. h \in Cells /\ rest \in Seq(Cells) /\ Len(h) < MaxLevels
      BY <1>1, <3>1, TailFacts, Incomplete
    <3>4. p \in 1..Size /\ IsCeil(p, h) /\ index.terms[p] = h
      BY <1>1, <3>2 DEF Found
    <3>5. \/ q \in 1..p
          \/ q = p + 1 /\ q = pos' - 1 /\ IsLeafTerm(index.terms[p + 1])
      BY <1>1, <1>3, <3>2, AfterLeafFacts
    <3>6. ASSUME NEW x \in Cells, Before(h, x)
          PROVE  Less(index.terms[q], x)
      <4>1. CASE q \in 1..p
        <5>1. q \in 1..(p - 1) \/ q = p
          BY <4>1
        <5> QED BY <1>1, <3>3, <3>4, <3>6, <5>1, TermsUpTo
      <4>2. CASE q = p + 1
        BY <1>1, <3>3, <3>4, <3>6, <4>2, TermAfter
      <4> QED BY <3>5, <4>1, <4>2
    <3>7. ASSUME NEW k \in 1..Len(rest)
          PROVE  rest[k] \in Cells /\ Before(h, rest[k])
      BY <1>1, <3>1, <3>3, Popped, ElementOfSeq
    <3>8. CASE StartScan
      <4>1. cells' = rest
        BY <3>8 DEF StartScan
      <4> QED BY <1>3, <3>6, <3>7, <4>1
    <3>9. CASE Divide
      <4>1. PICK sub \in SubCellLists(h) : cells' = sub \o rest
        BY <3>9 DEF Divide
      <4>2. sub \in Seq(Cells) /\ pc' = "pop"
        BY <1>1, <3>3, <3>9, <4>1, SubCellFacts DEF Divide
      <4>3. \/ i \in 1..Len(sub) /\ cells'[i] = sub[i]
            \/ i - Len(sub) \in 1..Len(rest) /\ cells'[i] = rest[i - Len(sub)]
        BY <1>3, <3>3, <4>1, <4>2
      <4>4. CASE i - Len(sub) \in 1..Len(rest) /\ cells'[i] = rest[i - Len(sub)]
        BY <3>6, <3>7, <4>4
      <4>5. CASE i \in 1..Len(sub) /\ cells'[i] = sub[i]
        <5>1. /\ sub[i] \in Cells /\ StartsWith(sub[i], h) /\ sub[i] # h
              /\ \E j \in 1..Arity : sub[i] = Append(h, j)
          BY <1>1, <3>3, <4>1, <4>5, SubCellsBelow
        <5>2. CASE q \in 1..p
          <6>1. q \in 1..(p - 1) \/ q = p
            BY <5>2
          <6> QED BY <1>1, <3>3, <3>4, <4>5, <5>1, <6>1, TermsUpTo
        <5>3. CASE q = p + 1 /\ q = pos' - 1 /\ IsLeafTerm(index.terms[p + 1])
          BY <1>1, <3>3, <3>4, <4>2, <4>5, <5>1, <5>3, TermAfter
        <5> QED BY <3>5, <5>2, <5>3
      <4> QED BY <4>3, <4>4, <4>5
    <3> QED BY <2>4, <3>8, <3>9
  <2>5. CASE ScanTerm
    <3>1. /\ pc = "scan" /\ cells' = cells /\ pos' = Advance(pos)
          /\ StartsWith(term, cell)
      BY <2>5 DEF ScanTerm, InScan
    <3>2. q < pos \/ (q = pos /\ pos <= Size)
      BY <1>1, <1>3, <3>1 DEF Advance
    <3>3. CASE q < pos
      BY <1>1, <1>3, <3>1, <3>3 DEF CursorBehind
    <3>4. CASE q = pos /\ pos <= Size
      <4>1. term = index.terms[q] /\ StartsWith(index.terms[q], cell)
        BY <1>1, <3>1, <3>4 DEF ScanCursor
      <4>2. Before(cell, cells[i])
        BY <1>1, <1>3, <3>1 DEF StackSorted
      <4>3. cell \in Seq(Nat) /\ cells[i] \in Seq(Nat) /\ index.terms[q] \in Seq(Nat)
        <5>1. cells[i] \in Cells
          BY <1>1, <1>3, <3>1, ElementOfSeq
        <5>2. cell \in Cells \cup {WorldCell}
          BY <1>1 DEF TypeOK
        <5> QED BY <1>1, <5>1, <5>2, CellsAreSequences, WorldOrCell, TermFacts
      <4> QED BY <3>1, <4>1, <4>2, <4>3, BelowBefore DEF Less
    <3> QED BY <3>2, <3>3, <3>4
  <2>6. CASE EndScan
    BY <1>1, <1>3, <2>6 DEF EndScan, CursorBehind
  <2>7. CASE UNCHANGED vars
    BY <1>1, <1>3, <2>7 DEF vars, CursorBehind, TakenForMarker
  <2> QED BY <2>1, <2>2, <2>3, <2>4, <2>5, <2>6, <2>7 DEF Next
<1> QED BY <1>1, <1>2, <1>3 DEF CursorBehind, TakenForMarker

(* A seek goes back only over a term that was taken for a marker.          *)
LEMMA SeekBackStep ==
  ASSUME CursorInv, [Next]_vars
  PROVE  pos' >= pos \/ (pos' = pos - 1 /\ Len(index.terms[pos']) = MaxLevels)
<1> DEFINE h == Head(cells)
<1>1. /\ Inputs /\ TypeOK /\ CursorBehind
      /\ Size \in Nat /\ pos \in 0..(Size + 1)
  BY IndexFacts DEF CursorInv, TypeOK
<1>2. ASSUME pc = "pop", cells # << >>, NEW p \in 1..Size, IsCeil(p, h), p < pos
      PROVE  p = pos - 1 /\ Len(index.terms[p]) = MaxLevels
  <2>1. h = cells[1] /\ 1 \in 1..Len(cells)
    BY <1>1, <1>2, TailFacts
  <2>2. ~Less(index.terms[p], h)
    BY <1>1, <1>2 DEF IsCeil
  <2> QED BY <1>1, <1>2, <2>1, <2>2 DEF CursorBehind, TakenForMarker
<1>3. CASE NoField \/ Start \/ Finish \/ EndScan \/ UNCHANGED vars
  BY <1>1, <1>3 DEF NoField, Start, Finish, EndScan, vars
<1>4. CASE SeekEnd
  BY <1>1, <1>4 DEF SeekEnd
<1>5. CASE SeekNotFound \/ CollectCell
  <2>1. PICK p \in 1..Size : IsCeil(p, h) /\ pos' = p
    BY <1>5 DEF SeekNotFound, CollectCell, Found
  <2>2. pc = "pop" /\ cells # << >>
    BY <1>5 DEF SeekNotFound, CollectCell
  <2>3. CASE p < pos
    BY <1>2, <2>1, <2>2, <2>3
  <2>4. CASE ~(p < pos)
    BY <1>1, <2>1, <2>4
  <2> QED BY <2>3, <2>4
<1>6. CASE Divide \/ StartScan
  <2>1. PICK p \in 1..(Size - 1) : Found(p) /\ pos' = AfterLeaf(p + 1)
    BY <1>6 DEF Divide, StartScan
  <2>2. pc = "pop" /\ cells # << >> /\ p \in 1..Size /\ IsCeil(p, h)
    BY <1>1, <1>6, <2>1 DEF Divide, StartScan, Found
  <2>3. p >= pos - 1
    <3>1. CASE p < pos
      BY <1>1, <1>2, <2>2, <3>1
    <3>2. CASE ~(p < pos)
      BY <1>1, <2>2, <3>2
    <3> QED BY <3>1, <3>2
  <2>4. pos' \in {p + 1, p + 2}
    BY <1>1, <2>1, AfterLeafFacts
  <2> QED BY <1>1, <2>2, <2>3, <2>4
<1>7. CASE ScanTerm
  BY <1>1, <1>7 DEF ScanTerm, Advance
<1> QED BY <1>3, <1>4, <1>5, <1>6, <1>7 DEF Next

(* The cursor goes back by at most one term, and only over one of full     *)
(* length, whatever is indexed and asked (RecursivePrefixTreeFilter.java   *)
(* 107, 120-124): the stack is sorted, so a seek finds what the cursor has *)
(* passed only where it took a term for a marker unseen.                   *)
THEOREM SeeksBackAtMostOne == Spec => SeekBackAtMostOne
<1>1. Init => CursorInv
  <2> SUFFICES ASSUME Init
               PROVE  ScanCursor /\ CursorBehind
    BY TypeInit, StackInit DEF CursorInv
  <2> QED BY DEF Init, ScanCursor, CursorBehind
<1>2. CursorInv /\ [Next]_vars => CursorInv'
  BY InputsStep, TypeStep, StackStep, ScanCursorStep, CursorStep DEF CursorInv
<1>3. CursorInv /\ [Next]_vars =>
        [pos' >= pos \/ (pos' = pos - 1 /\ Len(index.terms[pos']) = MaxLevels)]_pos
  BY SeekBackStep
<1> QED BY <1>1, <1>2, <1>3, PTL DEF Spec, SeekBackAtMostOne
=============================================================================
