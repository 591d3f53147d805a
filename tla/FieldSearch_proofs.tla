------------------------- MODULE FieldSearch_proofs -------------------------
(***************************************************************************)
(* Indexing and searching, for every set of fields and every query.        *)
(***************************************************************************)
EXTENDS FieldSearch, RecursivePrefixTreeFilter_proofs, PrefixTreeStrategy_proofs

-----------------------------------------------------------------------------
(* The terms of a set, in order.                                           *)

(* There are finitely many terms.                                          *)
Words(n) == { s \in Seq(0..Arity) : Len(s) <= n }

LEMMA LongerWords ==
  ASSUME NEW n \in Nat, IsFiniteSet(Words(n))
  PROVE  IsFiniteSet(Words(n + 1))
<1> DEFINE P == Words(n) \X (0..Arity)
           f == [p \in P |-> Append(p[1], p[2])]
           Im == { f[p] : p \in P }
<1>1. IsFiniteSet(0..Arity)
  BY FS_Interval, ArityAssumption
<1>2. IsFiniteSet(P)
  BY <1>1, FS_Product
<1>3. f \in Surjection(P, Im)
  BY DEF Surjection
<1>4. IsFiniteSet(Im)
  <2> HIDE DEF f, P, Im
  <2> QED BY <1>2, <1>3, FS_Surjection
<1>5. IsFiniteSet(Words(n) \cup Im)
  <2> HIDE DEF Im
  <2> QED BY <1>4, FS_Union
<1>6. ASSUME NEW s \in Words(n + 1) PROVE s \in Words(n) \cup Im
  <2>1. s \in Seq(0..Arity) /\ Len(s) \in Nat /\ Len(s) <= n + 1
    BY DEF Words
  <2>2. CASE Len(s) <= n
    BY <2>1, <2>2 DEF Words
  <2>3. CASE ~(Len(s) <= n)
    <3> DEFINE m == Len(s) - 1
               a == SubSeq(s, 1, m)
    <3>1. m = n /\ m \in Nat /\ Len(s) = m + 1
      BY <2>1, <2>3
    <3>a. m \in 0..Len(s) /\ Len(s) \in 1..Len(s)
      BY <2>1, <3>1
    <3>2. a \in Seq(0..Arity) /\ Len(a) = m /\ \A k \in 1..m : a[k] = s[k]
      <4> HIDE DEF m
      <4> QED BY <2>1, <3>a, FirstOnes
    <3>3. s[Len(s)] \in 0..Arity
      BY <2>1, <3>a, ElementOfSeq
    <3> HIDE DEF a, m
    <3>4. Append(a, s[Len(s)]) = s
      <4>1. /\ Append(a, s[Len(s)]) \in Seq(0..Arity)
            /\ Len(Append(a, s[Len(s)])) = m + 1
            /\ \A k \in 1..m : Append(a, s[Len(s)])[k] = a[k]
            /\ Append(a, s[Len(s)])[m + 1] = s[Len(s)]
        BY <3>1, <3>2, <3>3, AppendProperties
      <4> QED BY <2>1, <3>1, <3>2, <4>1, SeqEqual
    <3>5. << a, s[Len(s)] >> \in P
      BY <3>1, <3>2, <3>3 DEF Words
    <3>6. f[<< a, s[Len(s)] >>] = s
      BY <3>4, <3>5
    <3> QED BY <3>5, <3>6
  <2> QED BY <2>2, <2>3
<1>7. Words(n + 1) \in SUBSET (Words(n) \cup Im)
  <2> HIDE DEF Im
  <2> QED BY <1>6
<1> HIDE DEF Im
<1> QED BY <1>5, <1>7, FS_Subset

LEMMA FinitelyManyTerms == IsFiniteSet(Terms)
<1>0. MaxLevels \in Nat /\ Arity \in Nat
  BY MaxLevelsAssumption, ArityAssumption
<1> DEFINE I(n) == IsFiniteSet(Words(n))
<1>1. I(0)
  <2>1. Words(0) \in SUBSET {<< >>}
    BY EmptySeq DEF Words
  <2> QED BY <2>1, FS_Subset, FS_Singleton
<1>2. \A n \in Nat : I(n) => I(n + 1)
  BY LongerWords
<1> DEFINE T == { n \in 0..(MaxLevels + 1) : I(n) }
<1>3. 0 \in T
  BY <1>0, <1>1
<1>4. ASSUME NEW k \in 1..(MaxLevels + 1), k - 1 \in T PROVE k \in T
  BY <1>0, <1>2, <1>4
<1> HIDE DEF I
<1>5. MaxLevels + 1 \in T
  <2> HIDE DEF T
  <2>1. \A k \in 0..(MaxLevels + 1) : k \in T
    BY <1>0, <1>3, <1>4, CountUp
  <2> QED BY <1>0, <2>1
<1>6. Terms \in SUBSET Words(MaxLevels + 1)
  BY <1>0 DEF Terms, Words, Cells
<1> QED BY <1>5, <1>6, FS_Subset DEF I

-----------------------------------------------------------------------------
(* How many terms of H are less than t.                                    *)
Rank(H, t) == Cardinality({ u \in H : Less(u, t) })

LEMMA RankFacts ==
  ASSUME NEW H \in SUBSET Terms
  PROVE  /\ IsFiniteSet(H) /\ Cardinality(H) \in Nat
         /\ \A t \in H : Rank(H, t) \in 0..(Cardinality(H) - 1)
         /\ \A s, t \in H : Less(s, t) => Rank(H, s) < Rank(H, t)
         /\ \A s, t \in H : Rank(H, s) < Rank(H, t) => Less(s, t)
         /\ \A s, t \in H : Rank(H, s) = Rank(H, t) => s = t
<1>1. IsFiniteSet(H) /\ Cardinality(H) \in Nat
  BY FinitelyManyTerms, FS_Subset, FS_CardinalityType
<1>2. \A t \in H : t \in Seq(Nat)
  BY TermsAreSequences
<1> DEFINE below(t) == { u \in H : Less(u, t) }
<1>3. ASSUME NEW t \in H
      PROVE  /\ IsFiniteSet(below(t)) /\ Rank(H, t) \in Nat /\ Rank(H, t) = Cardinality(below(t))
             /\ t \notin below(t)
  <2>1. below(t) \in SUBSET H
    OBVIOUS
  <2>2. t \notin below(t)
    BY <1>2, LessIrreflexive
  <2>3. IsFiniteSet(below(t)) /\ Cardinality(below(t)) \in Nat
    <3> HIDE DEF below
    <3> QED BY <1>1, <2>1, FS_Subset, FS_CardinalityType
  <2> QED BY <2>2, <2>3 DEF Rank
<1>4. ASSUME NEW t \in H PROVE Rank(H, t) < Cardinality(H)
  <2>1. below(t) \in SUBSET H
    OBVIOUS
  <2> HIDE DEF below
  <2>2. below(t) # H
    BY <1>3
  <2>3. Cardinality(below(t)) <= Cardinality(H) /\ Cardinality(below(t)) # Cardinality(H)
    BY <1>1, <2>1, <2>2, FS_Subset
  <2> QED BY <1>1, <1>3, <2>3
<1>5. ASSUME NEW s \in H, NEW t \in H, Less(s, t) PROVE Rank(H, s) < Rank(H, t)
  <2>1. below(s) \in SUBSET below(t)
    BY <1>2, <1>5, LessTransitive
  <2>2. s \in below(t) /\ s \notin below(s)
    BY <1>3, <1>5
  <2> HIDE DEF below
  <2>3. below(s) # below(t)
    BY <2>2
  <2>4. /\ Cardinality(below(s)) <= Cardinality(below(t))
        /\ Cardinality(below(s)) # Cardinality(below(t))
    BY <1>3, <2>1, <2>3, FS_Subset
  <2> QED BY <1>3, <2>4
<1>6. \A t \in H : Rank(H, t) \in 0..(Cardinality(H) - 1)
  <2> HIDE DEF below
  <2>1. \A t \in H : Rank(H, t) \in Nat
    BY <1>3
  <2> QED BY <1>1, <1>4, <2>1
<1>7. \A s, t \in H : s = t \/ Less(s, t) \/ Less(t, s)
  BY <1>2, LessTotal
<1>8. \A s, t \in H : Rank(H, s) < Rank(H, t) => Less(s, t)
  <2> SUFFICES ASSUME NEW s \in H, NEW t \in H, Rank(H, s) < Rank(H, t) PROVE Less(s, t)
    OBVIOUS
  <2>1. Rank(H, s) \in Nat /\ Rank(H, t) \in Nat
    BY <1>3
  <2>2. Less(t, s) => Rank(H, t) < Rank(H, s)
    BY <1>5
  <2> HIDE DEF below
  <2>3. s # t /\ ~Less(t, s)
    BY <2>1, <2>2
  <2> QED BY <1>7, <2>3
<1>9. \A s, t \in H : Rank(H, s) = Rank(H, t) => s = t
  <2> SUFFICES ASSUME NEW s \in H, NEW t \in H, Rank(H, s) = Rank(H, t) PROVE s = t
    OBVIOUS
  <2>1. Rank(H, s) \in Nat /\ Rank(H, t) \in Nat
    BY <1>3
  <2>2. ~Less(t, s) /\ ~Less(s, t)
    BY <1>5, <2>1
  <2> QED BY <1>7, <2>2
<1>10. \A s, t \in H : Less(s, t) => Rank(H, s) < Rank(H, t)
  BY <1>5
<1> QED BY <1>1, <1>6, <1>8, <1>9, <1>10

(* The index holds each of its terms once, in order.                       *)
LEMMA AscendingFacts ==
  ASSUME NEW H \in SUBSET Terms
  PROVE  /\ Ascending(H) \in Seq(Terms)
         /\ \A i, j \in 1..Len(Ascending(H)) : i < j => Less(Ascending(H)[i], Ascending(H)[j])
         /\ \A i \in 1..Len(Ascending(H)) : Ascending(H)[i] \in H
         /\ \A t \in H : \E i \in 1..Len(Ascending(H)) : Ascending(H)[i] = t
<1> DEFINE n == Cardinality(H)
           a == Ascending(H)
           ranked == { << t, Rank(H, t) >> : t \in H }
           f == [t \in H |-> Rank(H, t) + 1]
<1>1. /\ IsFiniteSet(H) /\ n \in Nat
      /\ \A t \in H : Rank(H, t) \in 0..(n - 1)
      /\ \A s, t \in H : Rank(H, s) < Rank(H, t) => Less(s, t)
      /\ \A s, t \in H : Rank(H, s) = Rank(H, t) => s = t
  BY RankFacts
<1>2. a = [i \in 1..n |-> (CHOOSE r \in ranked : r[2] = i - 1)[1]]
  BY DEF Ascending, Rank
<1> HIDE DEF n, a
<1>3. f \in Injection(H, 1..n)
  <2>1. \A t \in H : f[t] \in 1..n
    BY <1>1
  <2>2. \A s, t \in H : f[s] = f[t] => s = t
    BY <1>1
  <2>3. f \in [H -> 1..n]
    BY <2>1
  <2> HIDE DEF f
  <2> QED BY <2>2, <2>3 DEF Injection, IsInjective
<1>4. IsFiniteSet(1..n) /\ Cardinality(1..n) = n
  BY <1>1, FS_Interval
<1>5. f \in Surjection(H, 1..n)
  <2> HIDE DEF f
  <2> QED BY <1>3, <1>4, FS_Injection DEF n
<1>6. ASSUME NEW i \in 1..n PROVE \E t \in H : Rank(H, t) = i - 1
  <2>1. PICK t \in H : f[t] = i
    BY <1>5 DEF Surjection
  <2> QED BY <1>1, <2>1
<1>7. ASSUME NEW i \in 1..n PROVE a[i] \in H /\ Rank(H, a[i]) = i - 1
  <2>1. PICK t \in H : Rank(H, t) = i - 1
    BY <1>6
  <2> DEFINE r == CHOOSE r \in ranked : r[2] = i - 1
  <2>2. << t, Rank(H, t) >> \in ranked /\ << t, Rank(H, t) >>[2] = i - 1
    BY <2>1
  <2>3. r \in ranked /\ r[2] = i - 1
    <3> HIDE DEF ranked
    <3> QED BY <2>2
  <2>4. a[i] = r[1]
    BY <1>2
  <2> HIDE DEF r
  <2>5. PICK u \in H : r = << u, Rank(H, u) >>
    BY <2>3
  <2> QED BY <2>3, <2>4, <2>5
<1>8. a \in Seq(Terms) /\ Len(a) = n
  <2>1. a \in [1..n -> Terms]
    <3>1. \A i \in 1..n : a[i] \in Terms
      BY <1>7
    <3>2. DOMAIN a = 1..n /\ a = [i \in 1..n |-> a[i]]
      BY <1>2
    <3> QED BY <3>1, <3>2
  <2> QED BY <1>1, <2>1, FunctionIsSeq
<1>9. \A i, j \in 1..n : i < j => Less(a[i], a[j])
  <2> SUFFICES ASSUME NEW i \in 1..n, NEW j \in 1..n, i < j PROVE Less(a[i], a[j])
    OBVIOUS
  <2>1. Rank(H, a[i]) < Rank(H, a[j])
    BY <1>1, <1>7
  <2> QED BY <1>1, <1>7, <2>1
<1>10. ASSUME NEW t \in H PROVE \E i \in 1..n : a[i] = t
  <2> DEFINE i == Rank(H, t) + 1
  <2>1. i \in 1..n /\ Rank(H, t) = i - 1
    BY <1>1
  <2>2. Rank(H, a[i]) = Rank(H, t) /\ a[i] \in H
    BY <1>7, <2>1
  <2> QED BY <1>1, <2>1, <2>2
<1> QED BY <1>7, <1>8, <1>9, <1>10 DEF a

-----------------------------------------------------------------------------
(* Cells below a cell.                                                     *)

(* Every point of a cell is in a cell of each level below it.              *)
LEMMA CellBelowAt ==
  ASSUME NEW c \in Tree, NEW n \in Len(c)..MaxLevels,
         NEW v \in CellLon(c), NEW w \in CellLat(c)
  PROVE  \E x \in Tree : Len(x) = n /\ StartsWith(x, c) /\ v \in CellLon(x) /\ w \in CellLat(x)
<1>0. /\ MaxLevels \in Nat /\ Len(c) \in Nat /\ n \in Nat /\ Len(c) <= n /\ n <= MaxLevels
      /\ n - Len(c) \in Nat
  BY MaxLevelsAssumption, TreeFacts
<1> DEFINE Has(k) == \E x \in Tree : /\ Len(x) = Len(c) + k /\ StartsWith(x, c)
                                     /\ v \in CellLon(x) /\ w \in CellLat(x)
           T == { k \in 0..(n - Len(c)) : Has(k) }
<1>1. 0 \in T
  BY <1>0, Begins
<1>2. ASSUME NEW k \in 1..(n - Len(c)), k - 1 \in T PROVE k \in T
  <2>1. PICK x \in Tree : /\ Len(x) = Len(c) + (k - 1) /\ StartsWith(x, c)
                          /\ v \in CellLon(x) /\ w \in CellLat(x)
    BY <1>2
  <2>2. Len(x) < MaxLevels
    BY <1>0, <2>1
  <2>3. PICK i \in 1..Arity : v \in CellLon(Append(x, i)) /\ w \in CellLat(Append(x, i))
    BY <2>1, <2>2, SubCellsTile
  <2> DEFINE y == Append(x, i)
  <2>4. y \in Tree /\ Len(y) = Len(x) + 1 /\ StartsWith(y, x)
    BY <2>2, SubCellInTree
  <2>5. v \in CellLon(y) /\ w \in CellLat(y)
    BY <2>3
  <2> HIDE DEF y
  <2>6. StartsWith(y, c)
    BY <2>1, <2>4, Begins
  <2>7. Len(y) = Len(c) + k
    BY <1>0, <2>1, <2>4
  <2> QED BY <2>4, <2>5, <2>6, <2>7
<1> HIDE DEF Has
<1>3. n - Len(c) \in T
  <2>1. \A k \in 0..(n - Len(c)) : k \in T
    <3> HIDE DEF T
    <3> QED BY <1>0, <1>1, <1>2, CountUp
  <2> QED BY <1>0, <2>1
<1>4. Has(n - Len(c))
  BY <1>3
<1> QED BY <1>0, <1>4 DEF Has

(* A shape that touches a cell touches a cell of each level below it.      *)
LEMMA TouchesBelow ==
  ASSUME NEW c \in Tree, NEW n \in Len(c)..MaxLevels, NEW s, CellTouches(c, s)
  PROVE  \E x \in Tree : Len(x) = n /\ StartsWith(x, c) /\ CellTouches(x, s)
<1>1. PICK v \in CellLon(c) : v \in Longitudes(s)
  BY DEF CellTouches
<1>2. PICK w \in CellLat(c) : w \in Latitudes(s)
  BY DEF CellTouches
<1>3. PICK x \in Tree : Len(x) = n /\ StartsWith(x, c) /\ v \in CellLon(x) /\ w \in CellLat(x)
  BY CellBelowAt
<1>4. CellTouches(x, s)
  BY <1>1, <1>2, <1>3 DEF CellTouches
<1> QED BY <1>3, <1>4

(* There is a cell of each level below a cell.                             *)
LEMMA CellsBelowCell ==
  ASSUME NEW c \in Tree, NEW n \in Len(c)..MaxLevels
  PROVE  \E x \in Tree : Len(x) = n /\ StartsWith(x, c)
<1>1. PICK v \in CellLon(c), w \in CellLat(c) : TRUE
  BY CellsHavePoints
<1> QED BY <1>1, CellBelowAt

(* Of two beginnings of a cell the shorter begins the longer.              *)
LEMMA BeginningsNest ==
  ASSUME NEW x \in Tree, NEW a \in Tree, NEW b \in Tree,
         StartsWith(x, a), StartsWith(x, b), Len(a) <= Len(b)
  PROVE  StartsWith(b, a)
<1>1. Len(a) \in Nat /\ Len(b) \in Nat
  BY TreeFacts
<1> QED BY <1>1 DEF StartsWith

-----------------------------------------------------------------------------
(* The terms that createField() gives a shape.                             *)

LEMMA TermsOfList ==
  ASSUME NEW L \in Seq(FieldNode), NEW x
  PROVE  x \in TermsOf(L) <=> \E j \in 1..Len(L) : IsTokenOf(L, j, x)
<1>1. DOMAIN L = 1..Len(L) /\ ToSet(L) = { L[j] : j \in 1..Len(L) }
  BY DEF ToSet
<1>2. x \in TermsOf(L) <=> \E node \in ToSet(L) : x = node.cell \/ (node.leaf /\ x = Marked(node.cell))
  <2> DEFINE Ns == ToSet(L)
  <2> HIDE DEF Ns
  <2>1. x \in { node.cell : node \in Ns } \cup { Marked(node.cell) : node \in { node \in Ns : node.leaf } }
        <=> \E node \in Ns : x = node.cell \/ (node.leaf /\ x = Marked(node.cell))
    OBVIOUS
  <2> QED BY <2>1 DEF TermsOf, Ns
<1> QED BY <1>1, <1>2 DEF IsTokenOf

(* The list of cells of a field that is not of a world leaf.               *)
IsListOf(L, s, d) ==
  /\ L \in Seq(FieldNode)
  /\ IF IsPoint(s) THEN IsPointList(L, s) /\ d = MaxLevels ELSE IsShapeList(L, s, d)

LEMMA ListsOfFields ==
  ASSUME NEW s, IsOfWorld(s), NEW d \in DetailLevels(s), ~MakesWorldLeaf(s, d)
  PROVE  IsListOf(FieldNodes(s, d, FALSE), s, d) /\ d \in 1..MaxLevels
<1>1. d \in 1..MaxLevels /\ (IsPoint(s) => d = MaxLevels)
  BY DetailLevelsExist
<1> DEFINE L == FieldNodes(s, d, FALSE)
<1>2. CASE IsPoint(s)
  <2>1. IsPointList(L, s)
    BY <1>1, <1>2, ListOfPoint
  <2> HIDE DEF L
  <2>2. IsListOf(L, s, d)
    BY <1>1, <1>2, <2>1 DEF IsListOf, IsPointList
  <2> QED BY <1>1, <2>2 DEF L
<1>3. CASE ~IsPoint(s)
  <2>1. IsShapeList(L, s, d)
    BY <1>1, <1>3, ListsOfShape
  <2> HIDE DEF L
  <2>2. IsListOf(L, s, d)
    BY <1>3, <2>1 DEF IsListOf, IsShapeList
  <2> QED BY <1>1, <2>2 DEF L
<1> QED BY <1>2, <1>3

-----------------------------------------------------------------------------
(* What the terms of a field have in common, a point's or a shape's.       *)
IsFieldOf(T) ==
  /\ T \subseteq Terms
  /\ \A x \in T : CellOf(x) \in T
  /\ \A x \in T : ~IsMarked(x) /\ Len(x) < MaxLevels => \E u \in T : u # x /\ StartsWith(u, x)
  /\ \A x \in T : \E k \in 1..Level(x) : /\ \A n \in 1..k : SubSeq(x, 1, n) \in T
                                         /\ k = Level(x) \/ Marked(SubSeq(x, 1, k)) \in T
  /\ \A x \in T : \E u \in T : IsLeafTerm(u) /\ StartsWith(u, CellOf(x))

(* How the terms of a field lie to its shape: the leaves cover the shape   *)
(* exactly at the detail level, and every cell touches it.                 *)
IsFieldOfShape(T, s, d) ==
  /\ \A x \in Cells : Len(x) = d =>
       (CellTouches(x, s) <=> \E u \in T : IsMarked(u) /\ StartsWith(x, CellOf(u)))
  /\ \A x \in T : CellTouches(CellOf(x), s)
  /\ \A x \in T : Level(x) <= d \/ Level(x) = MaxLevels
  /\ \A x \in T : IsMarked(x) => Level(x) <= d /\ \A n \in 1..Level(x) : SubSeq(x, 1, n) \in T

LEMMA BeginningsAgree ==
  ASSUME NEW x \in Seq(Nat), NEW c \in Seq(Nat), StartsWith(x, c), NEW n \in 1..Len(c)
  PROVE  SubSeq(x, 1, n) = SubSeq(c, 1, n)
<1>1. n \in 0..Len(x) /\ n \in 0..Len(c) /\ Len(c) <= Len(x)
  BY LenProperties DEF StartsWith
<1>2. SubSeq(x, 1, n) \in Seq(Nat) /\ Len(SubSeq(x, 1, n)) = n /\ \A k \in 1..n : SubSeq(x, 1, n)[k] = x[k]
  BY <1>1, FirstOnes
<1>3. SubSeq(c, 1, n) \in Seq(Nat) /\ Len(SubSeq(c, 1, n)) = n /\ \A k \in 1..n : SubSeq(c, 1, n)[k] = c[k]
  BY <1>1, FirstOnes
<1>4. \A k \in 1..n : x[k] = c[k]
  BY <1>1 DEF StartsWith
<1> QED BY <1>2, <1>3, <1>4, SeqEqual

LEMMA TokensOfList ==
  ASSUME NEW L \in Seq(FieldNode), NEW x \in TermsOf(L)
  PROVE  /\ x \in Terms
         /\ \E j \in 1..Len(L) :
              /\ IsTokenOf(L, j, x) /\ CellOf(x) = L[j].cell /\ Level(x) = Len(L[j].cell)
              /\ IsMarked(x) => L[j].leaf /\ x = Marked(L[j].cell)
              /\ ~IsMarked(x) => x = L[j].cell
              /\ StartsWith(x, L[j].cell)
<1>1. PICK j \in 1..Len(L) : IsTokenOf(L, j, x)
  BY TermsOfList
<1>2. L[j].cell \in Cells
  BY NodesOfList
<1>3. /\ CellOf(x) = L[j].cell /\ x \in Terms
      /\ IsMarked(x) => L[j].leaf /\ x = Marked(L[j].cell)
      /\ ~IsMarked(x) => x = L[j].cell
  BY <1>1, <1>2, TokenOfCell
<1>4. StartsWith(x, L[j].cell)
  <2>1. StartsWith(L[j].cell, L[j].cell) /\ StartsWith(Marked(L[j].cell), L[j].cell)
    BY <1>2, CellsAreTerms, CellsAreInTree, Begins
  <2> QED BY <1>3, <2>1
<1>5. Level(x) = Len(L[j].cell)
  <2>1. CASE IsMarked(x)
    <3>1. Len(Marked(L[j].cell)) = Len(L[j].cell) + 1 /\ Len(L[j].cell) \in Nat
      BY <1>2, CellsAreSequences, AppendProperties DEF Marked, LeafByte
    <3> QED BY <1>3, <2>1, <3>1 DEF Level
  <2>2. CASE ~IsMarked(x)
    BY <1>3, <2>2 DEF Level
  <2> QED BY <2>1, <2>2
<1> QED BY <1>1, <1>3, <1>4, <1>5

LEMMA CellsAreTokens ==
  ASSUME NEW L \in Seq(FieldNode), NEW j \in 1..Len(L)
  PROVE  /\ L[j].cell \in TermsOf(L) /\ L[j].cell \in Cells /\ L[j].cell \in Seq(Nat)
         /\ L[j].leaf => Marked(L[j].cell) \in TermsOf(L)
<1>1. IsTokenOf(L, j, L[j].cell) /\ (L[j].leaf => IsTokenOf(L, j, Marked(L[j].cell)))
  BY DEF IsTokenOf
<1>2. L[j].cell \in Cells
  BY NodesOfList
<1> QED BY <1>1, <1>2, TermsOfList, CellsAreSequences

(* Below each cell of a shape's list there is a leaf or the centre.        *)
LEMMA LeafOrCentreBelow ==
  ASSUME NEW L, NEW s, NEW d, IsShapeList(L, s, d), NEW j \in 1..Len(L)
  PROVE  \E k \in 1..Len(L) : StartsWith(L[k].cell, L[j].cell) /\ (L[k].leaf \/ k = Len(L))
<1>0. L \in Seq(FieldNode) /\ Len(L) \in Nat
  BY DEF IsShapeList
<1>1. \A k \in 1..Len(L) : /\ L[k].cell \in Tree /\ Len(L[k].cell) \in 1..MaxLevels
  BY <1>0, NodesOfList, CellsAreInTree, CellsAreSequences
<1> DEFINE S == { n \in 1..MaxLevels :
                    \E k \in 1..Len(L) : StartsWith(L[k].cell, L[j].cell) /\ Len(L[k].cell) = n }
<1>2. StartsWith(L[j].cell, L[j].cell)
  BY <1>1, Begins
<1>3. S # {} /\ S \in SUBSET Int /\ S \in SUBSET (1..MaxLevels)
  BY <1>1, <1>2
<1>4. IsFiniteSet(S)
  <2>1. IsFiniteSet(1..MaxLevels)
    BY FS_Interval, MaxLevelsAssumption
  <2> HIDE DEF S
  <2> QED BY <1>3, <2>1, FS_Subset
<1>5. Max(S) \in S /\ \A n \in S : Max(S) >= n
  <2> HIDE DEF S
  <2> QED BY <1>3, <1>4, MaxOf
<1>6. PICK k \in 1..Len(L) : StartsWith(L[k].cell, L[j].cell) /\ Len(L[k].cell) = Max(S)
  BY <1>5
<1>7. ASSUME ~L[k].leaf, k # Len(L) PROVE FALSE
  <2>1. k \in 1..(Len(L) - 1)
    BY <1>0, <1>7
  <2>2. PICK i \in 1..Len(L) : L[i].cell # L[k].cell /\ StartsWith(L[i].cell, L[k].cell)
    BY <1>7, <2>1 DEF IsShapeList
  <2>3. Len(L[i].cell) > Len(L[k].cell)
    BY <1>1, <2>2, Begins, TreeFacts
  <2>4. StartsWith(L[i].cell, L[j].cell)
    BY <1>1, <1>6, <2>2, Begins
  <2>5. Len(L[i].cell) \in S
    BY <1>1, <2>4
  <2> HIDE DEF S
  <2> QED BY <1>3, <1>5, <1>6, <2>3, <2>5
<1> QED BY <1>6, <1>7

(* Every cell of a shape's list touches the shape.                         *)
LEMMA ListTouches ==
  ASSUME NEW L, NEW s, NEW d \in 1..MaxLevels, IsShapeList(L, s, d), NEW j \in 1..Len(L)
  PROVE  CellTouches(L[j].cell, s)
<1>0. L \in Seq(FieldNode) /\ Len(L) \in Nat /\ MaxLevels \in Nat
  BY MaxLevelsAssumption DEF IsShapeList
<1>1. \A k \in 1..Len(L) : /\ L[k].cell \in Tree /\ Len(L[k].cell) \in 1..MaxLevels
  BY <1>0, NodesOfList, CellsAreInTree, CellsAreSequences
<1>2. PICK k \in 1..Len(L) : StartsWith(L[k].cell, L[j].cell) /\ (L[k].leaf \/ k = Len(L))
  BY LeafOrCentreBelow
<1>3. CASE k = Len(L)
  <2>1. CellTouches(L[k].cell, s)
    BY <1>3 DEF IsShapeList
  <2> QED BY <1>1, <1>2, <2>1, TouchesUp
<1>4. CASE L[k].leaf
  <2>1. k \in 1..(Len(L) - 1)
    BY <1>0, <1>4 DEF IsShapeList
  <2>2. Len(L[k].cell) <= d
    BY <2>1 DEF IsShapeList
  <2>3. d \in Len(L[k].cell)..MaxLevels
    BY <1>0, <1>1, <2>2
  <2>4. PICK x \in Tree : Len(x) = d /\ StartsWith(x, L[k].cell)
    BY <1>1, <2>3, CellsBelowCell
  <2>5. x \in Cells
    BY <2>4, TreeFacts
  <2>6. CellTouches(x, s)
    BY <1>4, <2>4, <2>5 DEF IsShapeList
  <2>7. CellTouches(L[k].cell, s)
    BY <1>1, <2>4, <2>6, TouchesUp
  <2> QED BY <1>1, <1>2, <2>7, TouchesUp
<1> QED BY <1>2, <1>3, <1>4

LEMMA FieldOfPointList ==
  ASSUME NEW L, NEW s, IsPointList(L, s)
  PROVE  IsFieldOf(TermsOf(L))
<1> DEFINE T == TermsOf(L)
<1>0. L \in Seq(FieldNode) /\ Len(L) = MaxLevels /\ MaxLevels \in Nat /\ MaxLevels >= 1
  BY MaxLevelsAssumption DEF IsPointList
<1>1. \A i \in 1..MaxLevels : L[i].cell \in T /\ L[i].cell \in Cells /\ Len(L[i].cell) = i
  BY <1>0, CellsAreTokens DEF IsPointList
<1>2. ASSUME NEW x \in T
      PROVE  /\ x \in Terms /\ CellOf(x) = x /\ ~IsMarked(x) /\ Level(x) = Len(x)
             /\ \E i \in 1..MaxLevels : x = L[i].cell /\ Len(x) = i
  <2>1. PICK i \in 1..Len(L) : /\ CellOf(x) = L[i].cell /\ Level(x) = Len(L[i].cell)
                               /\ IsMarked(x) => L[i].leaf
                               /\ ~IsMarked(x) => x = L[i].cell
    BY <1>0, TokensOfList
  <2>2. ~L[i].leaf
    BY DEF IsPointList
  <2>3. x \in Terms
    BY <1>0, TokensOfList
  <2> QED BY <1>0, <1>1, <2>1, <2>2, <2>3
<1> HIDE DEF T
<1>a. T \subseteq Terms /\ \A x \in T : CellOf(x) \in T
  BY <1>2
<1>b. ASSUME NEW x \in T, Len(x) < MaxLevels
      PROVE  \E u \in T : u # x /\ StartsWith(u, x)
  <2>1. PICK i \in 1..MaxLevels : x = L[i].cell /\ Len(x) = i
    BY <1>2
  <2>2. i + 1 \in 1..MaxLevels /\ i < i + 1
    BY <1>0, <1>b, <2>1
  <2>3. StartsWith(L[i + 1].cell, L[i].cell)
    BY <1>0, <2>2 DEF IsPointList
  <2>4. Len(L[i + 1].cell) # Len(x) /\ L[i + 1].cell \in T
    BY <1>1, <2>1, <2>2
  <2> QED BY <2>1, <2>3, <2>4
<1>c. ASSUME NEW x \in T
      PROVE  Level(x) \in 1..Level(x) /\ \A n \in 1..Level(x) : SubSeq(x, 1, n) \in T
  <2>1. PICK i \in 1..MaxLevels : x = L[i].cell /\ Len(x) = i
    BY <1>2
  <2>2. Level(x) = i
    BY <1>2, <2>1
  <2>3. ASSUME NEW n \in 1..i PROVE SubSeq(x, 1, n) \in T
    <3>1. L[n].cell = SubSeq(L[i].cell, 1, n)
      BY <1>0 DEF IsPointList
    <3>2. n \in 1..MaxLevels
      BY <1>0
    <3> QED BY <1>1, <2>1, <3>1, <3>2
  <2> QED BY <2>2, <2>3
<1>d. ASSUME NEW x \in T PROVE \E u \in T : IsLeafTerm(u) /\ StartsWith(u, CellOf(x))
  <2>1. PICK i \in 1..MaxLevels : x = L[i].cell /\ Len(x) = i
    BY <1>2
  <2> DEFINE u == L[MaxLevels].cell
  <2>2. u \in T /\ u \in Cells /\ Len(u) = MaxLevels
    BY <1>0, <1>1
  <2>3. StartsWith(u, x)
    <3>1. CASE i = MaxLevels
      BY <2>1, <2>2, <3>1, Begins, CellsAreInTree
    <3>2. CASE i < MaxLevels
      BY <1>0, <2>1, <3>2 DEF IsPointList
    <3> QED BY <1>0, <3>1, <3>2
  <2>4. CellOf(x) = x
    BY <1>2
  <2> QED BY <2>2, <2>3, <2>4 DEF IsLeafTerm
<1> QED BY <1>a, <1>b, <1>c, <1>d DEF IsFieldOf, T

LEMMA FieldOfShapeList ==
  ASSUME NEW L, NEW s, NEW d \in 1..MaxLevels, IsShapeList(L, s, d)
  PROVE  IsFieldOf(TermsOf(L)) /\ IsFieldOfShape(TermsOf(L), s, d)
<1> DEFINE T == TermsOf(L)
           n == Len(L)
<1>0. /\ L \in Seq(FieldNode) /\ n \in Nat /\ n >= 1 /\ MaxLevels \in Nat
      /\ ~L[n].leaf /\ Len(L[n].cell) = MaxLevels
  BY MaxLevelsAssumption DEF IsShapeList
<1>1. ASSUME NEW i \in 1..n
      PROVE  /\ L[i].cell \in T /\ L[i].cell \in Cells /\ L[i].cell \in Seq(Nat)
             /\ L[i].cell \in Tree /\ Len(L[i].cell) \in 1..MaxLevels
             /\ L[i].leaf => Marked(L[i].cell) \in T
  BY <1>0, CellsAreTokens, CellsAreInTree, CellsAreSequences
<1>2. ASSUME NEW x \in T
      PROVE  /\ x \in Terms
             /\ \E j \in 1..n :
                  /\ CellOf(x) = L[j].cell /\ Level(x) = Len(L[j].cell)
                  /\ IsMarked(x) => L[j].leaf /\ x = Marked(L[j].cell)
                  /\ ~IsMarked(x) => x = L[j].cell
                  /\ StartsWith(x, L[j].cell)
  BY <1>0, TokensOfList
<1> HIDE DEF T
<1>3. \A i \in 1..n : i = n \/ i \in 1..(n - 1)
  BY <1>0
<1>4. ASSUME NEW c \in Cells
      PROVE  /\ IsMarked(Marked(c)) /\ ~IsMarked(c) /\ CellOf(Marked(c)) = c
             /\ Marked(c) # c /\ StartsWith(Marked(c), c) /\ Marked(c) \in Seq(Nat) /\ c \in Seq(Nat)
  BY CellsAreTerms, TermsAreSequences, CellsAreSequences
<1> HIDE DEF n
<1>a. T \subseteq Terms /\ \A x \in T : CellOf(x) \in T
  BY <1>1, <1>2
<1>b. ASSUME NEW x \in T, ~IsMarked(x), Len(x) < MaxLevels
      PROVE  \E u \in T : u # x /\ StartsWith(u, x)
  <2>1. PICK j \in 1..n : x = L[j].cell
    BY <1>2, <1>b
  <2>2. CASE L[j].leaf
    BY <1>1, <1>4, <2>1, <2>2
  <2>3. CASE ~L[j].leaf
    <3>1. j \in 1..(n - 1)
      BY <1>0, <1>3, <1>b, <2>1
    <3>2. PICK i \in 1..n : L[i].cell # L[j].cell /\ StartsWith(L[i].cell, L[j].cell)
      BY <2>3, <3>1 DEF IsShapeList, n
    <3> QED BY <1>1, <2>1, <3>2
  <2> QED BY <2>2, <2>3
(* The parents of a cell of the shape, and the cell.                       *)
<1>5. ASSUME NEW j \in 1..(n - 1), NEW x \in Seq(Nat), StartsWith(x, L[j].cell)
      PROVE  /\ j \in 1..n
             /\ \A k \in 1..Len(L[j].cell) : SubSeq(x, 1, k) \in T /\ SubSeq(x, 1, k) = SubSeq(L[j].cell, 1, k)
  <2>0. j \in 1..n
    BY <1>0
  <2>1. ASSUME NEW k \in 1..Len(L[j].cell)
        PROVE  SubSeq(x, 1, k) \in T /\ SubSeq(x, 1, k) = SubSeq(L[j].cell, 1, k)
    <3>1. PICK i \in 1..n : L[i].cell = SubSeq(L[j].cell, 1, k)
      BY DEF IsShapeList, n
    <3>2. SubSeq(x, 1, k) = SubSeq(L[j].cell, 1, k)
      BY <1>1, <1>5, <2>0, BeginningsAgree
    <3> QED BY <1>1, <3>1, <3>2
  <2> QED BY <2>0, <2>1
<1>c. ASSUME NEW x \in T
      PROVE  /\ IsMarked(x) => \A k \in 1..Level(x) : SubSeq(x, 1, k) \in T
             /\ \E m \in 1..Level(x) : /\ \A k \in 1..m : SubSeq(x, 1, k) \in T
                                       /\ m = Level(x) \/ Marked(SubSeq(x, 1, m)) \in T
  <2>0. x \in Seq(Nat)
    BY <1>2, TermsAreSequences
  <2>1. PICK j \in 1..n : /\ CellOf(x) = L[j].cell /\ Level(x) = Len(L[j].cell)
                          /\ IsMarked(x) => L[j].leaf
                          /\ ~IsMarked(x) => x = L[j].cell
                          /\ StartsWith(x, L[j].cell)
    BY <1>2
  <2>2. CASE j \in 1..(n - 1)
    <3>1. \A k \in 1..Level(x) : SubSeq(x, 1, k) \in T
      BY <1>5, <2>0, <2>1, <2>2
    <3>2. Level(x) \in 1..Level(x)
      BY <1>1, <2>1
    <3> QED BY <3>1, <3>2
  <2>3. CASE j = n
    <3>1. ~IsMarked(x) /\ x = L[n].cell /\ Level(x) = Len(x)
      BY <1>0, <2>1, <2>3
    <3>2. PICK i \in 1..n : L[i].leaf /\ StartsWith(L[n].cell, L[i].cell)
      BY DEF IsShapeList, n
    <3>3. i \in 1..(n - 1)
      BY <1>0, <1>3, <3>2
    <3> DEFINE m == Len(L[i].cell)
    <3>4. \A k \in 1..m : SubSeq(x, 1, k) \in T
      BY <1>5, <2>0, <3>1, <3>2, <3>3
    <3>5. n \in 1..n
      BY <1>0
    <3>6. x \in Tree /\ L[i].cell \in Tree
      BY <1>1, <3>1, <3>5
    <3>7. SubSeq(x, 1, m) = L[i].cell
      BY <3>1, <3>2, <3>6, BeginningOf
    <3>8. Marked(SubSeq(x, 1, m)) \in T
      BY <1>1, <3>2, <3>7
    <3>9. m \in 1..Level(x)
      BY <1>1, <3>1, <3>2, <3>5 DEF StartsWith
    <3> HIDE DEF m
    <3> QED BY <3>1, <3>4, <3>8, <3>9
  <2> QED BY <1>3, <2>2, <2>3
<1>d. ASSUME NEW x \in T PROVE \E u \in T : IsLeafTerm(u) /\ StartsWith(u, CellOf(x))
  <2>1. PICK j \in 1..n : CellOf(x) = L[j].cell
    BY <1>2
  <2>2. PICK k \in 1..n : StartsWith(L[k].cell, L[j].cell) /\ (L[k].leaf \/ k = n)
    BY LeafOrCentreBelow DEF n
  <2>3. CASE L[k].leaf
    <3> DEFINE u == Marked(L[k].cell)
    <3>1. u \in T /\ IsMarked(u) /\ StartsWith(u, L[k].cell) /\ u \in Seq(Nat)
      BY <1>1, <1>4, <2>3
    <3> HIDE DEF u
    <3>2. StartsWith(u, L[j].cell)
      <4>1. Len(L[j].cell) \in Nat /\ Len(L[k].cell) \in Nat /\ Len(u) \in Nat
        BY <1>1, <3>1
      <4> QED BY <2>2, <3>1, <4>1 DEF StartsWith
    <3> QED BY <2>1, <3>1, <3>2 DEF IsLeafTerm
  <2>4. CASE k = n
    BY <1>0, <1>1, <2>1, <2>2, <2>4 DEF IsLeafTerm
  <2> QED BY <2>2, <2>3, <2>4
<1>e. ASSUME NEW x \in Cells, Len(x) = d
      PROVE  CellTouches(x, s) <=> \E u \in T : IsMarked(u) /\ StartsWith(x, CellOf(u))
  <2>1. CellTouches(x, s) <=> \E i \in 1..n : L[i].leaf /\ StartsWith(x, L[i].cell)
    BY <1>e DEF IsShapeList, n
  <2>2. ASSUME NEW i \in 1..n, L[i].leaf, StartsWith(x, L[i].cell)
        PROVE  \E u \in T : IsMarked(u) /\ StartsWith(x, CellOf(u))
    BY <1>1, <1>4, <2>2
  <2>3. ASSUME NEW u \in T, IsMarked(u), StartsWith(x, CellOf(u))
        PROVE  \E i \in 1..n : L[i].leaf /\ StartsWith(x, L[i].cell)
    BY <1>2, <2>3
  <2> QED BY <2>1, <2>2, <2>3
<1>f. ASSUME NEW x \in T
      PROVE  /\ CellTouches(CellOf(x), s)
             /\ Level(x) <= d \/ Level(x) = MaxLevels
             /\ IsMarked(x) => Level(x) <= d
  <2>1. PICK j \in 1..n : /\ CellOf(x) = L[j].cell /\ Level(x) = Len(L[j].cell)
                          /\ IsMarked(x) => L[j].leaf
    BY <1>2
  <2>2. CellTouches(L[j].cell, s)
    BY ListTouches DEF n
  <2>3. j \in 1..(n - 1) => Len(L[j].cell) <= d
    BY DEF IsShapeList, n
  <2> QED BY <1>0, <1>3, <2>1, <2>2, <2>3
<1>g. IsFieldOf(T)
  BY <1>a, <1>b, <1>c, <1>d DEF IsFieldOf
<1>h. IsFieldOfShape(T, s, d)
  BY <1>c, <1>e, <1>f DEF IsFieldOfShape
<1> QED BY <1>g, <1>h DEF T

(* What is left of a term without its leaf byte.                           *)
LEMMA CellOfTermIsCell ==
  ASSUME NEW t \in Terms
  PROVE  /\ CellOf(t) \in Cells /\ Len(CellOf(t)) = Level(t)
         /\ \A n \in 1..Level(t) : SubSeq(CellOf(t), 1, n) = SubSeq(t, 1, n)
<1>1. /\ t \in Seq(Nat) /\ Len(t) \in Nat /\ Level(t) \in 1..MaxLevels /\ Level(t) <= Len(t)
      /\ \A i \in 1..Level(t) : t[i] \in 1..Arity
      /\ ~IsMarked(t) => t \in Cells /\ Level(t) = Len(t)
  BY LevelOfTerm, TermsAreSequences
<1>2. CASE ~IsMarked(t)
  BY <1>1, <1>2 DEF CellOf
<1>3. CASE IsMarked(t)
  <2> DEFINE c == CellOf(t)
  <2>1. Level(t) = Len(t) - 1 /\ c = SubSeq(t, 1, Level(t))
    BY <1>3 DEF CellOf, Level
  <2>2. Level(t) \in 1..Len(t)
    BY <1>1
  <2>3. c \in Seq(Nat) /\ Len(c) = Level(t) /\ \A k \in 1..Level(t) : c[k] = t[k]
    BY <1>1, <2>1, <2>2, FirstBytes
  <2> HIDE DEF c
  <2>4. c \in Seq(1..Arity)
    <3>1. c \in [1..Level(t) -> 1..Arity] /\ Level(t) \in Nat
      BY <1>1, <2>3, LenProperties
    <3> QED BY <3>1, FunctionIsSeq
  <2>5. c \in Cells
    BY <1>1, <2>3, <2>4 DEF Cells
  <2>6. ASSUME NEW n \in 1..Level(t) PROVE SubSeq(c, 1, n) = SubSeq(t, 1, n)
    <3>1. StartsWith(t, c)
      BY <1>1, <2>3 DEF StartsWith
    <3> QED BY <1>1, <2>3, <3>1, BeginningsAgree
  <2> QED BY <2>3, <2>5, <2>6 DEF c
<1> QED BY <1>2, <1>3

LEMMA FieldFacts ==
  ASSUME NEW f, IsField(f)
  PROVE  /\ IsOfWorld(f.shape) /\ f.detailLevel \in 1..MaxLevels
         /\ IsPoint(f.shape) => f.detailLevel = MaxLevels
         /\ f.terms = TermsOf(FieldNodes(f.shape, f.detailLevel, FALSE))
         /\ IsFieldOf(f.terms)
         /\ ~IsPoint(f.shape) => IsFieldOfShape(f.terms, f.shape, f.detailLevel)
<1> DEFINE s == f.shape
           d == f.detailLevel
           L == FieldNodes(s, d, FALSE)
<1>1. IsOfWorld(s) /\ d \in DetailLevels(s) /\ ~MakesWorldLeaf(s, d) /\ f = Field(s, d)
  BY DEF IsField
<1>2. f.terms = TermsOf(L)
  <2>1. Field(s, d).terms = TermsOf(L)
    BY DEF Field
  <2> QED BY <1>1, <2>1
<1> HIDE DEF s, d
<1>3. IsListOf(L, s, d) /\ d \in 1..MaxLevels
  BY <1>1, ListsOfFields
<1>4. IsPoint(s) => d = MaxLevels
  BY <1>3 DEF IsListOf
<1> HIDE DEF L
<1>5. CASE IsPoint(s)
  <2>1. IsPointList(L, s)
    BY <1>3, <1>5 DEF IsListOf
  <2>2. IsFieldOf(TermsOf(L))
    BY <2>1, FieldOfPointList
  <2> QED BY <1>1, <1>2, <1>3, <1>4, <1>5, <2>2 DEF s, d, L
<1>6. CASE ~IsPoint(s)
  <2>1. IsShapeList(L, s, d)
    BY <1>3, <1>6 DEF IsListOf
  <2>2. IsFieldOf(TermsOf(L)) /\ IsFieldOfShape(TermsOf(L), s, d)
    BY <1>3, <2>1, FieldOfShapeList
  <2> QED BY <1>1, <1>2, <1>3, <1>6, <2>2 DEF s, d, L
<1> QED BY <1>5, <1>6

(* A point is indexed with the cells that it is in, one of each level.     *)
LEMMA TermsOfPoint ==
  ASSUME NEW s, IsOfWorld(s), IsPoint(s), NEW x
  PROVE  x \in TermsOf(FieldNodes(s, MaxLevels, FALSE)) <=>
           \E n \in 1..MaxLevels : x = PointCell(s, n)
<1> DEFINE L == FieldNodes(s, MaxLevels, FALSE)
<1>1. IsPointList(L, s)
  BY ListOfPoint
<1>2. L = [n \in 1..MaxLevels |-> Node(PointCell(s, n), FALSE)]
  BY DEF FieldNodes, GetPointNodes
<1>3. L \in Seq(FieldNode) /\ Len(L) = MaxLevels
  BY <1>1 DEF IsPointList
<1>5. x \in TermsOf(L) <=> \E j \in 1..Len(L) : IsTokenOf(L, j, x)
  BY <1>3, TermsOfList
<1> HIDE DEF L
<1>4. ASSUME NEW n \in 1..MaxLevels PROVE L[n].cell = PointCell(s, n) /\ ~L[n].leaf
  <2>1. L[n] = Node(PointCell(s, n), FALSE)
    BY <1>2
  <2> QED BY <2>1 DEF Node
<1>6. x \in TermsOf(L) <=> \E n \in 1..MaxLevels : x = PointCell(s, n)
  BY <1>3, <1>4, <1>5 DEF IsTokenOf
<1> QED BY <1>6 DEF L

-----------------------------------------------------------------------------
(* A term of a field that counts for a query of the detail level dq.       *)
Counts(t, dq) == Level(t) <= dq /\ (Level(t) = dq \/ IsLeafTerm(t))

Coarser(m, n) == IF m < n THEN m ELSE n

(* A field of a shape has such a term that the query touches just when the *)
(* shape and the query touch a common cell of the coarser detail level.    *)
LEMMA ShapeHasCommonCell ==
  ASSUME NEW T, NEW s, NEW d \in 1..MaxLevels, IsFieldOf(T), IsFieldOfShape(T, s, d),
         NEW r, NEW dq \in 1..MaxLevels, dq < MaxLevels
  PROVE  (\E t \in T : Counts(t, dq) /\ CellTouches(CellOf(t), r)) <=>
         (\E c \in Cells : Len(c) = Coarser(d, dq) /\ CellTouches(c, s) /\ CellTouches(c, r))
<1> DEFINE l == Coarser(d, dq)
<1>0. MaxLevels \in Nat /\ l \in 1..MaxLevels /\ l <= d /\ l <= dq /\ (l = d \/ l = dq)
      /\ d \in Nat /\ dq \in Nat
  BY MaxLevelsAssumption DEF Coarser
<1>m. d < dq => l = d
  BY DEF Coarser
<1> HIDE DEF l
<1>t. ASSUME NEW t \in T
      PROVE  /\ t \in Terms /\ CellOf(t) \in Cells /\ CellOf(t) \in Tree /\ Len(CellOf(t)) = Level(t)
             /\ Level(t) \in 1..MaxLevels /\ CellTouches(CellOf(t), s)
             /\ ~IsMarked(t) => Len(t) = Level(t)
  <2>1. t \in Terms /\ CellOf(t) \in T /\ CellTouches(CellOf(t), s)
    BY DEF IsFieldOf, IsFieldOfShape
  <2>2. /\ Level(t) \in 1..MaxLevels
        /\ ~IsMarked(t) => t \in Cells /\ Level(t) = Len(t)
    BY <2>1, LevelOfTerm
  <2>3. CellOf(t) \in Cells /\ Len(CellOf(t)) = Level(t)
    BY <2>1, CellOfTermIsCell
  <2> QED BY <2>1, <2>2, <2>3, CellsAreInTree
<1>1. ASSUME NEW t \in T, Counts(t, dq), CellTouches(CellOf(t), r)
      PROVE  \E c \in Cells : Len(c) = l /\ CellTouches(c, s) /\ CellTouches(c, r)
  <2>1. Level(t) <= d
    BY <1>0, <1>1, <1>t DEF Counts, IsFieldOfShape
  <2>2. CASE Level(t) = dq
    <3>1. l = dq
      BY <1>0, <1>m, <2>1, <2>2
    <3> QED BY <1>1, <1>t, <2>2, <3>1
  <2>3. CASE Level(t) # dq
    <3>1. IsMarked(t) /\ Level(t) <= l
      BY <1>0, <1>1, <1>t, <2>1, <2>3 DEF Counts, IsLeafTerm
    <3>2. l \in Len(CellOf(t))..MaxLevels
      BY <1>0, <1>t, <3>1
    <3>3. PICK c \in Tree : Len(c) = l /\ StartsWith(c, CellOf(t)) /\ CellTouches(c, r)
      BY <1>1, <1>t, <3>2, TouchesBelow
    <3>4. d \in Len(c)..MaxLevels
      BY <1>0, <3>3
    <3>5. PICK x \in Tree : Len(x) = d /\ StartsWith(x, c)
      BY <3>4, CellsBelowCell
    <3>6. StartsWith(x, CellOf(t)) /\ x \in Cells /\ c \in Cells
      BY <1>0, <1>t, <3>3, <3>5, Begins, TreeFacts
    <3>7. CellTouches(x, s)
      BY <3>1, <3>5, <3>6 DEF IsFieldOfShape
    <3>8. CellTouches(c, s)
      BY <3>5, <3>7, TouchesUp
    <3> QED BY <3>3, <3>6, <3>8
  <2> QED BY <2>2, <2>3
<1>2. ASSUME NEW c \in Cells, Len(c) = l, CellTouches(c, s), CellTouches(c, r)
      PROVE  \E t \in T : Counts(t, dq) /\ CellTouches(CellOf(t), r)
  <2>1. c \in Tree /\ d \in Len(c)..MaxLevels
    BY <1>0, <1>2, CellsAreInTree
  <2>2. PICK x \in Tree : Len(x) = d /\ StartsWith(x, c) /\ CellTouches(x, s)
    BY <1>2, <2>1, TouchesBelow
  <2>3. x \in Cells
    BY <2>2, TreeFacts
  <2>4. PICK u \in T : IsMarked(u) /\ StartsWith(x, CellOf(u))
    BY <2>2, <2>3 DEF IsFieldOfShape
  <2>5. CASE Level(u) <= l
    <3>1. StartsWith(c, CellOf(u))
      BY <1>2, <1>t, <2>1, <2>2, <2>4, <2>5, BeginningsNest
    <3>2. CellTouches(CellOf(u), r)
      BY <1>2, <1>t, <2>1, <3>1, TouchesUp
    <3>3. Counts(u, dq)
      BY <1>0, <1>t, <2>4, <2>5 DEF Counts, IsLeafTerm
    <3> QED BY <3>2, <3>3
  <2>6. CASE Level(u) > l
    <3>1. Level(u) <= d /\ \A n \in 1..Level(u) : SubSeq(u, 1, n) \in T
      BY <2>4 DEF IsFieldOfShape
    <3>2. l = dq /\ l \in 1..Level(u)
      BY <1>0, <1>t, <2>6, <3>1
    <3>3. StartsWith(CellOf(u), c)
      BY <1>2, <1>t, <2>1, <2>2, <2>4, <2>6, <1>0, BeginningsNest
    <3>4. SubSeq(CellOf(u), 1, l) = c
      BY <1>2, <1>t, <2>1, <3>3, BeginningOf
    <3>5. SubSeq(u, 1, l) = c
      BY <1>t, <3>2, <3>4, CellOfTermIsCell
    <3>6. c \in T
      BY <3>1, <3>2, <3>5
    <3>7. CellOf(c) = c /\ ~IsMarked(c) /\ Level(c) = Len(c)
      BY CellsAreTerms DEF Level
    <3>8. Counts(c, dq)
      BY <1>0, <1>2, <3>2, <3>7 DEF Counts
    <3> QED BY <1>2, <3>6, <3>7, <3>8
  <2> QED BY <1>0, <1>t, <2>5, <2>6
<1> QED BY <1>1, <1>2 DEF l

(* So does the field of a point: the common cell is the one it is in.      *)
LEMMA PointHasCommonCell ==
  ASSUME NEW T, NEW s, IsUsed(s), CellTouches(WorldCell, s),
         \A x : x \in T <=> \E n \in 1..MaxLevels : x = PointCell(s, n),
         NEW r, NEW dq \in 1..MaxLevels, dq < MaxLevels
  PROVE  /\ (\E t \in T : Counts(t, dq) /\ CellTouches(CellOf(t), r)) <=>
              CellTouches(PointCell(s, dq), r)
         /\ PointCell(s, dq) \in Cells /\ Len(PointCell(s, dq)) = dq
<1>0. MaxLevels \in Nat
  BY MaxLevelsAssumption
<1>1. ASSUME NEW n \in 1..MaxLevels
      PROVE  /\ PointCell(s, n) \in Cells /\ Len(PointCell(s, n)) = n
             /\ CellOf(PointCell(s, n)) = PointCell(s, n) /\ ~IsMarked(PointCell(s, n))
             /\ Level(PointCell(s, n)) = n
  <2>1. PointCell(s, n) \in Tree /\ Len(PointCell(s, n)) = n
    BY <1>0, PointCells
  <2>2. PointCell(s, n) \in Cells
    BY <2>1, TreeFacts
  <2> QED BY <2>1, <2>2, CellsAreTerms DEF Level
<1>2. ASSUME NEW t \in T, Counts(t, dq), CellTouches(CellOf(t), r)
      PROVE  CellTouches(PointCell(s, dq), r)
  <2>1. PICK n \in 1..MaxLevels : t = PointCell(s, n)
    OBVIOUS
  <2>2. n = dq
    BY <1>0, <1>1, <1>2, <2>1 DEF Counts, IsLeafTerm
  <2> QED BY <1>1, <1>2, <2>1, <2>2
<1>3. ASSUME CellTouches(PointCell(s, dq), r)
      PROVE  \E t \in T : Counts(t, dq) /\ CellTouches(CellOf(t), r)
  <2>1. PointCell(s, dq) \in T
    OBVIOUS
  <2>2. Counts(PointCell(s, dq), dq)
    BY <1>1 DEF Counts
  <2> QED BY <1>1, <1>3, <2>1, <2>2
<1> QED BY <1>1, <1>2, <1>3

-----------------------------------------------------------------------------
(* The index of fields.                                                    *)
AreFields(fields) ==
  DOMAIN fields \subseteq Docs /\ \A d \in DOMAIN fields : IsField(fields[d])

LEMMA IndexOfFields ==
  ASSUME NEW fields, AreFields(fields)
  PROVE  LET ix == IndexOf(fields) IN
         /\ ix.terms \in Seq(Terms) /\ ix.docs \in Seq(SUBSET Docs) /\ Len(ix.docs) = Len(ix.terms)
         /\ Sorted(ix.terms)
         /\ \A p \in 1..Len(ix.terms) :
              /\ ix.docs[p] = { d \in DOMAIN fields : ix.terms[p] \in fields[d].terms }
              /\ \E d \in DOMAIN fields : ix.terms[p] \in fields[d].terms
         /\ \A d \in DOMAIN fields : \A t \in fields[d].terms :
              \E p \in 1..Len(ix.terms) : ix.terms[p] = t
<1> DEFINE H == UNION { fields[d].terms : d \in DOMAIN fields }
           a == Ascending(H)
           ix == IndexOf(fields)
           docsAt(p) == { d \in DOMAIN fields : a[p] \in fields[d].terms }
<1>1. \A d \in DOMAIN fields : fields[d].terms \subseteq Terms
  BY FieldFacts DEF AreFields, IsFieldOf
<1>2. H \in SUBSET Terms
  BY <1>1
<1>3. \A t : t \in H <=> \E d \in DOMAIN fields : t \in fields[d].terms
  OBVIOUS
<1>4. /\ ix.terms = a
      /\ ix.docs = [i \in 1..Len(a) |-> docsAt(i)]
  BY DEF IndexOf
<1> HIDE DEF H
<1>5. /\ a \in Seq(Terms)
      /\ \A i, j \in 1..Len(a) : i < j => Less(a[i], a[j])
      /\ \A i \in 1..Len(a) : a[i] \in H
      /\ \A t \in H : \E i \in 1..Len(a) : a[i] = t
  BY <1>2, AscendingFacts
<1> HIDE DEF a
<1>6. ix.docs \in Seq(SUBSET Docs) /\ Len(ix.docs) = Len(a)
  <2>1. \A i \in 1..Len(a) : docsAt(i) \subseteq Docs
    BY DEF AreFields
  <2> HIDE DEF docsAt, ix
  <2>2. ix.docs \in [1..Len(a) -> SUBSET Docs] /\ Len(a) \in Nat
    BY <1>4, <1>5, <2>1
  <2> QED BY <2>2, FunctionIsSeq
<1>7. \A p \in 1..Len(a) : ix.docs[p] = docsAt(p)
  <2> HIDE DEF docsAt, ix
  <2> QED BY <1>4
<1>8. Sorted(a)
  BY <1>5 DEF Sorted
<1> HIDE DEF ix
<1>9. /\ ix.terms \in Seq(Terms) /\ ix.docs \in Seq(SUBSET Docs) /\ Len(ix.docs) = Len(ix.terms)
      /\ Sorted(ix.terms)
  BY <1>4, <1>5, <1>6, <1>8
<1>10. ASSUME NEW p \in 1..Len(ix.terms)
       PROVE  /\ ix.docs[p] = { d \in DOMAIN fields : ix.terms[p] \in fields[d].terms }
              /\ \E d \in DOMAIN fields : ix.terms[p] \in fields[d].terms
  BY <1>3, <1>4, <1>5, <1>7
<1>11. ASSUME NEW d \in DOMAIN fields, NEW t \in fields[d].terms
       PROVE  \E p \in 1..Len(ix.terms) : ix.terms[p] = t
  BY <1>3, <1>4, <1>5
<1> QED BY <1>9, <1>10, <1>11 DEF ix

(* What the filter assumes of an index.                                    *)
IsIndex(ix) ==
  /\ ix.terms \in Seq(Terms)
  /\ ix.docs \in Seq(SUBSET Docs)
  /\ Len(ix.docs) = Len(ix.terms)
  /\ Sorted(ix.terms)
  /\ ParentsExtended(ix.terms)
  /\ MarkersFollowCells(ix.terms)
  /\ \A p \in 1..Len(ix.terms) : \A d \in ix.docs[p] :
       HeldToLeaf(ix, d, ix.terms[p]) /\ HasLeafBelow(ix, d, ix.terms[p])

(* Whatever shapes are indexed, at whatever detail levels, the index is    *)
(* one that the filter can search: all that RecursivePrefixTreeFilter and  *)
(* TermQueryPrefixTreeStrategy are assumed to find there (IndexAssumption, *)
(* DocumentAssumption) is what createField() writes.                       *)
THEOREM FieldsMakeAnIndex ==
  ASSUME NEW fields, AreFields(fields)
  PROVE  IsIndex(IndexOf(fields))
<1> DEFINE ix == IndexOf(fields)
           n == Len(ix.terms)
<1>1. /\ ix.terms \in Seq(Terms) /\ ix.docs \in Seq(SUBSET Docs) /\ Len(ix.docs) = n
      /\ Sorted(ix.terms)
      /\ \A p \in 1..n :
           /\ ix.docs[p] = { d \in DOMAIN fields : ix.terms[p] \in fields[d].terms }
           /\ \E d \in DOMAIN fields : ix.terms[p] \in fields[d].terms
      /\ \A d \in DOMAIN fields : \A t \in fields[d].terms : \E p \in 1..n : ix.terms[p] = t
  BY IndexOfFields
<1>2. ASSUME NEW d \in DOMAIN fields PROVE IsFieldOf(fields[d].terms)
  BY FieldFacts DEF AreFields
<1> HIDE DEF ix
<1>t. \A p \in 1..n : ix.terms[p] \in Terms
  BY <1>1, ElementOfSeq
<1> HIDE DEF n
<1>3. ASSUME NEW d \in DOMAIN fields, NEW t \in fields[d].terms
      PROVE  \E r \in 1..n : ix.terms[r] = t /\ d \in ix.docs[r]
  <2>1. PICK r \in 1..n : ix.terms[r] = t
    BY <1>1
  <2> QED BY <1>1, <2>1
<1>4. ParentsExtended(ix.terms)
  <2> SUFFICES ASSUME NEW i \in 1..n, Level(ix.terms[i]) < MaxLevels, ~IsMarked(ix.terms[i])
               PROVE  \E j \in 1..n : j # i /\ StartsWith(ix.terms[j], ix.terms[i])
    BY DEF ParentsExtended, n
  <2>1. PICK d \in DOMAIN fields : ix.terms[i] \in fields[d].terms
    BY <1>1
  <2>2. Len(ix.terms[i]) < MaxLevels
    BY <1>t, LevelOfTerm
  <2>3. PICK u \in fields[d].terms : u # ix.terms[i] /\ StartsWith(u, ix.terms[i])
    BY <1>2, <2>1, <2>2 DEF IsFieldOf
  <2>4. PICK j \in 1..n : ix.terms[j] = u
    BY <1>3
  <2> QED BY <2>3, <2>4
<1>5. MarkersFollowCells(ix.terms)
  <2> SUFFICES ASSUME NEW i \in 1..n, IsMarked(ix.terms[i])
               PROVE  \E j \in 1..n : ix.terms[j] = CellOf(ix.terms[i])
    BY DEF MarkersFollowCells, n
  <2>1. PICK d \in DOMAIN fields : ix.terms[i] \in fields[d].terms
    BY <1>1
  <2>2. CellOf(ix.terms[i]) \in fields[d].terms
    BY <1>2, <2>1 DEF IsFieldOf
  <2> QED BY <1>3, <2>2
<1>6. ASSUME NEW p \in 1..n, NEW d \in ix.docs[p]
      PROVE  HeldToLeaf(ix, d, ix.terms[p]) /\ HasLeafBelow(ix, d, ix.terms[p])
  <2> DEFINE t == ix.terms[p]
             T == fields[d].terms
  <2>1. d \in DOMAIN fields /\ t \in T
    BY <1>1
  <2>2. IsFieldOf(T)
    BY <1>2, <2>1
  <2>3. \A u \in T : \E r \in 1..n : ix.terms[r] = u /\ d \in ix.docs[r]
    BY <1>3, <2>1
  <2> HIDE DEF t, T
  <2>4. HeldToLeaf(ix, d, t)
    <3>1. PICK k \in 1..Level(t) : /\ \A m \in 1..k : SubSeq(t, 1, m) \in T
                                   /\ k = Level(t) \/ Marked(SubSeq(t, 1, k)) \in T
      BY <2>1, <2>2 DEF IsFieldOf
    <3>2. \A u \in T : Holds(ix, d, u)
      BY <2>3 DEF Holds, n
    <3> QED BY <3>1, <3>2 DEF HeldToLeaf
  <2>5. HasLeafBelow(ix, d, t)
    <3>1. PICK u \in T : IsLeafTerm(u) /\ StartsWith(u, CellOf(t))
      BY <2>1, <2>2 DEF IsFieldOf
    <3>2. PICK r \in 1..n : ix.terms[r] = u /\ d \in ix.docs[r]
      BY <2>3
    <3> QED BY <3>1, <3>2 DEF HasLeafBelow, n
  <2> QED BY <2>4, <2>5 DEF t
<1> QED BY <1>1, <1>4, <1>5, <1>6 DEF IsIndex, ix, n

-----------------------------------------------------------------------------
(* The centres that createField() adds.                                    *)

(* The centre of a shape, at full resolution, is a term of its field.      *)
LEMMA CentreIsTerm ==
  ASSUME NEW s, IsOfWorld(s), NEW d \in DetailLevels(s), ~MakesWorldLeaf(s, d)
  PROVE  LET c == PointCell(Center(s), MaxLevels) IN
         c \in TermsOf(FieldNodes(s, d, FALSE)) /\ c \in Cells /\ Len(c) = MaxLevels
<1> DEFINE c == PointCell(Center(s), MaxLevels)
           L == FieldNodes(s, d, FALSE)
           e == CenterNode(s)
<1>1. d \in 1..MaxLevels /\ (IsPoint(s) => d = MaxLevels) /\ MaxLevels \in 1..MaxLevels
  BY DetailLevelsExist, MaxLevelsAssumption
<1>2. c \in Cells /\ Len(c) = MaxLevels
  BY <1>1, CentreNode
<1>3. CASE IsPoint(s)
  <2>1. c = PointCell(s, MaxLevels) /\ d = MaxLevels
    BY <1>1, <1>3 DEF Center
  <2>2. c \in TermsOf(FieldNodes(s, MaxLevels, FALSE))
    BY <1>1, <1>3, <2>1, TermsOfPoint
  <2> QED BY <1>2, <2>1, <2>2
<1>4. CASE ~IsPoint(s)
  <2>1. IsShapeList(L, s, d)
    BY <1>1, <1>4, ListsOfShape
  <2>2. CoverList(WorldCell, s, d, RecursiveGetNodes(s, d, TRUE, FALSE))
        /\ Len(RecursiveGetNodes(s, d, TRUE, FALSE)) > 0
    BY <1>1, <1>4, NodesOfShape
  <2> DEFINE q == RecursiveGetNodes(s, d, TRUE, FALSE)
  <2>3. L = Append(Tail(q), e)
    BY <1>4 DEF FieldNodes, GetShapeNodes
  <2>4. e.cell = c
    BY DEF CenterNode, Node
  <2> HIDE DEF q, L, e, c
  <2>5. q \in Seq(TreeNodes) /\ q # << >>
    <3>1. q \in Seq(TreeNodes) /\ Len(q) > 0
      BY <2>2 DEF CoverList, q
    <3> QED BY <3>1
  <2>6. Tail(q) \in Seq(TreeNodes) /\ Len(Tail(q)) \in Nat
    BY <2>5, HeadTailProperties
  <2>7. L \in Seq(FieldNode)
    BY <2>1 DEF IsShapeList
  <2>8. Len(L) = Len(Tail(q)) + 1 /\ L[Len(Tail(q)) + 1] = e
    <3>1. Tail(q) \in Seq(TreeNodes \cup {e}) /\ e \in TreeNodes \cup {e}
      BY <2>6
    <3>2. /\ Len(Append(Tail(q), e)) = Len(Tail(q)) + 1
          /\ Append(Tail(q), e)[Len(Tail(q)) + 1] = e
      BY <3>1, AppendProperties
    <3> QED BY <2>3, <3>2
  <2>9. \E j \in 1..Len(L) : L[j].cell = c
    BY <2>4, <2>6, <2>8
  <2>10. c \in TermsOf(L)
    BY <2>7, <2>9, CellsAreTokens
  <2> QED BY <1>2, <2>10 DEF L, c
<1> QED BY <1>3, <1>4

(* What createField() writes of any shapes has the centres that the caches *)
(* of distances are said to find there: each document's full-resolution    *)
(* centre is one of its terms, and a point's only leaf.                    *)
THEOREM FieldsHoldCenters ==
  ASSUME NEW fields, AreFields(fields)
  PROVE  HoldsCenters(IndexOf(fields), CentersOf(fields))
<1> DEFINE ix == IndexOf(fields)
           n == Len(ix.terms)
<1>1. /\ ix.terms \in Seq(Terms)
      /\ \A p \in 1..n : ix.docs[p] = { d \in DOMAIN fields : ix.terms[p] \in fields[d].terms }
      /\ \A d \in DOMAIN fields : \A t \in fields[d].terms : \E p \in 1..n : ix.terms[p] = t
  BY IndexOfFields
<1> HIDE DEF ix
<1>2. ASSUME NEW d \in DOMAIN fields
      PROVE  LET c == PointCell(Center(fields[d].shape), MaxLevels) IN
             /\ c \in Cells /\ Len(c) = MaxLevels
             /\ \E i \in 1..n : ix.terms[i] = c /\ d \in ix.docs[i]
             /\ IsPoint(fields[d].shape) =>
                  \A i \in 1..n : IsLeafTerm(ix.terms[i]) /\ d \in ix.docs[i] => CellOf(ix.terms[i]) = c
  <2> DEFINE s == fields[d].shape
             l == fields[d].detailLevel
             c == PointCell(Center(s), MaxLevels)
  <2>1. IsField(fields[d])
    BY DEF AreFields
  <2>2. /\ IsOfWorld(s) /\ l \in DetailLevels(s) /\ ~MakesWorldLeaf(s, l)
        /\ fields[d].terms = TermsOf(FieldNodes(s, l, FALSE)) /\ (IsPoint(s) => l = MaxLevels)
    BY <2>1, FieldFacts DEF IsField
  <2>3. c \in fields[d].terms /\ c \in Cells /\ Len(c) = MaxLevels
    BY <2>2, CentreIsTerm
  <2>4. IsPoint(s) => Center(s) = s
    BY DEF Center
  <2> HIDE DEF c, n
  <2>5. \E i \in 1..n : ix.terms[i] = c /\ d \in ix.docs[i]
    BY <1>1, <2>3
  <2>6. ASSUME IsPoint(s), NEW i \in 1..n, IsLeafTerm(ix.terms[i]), d \in ix.docs[i]
        PROVE  CellOf(ix.terms[i]) = c
    <3> DEFINE t == ix.terms[i]
    <3>0. t \in fields[d].terms
      BY <1>1, <2>6 DEF n
    <3>1. t \in TermsOf(FieldNodes(s, MaxLevels, FALSE))
      BY <2>2, <2>6, <3>0
    <3>2. PICK m \in 1..MaxLevels : t = PointCell(s, m)
      BY <2>2, <2>6, <3>1, TermsOfPoint
    <3>3. t \in Cells /\ Len(t) = m
      <4>1. PointCell(Center(s), m) = t
        BY <2>4, <2>6, <3>2
      <4>2. PointCell(Center(s), m) \in Cells /\ Len(PointCell(Center(s), m)) = m
        BY <2>2, CentreNode
      <4> QED BY <4>1, <4>2
    <3> HIDE DEF t
    <3>4. ~IsMarked(t) /\ CellOf(t) = t
      BY <3>3, CellsAreTerms
    <3>5. IsLeafTerm(t)
      BY <2>6 DEF t
    <3>6. m = MaxLevels
      BY <3>3, <3>4, <3>5 DEF IsLeafTerm
    <3>7. t = c
      BY <2>4, <2>6, <3>2, <3>6 DEF c
    <3> QED BY <3>4, <3>7 DEF t
  <2>7. IsPoint(s) => \A i \in 1..n : IsLeafTerm(ix.terms[i]) /\ d \in ix.docs[i] => CellOf(ix.terms[i]) = c
    BY <2>6
  <2> HIDE DEF s
  <2>8. /\ c \in Cells /\ Len(c) = MaxLevels
        /\ \E i \in 1..n : ix.terms[i] = c /\ d \in ix.docs[i]
        /\ IsPoint(s) =>
             \A i \in 1..n : IsLeafTerm(ix.terms[i]) /\ d \in ix.docs[i] => CellOf(ix.terms[i]) = c
    BY <2>3, <2>5, <2>7
  <2> QED BY <2>8 DEF c, s
<1> DEFINE cs == CentersOf(fields)
<1>3. DOMAIN cs = DOMAIN fields
  BY DEF CentersOf
<1>4. \A d \in DOMAIN fields : /\ cs[d].cell = PointCell(Center(fields[d].shape), MaxLevels)
                               /\ cs[d].isPoint = IsPoint(fields[d].shape)
  BY DEF CentersOf
<1> HIDE DEF cs, n
<1>5. HoldsCenters(ix, cs)
  BY <1>2, <1>3, <1>4 DEF HoldsCenters, n
<1> QED BY <1>5 DEF ix, cs

-----------------------------------------------------------------------------
(* The query of a shape.                                                   *)

LEMMA SetOfConcat ==
  ASSUME NEW S, NEW p \in Seq(S), NEW q \in Seq(S)
  PROVE  p \o q \in Seq(S) /\ ToSet(p \o q) = ToSet(p) \cup ToSet(q)
<1>1. /\ p \o q \in Seq(S) /\ Len(p \o q) = Len(p) + Len(q) /\ Len(p) \in Nat /\ Len(q) \in Nat
      /\ \A i \in 1..Len(p) : (p \o q)[i] = p[i]
      /\ \A i \in (Len(p) + 1)..(Len(p) + Len(q)) : (p \o q)[i] = q[i - Len(p)]
      /\ DOMAIN (p \o q) = 1..(Len(p) + Len(q)) /\ DOMAIN p = 1..Len(p) /\ DOMAIN q = 1..Len(q)
  BY ConcatProperties, LenProperties
<1> DEFINE r == p \o q
<1> HIDE DEF r
<1>2. ASSUME NEW x \in ToSet(r) PROVE x \in ToSet(p) \cup ToSet(q)
  <2>1. PICK i \in 1..(Len(p) + Len(q)) : x = r[i]
    BY <1>1 DEF ToSet, r
  <2>2. CASE i \in 1..Len(p)
    BY <1>1, <2>1, <2>2 DEF ToSet, r
  <2>3. CASE i \notin 1..Len(p)
    <3>1. i \in (Len(p) + 1)..(Len(p) + Len(q)) /\ i - Len(p) \in 1..Len(q)
      BY <1>1, <2>3
    <3> QED BY <1>1, <2>1, <3>1 DEF ToSet, r
  <2> QED BY <2>2, <2>3
<1>3. ASSUME NEW x \in ToSet(p) PROVE x \in ToSet(r)
  <2>1. PICK i \in 1..Len(p) : x = p[i]
    BY <1>1 DEF ToSet
  <2>2. i \in 1..(Len(p) + Len(q)) /\ r[i] = x
    BY <1>1, <2>1 DEF r
  <2> QED BY <1>1, <2>2 DEF ToSet, r
<1>4. ASSUME NEW x \in ToSet(q) PROVE x \in ToSet(r)
  <2>1. PICK i \in 1..Len(q) : x = q[i]
    BY <1>1 DEF ToSet
  <2>2. /\ i + Len(p) \in (Len(p) + 1)..(Len(p) + Len(q))
        /\ i + Len(p) \in 1..(Len(p) + Len(q)) /\ i + Len(p) - Len(p) = i
    BY <1>1
  <2>3. r[i + Len(p)] = x
    BY <1>1, <2>1, <2>2 DEF r
  <2> QED BY <1>1, <2>2, <2>3 DEF ToSet, r
<1> QED BY <1>1, <1>2, <1>3, <1>4 DEF r

(* getSubCells() of a shape that is not a point: the ones it touches.      *)
LEMMA SubCellsTouched ==
  ASSUME NEW c \in Tree, Len(c) < MaxLevels, NEW s, IsUsed(s), ~IsPoint(s), NEW x
  PROVE  x \in ToSet(SubCellsOf(c, s)) <=>
           \E i \in 1..Arity : x = Append(c, i) /\ CellTouches(Append(c, i), s)
<1> DEFINE l(i) == IF Relate(CellShape(Append(c, i)), s) = "DISJOINT" THEN << >>
                   ELSE << Append(c, i) >>
           q == l(1) \o l(2) \o l(3) \o l(4)
<1>1. Arity = 4 /\ \A i \in 1..4 : SubCells(c)[i] = Append(c, i)
  BY QuadAssumption DEF SubCells
<1>2. SubCellsOf(c, s) = q
  <2>1. 1 \in 1..4 /\ 2 \in 1..4 /\ 3 \in 1..4 /\ 4 \in 1..4
    OBVIOUS
  <2> QED BY <1>1, <2>1 DEF SubCellsOf, ForSubCells
<1>3. ASSUME NEW i \in 1..4
      PROVE  /\ l(i) \in Seq(Cells)
             /\ x \in ToSet(l(i)) <=> x = Append(c, i) /\ CellTouches(Append(c, i), s)
  <2>1. i \in 1..Arity /\ Append(c, i) \in Cells
    BY <1>1, SubCellInTree
  <2>2. Relate(CellShape(Append(c, i)), s) = "DISJOINT" <=> ~CellTouches(Append(c, i), s)
    BY <2>1, RelateCell
  <2> DEFINE a == Append(c, i)
  <2>3. << a >> \in Seq(Cells) /\ << >> \in Seq(Cells) /\ ToSet(<< a >>) = {a} /\ ToSet(<< >>) = {}
    <3> HIDE DEF a
    <3>1. DOMAIN << a >> = 1..1 /\ << a >>[1] = a
      OBVIOUS
    <3>2. ToSet(<< a >>) = {a}
      BY <3>1 DEF ToSet
    <3>3. << >> \in Seq(Cells) /\ ToSet(<< >>) = {}
      BY DEF ToSet
    <3>4. << a >> \in Seq(Cells)
      BY <2>1 DEF a
    <3> QED BY <3>2, <3>3, <3>4
  <2>4. l(i) = IF CellTouches(a, s) THEN << a >> ELSE << >>
    BY <2>2
  <2> HIDE DEF l, a
  <2> QED BY <2>3, <2>4 DEF a
<1>4. /\ l(1) \in Seq(Cells) /\ l(2) \in Seq(Cells) /\ l(3) \in Seq(Cells) /\ l(4) \in Seq(Cells)
  BY <1>3
<1> HIDE DEF l
<1>5. ToSet(q) = ToSet(l(1)) \cup ToSet(l(2)) \cup ToSet(l(3)) \cup ToSet(l(4))
  <2> DEFINE two == l(1) \o l(2)
             three == two \o l(3)
  <2>1. two \in Seq(Cells) /\ ToSet(two) = ToSet(l(1)) \cup ToSet(l(2))
    BY <1>4, SetOfConcat
  <2> HIDE DEF two
  <2>2. three \in Seq(Cells) /\ ToSet(three) = ToSet(two) \cup ToSet(l(3))
    BY <1>4, <2>1, SetOfConcat
  <2> HIDE DEF three
  <2>3. q = three \o l(4)
    BY DEF three, two
  <2>4. ToSet(three \o l(4)) = ToSet(three) \cup ToSet(l(4))
    BY <1>4, <2>2, SetOfConcat
  <2> QED BY <2>1, <2>2, <2>3, <2>4
<1> HIDE DEF q
<1>6. x \in ToSet(q) <=> \E i \in 1..4 : x \in ToSet(l(i))
  <2>1. \A i \in 1..4 : i = 1 \/ i = 2 \/ i = 3 \/ i = 4
    OBVIOUS
  <2> QED BY <1>5, <2>1
<1> QED BY <1>1, <1>2, <1>3, <1>6

(* The parent of a cell, and the cell among its sub-cells.                 *)
LEMMA ParentOfCell ==
  ASSUME NEW c \in Cells
  PROVE  /\ Parent(c) \in Tree /\ Len(Parent(c)) = Len(c) - 1 /\ Len(Parent(c)) < MaxLevels
         /\ \E i \in 1..Arity : c = Append(Parent(c), i)
<1>1. c \in Tree /\ Len(c) > 0
  BY CellsAreInTree, CellsAreSequences
<1> QED BY <1>1, ParentFacts DEF Parent

LEMMA VisitedBySubCells ==
  ASSUME NEW c \in Cells, NEW s, IsOfWorld(s)
  PROVE  c \in ToSet(SubCellsOf(Parent(c), s)) <=>
           IF IsPoint(s) THEN c = PointCell(s, Len(c)) ELSE CellTouches(c, s)
<1> DEFINE p == Parent(c)
<1>1. /\ p \in Tree /\ Len(p) = Len(c) - 1 /\ Len(p) < MaxLevels /\ Len(c) \in Nat
      /\ \E i \in 1..Arity : c = Append(p, i)
  BY ParentOfCell, CellsAreSequences
<1> HIDE DEF p
<1>2. CASE IsPoint(s)
  <2>1. Len(p) + 1 = Len(c)
    BY <1>1
  <2>4. SubCellsOf(p, s) = << PointCell(s, Len(c)) >>
    <3>1. SubCellsOf(p, s) = << PointCell(s, Len(p) + 1) >>
      BY <1>2 DEF SubCellsOf
    <3> QED BY <2>1, <3>1
  <2> DEFINE a == PointCell(s, Len(c))
  <2> HIDE DEF a
  <2>2. DOMAIN << a >> = 1..1 /\ << a >>[1] = a
    OBVIOUS
  <2>3. ToSet(<< a >>) = {a}
    BY <2>2 DEF ToSet
  <2> QED BY <1>2, <2>3, <2>4 DEF a, p
<1>3. CASE ~IsPoint(s)
  <2>1. IsUsed(s)
    BY TouchesWorld
  <2>2. c \in ToSet(SubCellsOf(p, s)) <=>
          \E i \in 1..Arity : c = Append(p, i) /\ CellTouches(Append(p, i), s)
    BY <1>1, <1>3, <2>1, SubCellsTouched
  <2> QED BY <1>1, <1>3, <2>2 DEF p
<1> QED BY <1>2, <1>3

(* The cells that the descent and the scan take for intersecting.          *)
CellsTouched(q) ==
  /\ \A c : c \in q.visits <=>
       /\ c \in Cells /\ Len(c) <= q.detailLevel
       /\ IF IsPoint(q.shape) THEN c = PointCell(q.shape, Len(c)) ELSE CellTouches(c, q.shape)
  /\ \A c : c \in q.within <=> c \in q.visits /\ ~IsPoint(q.shape) /\ WithinShape(c, q.shape)
  /\ q.meets \subseteq Cells
  /\ q.detailLevel < MaxLevels =>
       \A c : c \in q.meets <=> c \in Cells /\ Len(c) <= q.detailLevel /\ CellTouches(c, q.shape)

LEMMA CellsOfQuery ==
  ASSUME NEW q, IsQuery(q)
  PROVE  /\ IsOfWorld(q.shape) /\ IsUsed(q.shape) /\ CellTouches(WorldCell, q.shape)
         /\ q.detailLevel \in 1..MaxLevels /\ (IsPoint(q.shape) => q.detailLevel = MaxLevels)
         /\ q.prefixGridScanLevel \in Int /\ q.acceptDocs \subseteq Docs
         /\ CellsTouched(q)
<1> DEFINE s == q.shape
           dl == q.detailLevel
<1>1. /\ IsOfWorld(s) /\ dl \in DetailLevels(s) /\ q.prefixGridScanLevel \in Int
      /\ q.acceptDocs \subseteq Docs
      /\ q = QueryOf(s, dl, q.prefixGridScanLevel, q.acceptDocs)
  BY DEF IsQuery
<1>2. /\ q.visits = { c \in AllCells : Len(c) <= dl /\ c \in ToSet(SubCellsOf(Parent(c), s)) }
      /\ q.within = { c \in q.visits : ~IsPoint(s) /\ WithinShape(c, s) }
      /\ q.meets = { c \in AllCells : Len(c) <= dl /\ Relate(s, ScanShape(c)) # "DISJOINT" }
  <2> DEFINE r == QueryOf(s, dl, q.prefixGridScanLevel, q.acceptDocs)
             asked == { c \in AllCells : Len(c) <= dl }
             vs == { c \in asked : c \in ToSet(SubCellsOf(Parent(c), s)) }
             ms == { c \in asked : Relate(s, ScanShape(c)) # "DISJOINT" }
  <2>1. r = QueryOn(vs, ms, s, dl, q.prefixGridScanLevel, q.acceptDocs)
    BY DEF QueryOf
  <2>2. vs = { c \in AllCells : Len(c) <= dl /\ c \in ToSet(SubCellsOf(Parent(c), s)) }
    OBVIOUS
  <2>3. ms = { c \in AllCells : Len(c) <= dl /\ Relate(s, ScanShape(c)) # "DISJOINT" }
    OBVIOUS
  <2> HIDE DEF vs, ms, r, s, dl
  <2>4. /\ r.visits = vs /\ r.meets = ms
        /\ r.within = { c \in vs : ~IsPoint(s) /\ WithinShape(c, s) }
    BY <2>1 DEF QueryOn
  <2>5. q = r
    BY <1>1 DEF r
  <2> QED BY <2>2, <2>3, <2>4, <2>5
<1> HIDE DEF s, dl
<1>3. dl \in 1..MaxLevels /\ (IsPoint(s) => dl = MaxLevels) /\ IsUsed(s) /\ CellTouches(WorldCell, s)
  BY <1>1, DetailLevelsExist, TouchesWorld
<1>4. ASSUME NEW c
      PROVE  c \in q.visits <=> /\ c \in Cells /\ Len(c) <= dl
                                /\ IF IsPoint(s) THEN c = PointCell(s, Len(c)) ELSE CellTouches(c, s)
  <2>1. c \in q.visits <=> c \in Cells /\ Len(c) <= dl /\ c \in ToSet(SubCellsOf(Parent(c), s))
    BY <1>2, AllCellsAreCells
  <2> QED BY <1>1, <2>1, VisitedBySubCells
<1>5. ASSUME dl < MaxLevels, NEW c
      PROVE  c \in q.meets <=> c \in Cells /\ Len(c) <= dl /\ CellTouches(c, s)
  <2>1. c \in q.meets <=> c \in Cells /\ Len(c) <= dl /\ Relate(s, ScanShape(c)) # "DISJOINT"
    BY <1>2, AllCellsAreCells
  <2>2. ASSUME c \in Cells, Len(c) <= dl
        PROVE  Relate(s, ScanShape(c)) # "DISJOINT" <=> CellTouches(c, s)
    <3>1. ScanShape(c) = CellShape(c)
      BY <1>3, <1>5, <2>2, CellsAreSequences, MaxLevelsAssumption DEF ScanShape
    <3>2. Relate(s, CellShape(c)) = "DISJOINT" <=> ~CellTouches(c, s)
      BY <1>3, <2>2, RelateCell
    <3> QED BY <3>1, <3>2
  <2> QED BY <2>1, <2>2
<1>6. q.meets \subseteq Cells
  BY <1>2, AllCellsAreCells
<1>7. \A c : c \in q.within <=> c \in q.visits /\ ~IsPoint(s) /\ WithinShape(c, s)
  BY <1>2
<1>8. CellsTouched(q)
  BY <1>4, <1>5, <1>6, <1>7 DEF CellsTouched, s, dl
<1> QED BY <1>1, <1>3, <1>8 DEF s, dl

(* What the filter assumes of a query.                                     *)
IsFilterQuery(q) ==
  /\ q.visits \subseteq Cells
  /\ q.within \subseteq Cells
  /\ q.meets \subseteq Cells
  /\ q.detailLevel \in 1..MaxLevels
  /\ q.prefixGridScanLevel \in Int
  /\ q.acceptDocs \subseteq Docs
  /\ \A c \in q.within : \A n \in 1..q.detailLevel : \A x \in [1..n -> 1..Arity] :
       StartsWith(x, c) => x \in q.visits
  /\ \A c \in q.visits : \A n \in 1..Len(c) : SubSeq(c, 1, n) \in q.visits
  /\ q.detailLevel < MaxLevels => q.visits = q.meets

(* Whatever the query shape, its detail level and the scan level: the grid *)
(* answers the filter as it is assumed to (QueryAssumption,                *)
(* GridAssumption).  A cell within the shape has only cells that intersect *)
(* it below, a cell that intersects has only such cells above, and the     *)
(* scan asks the same as the descent short of the smallest cells.          *)
THEOREM ShapesMakeQueries ==
  ASSUME NEW q, IsQuery(q)
  PROVE  IsFilterQuery(q)
<1> DEFINE s == q.shape
           dl == q.detailLevel
<1>1. /\ IsOfWorld(s) /\ IsUsed(s) /\ CellTouches(WorldCell, s)
      /\ dl \in 1..MaxLevels /\ (IsPoint(s) => dl = MaxLevels)
      /\ q.prefixGridScanLevel \in Int /\ q.acceptDocs \subseteq Docs
      /\ \A c : c \in q.visits <=>
           /\ c \in Cells /\ Len(c) <= dl
           /\ IF IsPoint(s) THEN c = PointCell(s, Len(c)) ELSE CellTouches(c, s)
      /\ \A c : c \in q.within <=> c \in q.visits /\ ~IsPoint(s) /\ WithinShape(c, s)
      /\ q.meets \subseteq Cells
      /\ dl < MaxLevels => \A c : c \in q.meets <=> c \in Cells /\ Len(c) <= dl /\ CellTouches(c, s)
  BY CellsOfQuery DEF CellsTouched
<1> HIDE DEF s, dl
<1>0. MaxLevels \in Nat
  BY MaxLevelsAssumption
<1>2. ASSUME NEW c \in q.within, NEW n \in 1..dl, NEW x \in [1..n -> 1..Arity], StartsWith(x, c)
      PROVE  x \in q.visits
  <2>1. c \in Cells /\ ~IsPoint(s) /\ WithinShape(c, s)
    BY <1>1
  <2>2. x \in Seq(1..Arity) /\ Len(x) = n
    <3>1. n \in Nat
      BY <1>0, <1>1
    <3> QED BY <3>1, FunctionIsSeq
  <2>3. x \in Cells
    BY <1>0, <1>1, <2>2 DEF Cells
  <2>4. CellTouches(x, s)
    BY <1>1, <1>2, <2>1, <2>3, TouchesWithin, CellsAreInTree
  <2> QED BY <1>0, <1>1, <2>1, <2>2, <2>3, <2>4
<1>3. ASSUME NEW c \in q.visits, NEW n \in 1..Len(c)
      PROVE  SubSeq(c, 1, n) \in q.visits
  <2> DEFINE a == SubSeq(c, 1, n)
  <2>1. c \in Cells /\ Len(c) \in 1..MaxLevels /\ Len(c) <= dl /\ c \in Seq(1..Arity) /\ c \in Tree
    BY <1>1, CellsAreSequences, CellsAreInTree DEF Cells
  <2>2. a \in Seq(1..Arity) /\ Len(a) = n /\ \A k \in 1..n : a[k] = c[k]
    <3>1. n \in 0..Len(c)
      BY <2>1
    <3> QED BY <2>1, <3>1, FirstOnes
  <2> HIDE DEF a
  <2>3. a \in Cells /\ Len(a) <= dl /\ StartsWith(c, a) /\ a \in Tree
    BY <1>0, <1>1, <2>1, <2>2, CellsAreInTree DEF Cells, StartsWith
  <2>4. CASE IsPoint(s)
    <3>1. c = PointCell(s, Len(c)) /\ Len(c) \in 0..MaxLevels /\ n \in 0..Len(c)
      BY <1>1, <2>1, <2>4
    <3>2. SubSeq(PointCell(s, Len(c)), 1, n) = PointCell(s, n)
      BY <1>1, <3>1, PointCells
    <3>3. a = PointCell(s, n)
      BY <3>1, <3>2 DEF a
    <3> QED BY <1>1, <2>2, <2>3, <2>4, <3>3 DEF a
  <2>5. CASE ~IsPoint(s)
    <3>1. CellTouches(c, s)
      BY <1>1, <2>5
    <3>2. CellTouches(a, s)
      BY <2>1, <2>3, <3>1, TouchesUp
    <3> QED BY <1>1, <2>3, <2>5, <3>2 DEF a
  <2> QED BY <2>4, <2>5
<1>4. ASSUME dl < MaxLevels PROVE q.visits = q.meets
  <2>1. ~IsPoint(s)
    BY <1>0, <1>1, <1>4
  <2> QED BY <1>1, <1>4, <2>1
<1>5. q.visits \subseteq Cells /\ q.within \subseteq Cells
  BY <1>1
<1> QED BY <1>1, <1>2, <1>3, <1>4, <1>5 DEF IsFilterQuery, s, dl

-----------------------------------------------------------------------------
(* What a search finds.                                                    *)

LEMMA InputsStay == Spec => []Inputs
<1>1. Init => Inputs
  BY DEF Init, Inputs
<1>2. Inputs /\ [Next]_vars => Inputs'
  BY InputsStep
<1> QED BY <1>1, <1>2, PTL DEF Spec

(* The fields that the segment's index was made of, and the query.         *)
LEMMA Sources ==
  ASSUME Inputs
  PROVE  /\ \E fields : AreFields(fields) /\ index = IndexOf(fields)
         /\ IsQuery(query)
<1>1. index \in Indexes /\ query \in Queries
  BY DEF Inputs
<1>2. PICK fields \in Contents : index = IndexOf(fields)
  BY <1>1, ContentsAssumption
<1>3. AreFields(fields)
  BY ContentsAssumption DEF AreFields
<1>4. IsQuery(query)
  BY <1>1, QueriesAssumption
<1> QED BY <1>2, <1>3, <1>4

LEMMA ShapesOfIndex ==
  ASSUME NEW fields, index = IndexOf(fields)
  PROVE  /\ DOMAIN index.shapes = DOMAIN fields
         /\ \A d \in DOMAIN fields : /\ index.shapes[d] = fields[d].shape
                                     /\ index.levels[d] = fields[d].detailLevel
<1>1. /\ index.shapes = [d \in DOMAIN fields |-> fields[d].shape]
      /\ index.levels = [d \in DOMAIN fields |-> fields[d].detailLevel]
  BY DEF IndexOf
<1> QED BY <1>1

(* The cells of a shape and of the query are told by what they touch.      *)
LEMMA CommonCell ==
  ASSUME NEW fields, AreFields(fields), index = IndexOf(fields), IsQuery(query),
         query.detailLevel < MaxLevels, NEW d \in DOMAIN fields
  PROVE  LET s == fields[d].shape
             l == Coarser(fields[d].detailLevel, query.detailLevel)
         IN  /\ HasCommonCell(d) <=>
                  \E c \in Cells : /\ Len(c) = l
                                   /\ IF IsPoint(s) THEN c = PointCell(s, l) ELSE CellTouches(c, s)
                                   /\ CellTouches(c, query.shape)
             /\ IsPoint(s) => l = query.detailLevel
             /\ l \in 1..MaxLevels
<1> DEFINE s == fields[d].shape
           l == Coarser(fields[d].detailLevel, query.detailLevel)
<1>1. /\ IsOfWorld(s) /\ fields[d].detailLevel \in 1..MaxLevels
      /\ IsPoint(s) => fields[d].detailLevel = MaxLevels
  BY FieldFacts DEF AreFields
<1>2. query.detailLevel \in 1..MaxLevels /\ IsUsed(query.shape)
  BY CellsOfQuery
<1>3. l \in 1..MaxLevels /\ (IsPoint(s) => l = query.detailLevel)
  BY <1>1, <1>2, MaxLevelsAssumption DEF Coarser
<1>4. CommonLevel(d) = l /\ index.shapes[d] = s
  BY ShapesOfIndex DEF CommonLevel, Coarser
<1>5. IsUsed(s)
  BY <1>1, TouchesWorld
<1> HIDE DEF s, l
<1>6. \A c \in Cells : /\ Relate(CellShape(c), s) # "DISJOINT" <=> CellTouches(c, s)
                       /\ Relate(CellShape(c), query.shape) # "DISJOINT" <=> CellTouches(c, query.shape)
  BY <1>2, <1>5, RelateCell
<1>7. HasCommonCell(d) <=>
        \E c \in Cells : /\ Len(c) = l
                         /\ IF IsPoint(s) THEN c = PointCell(s, l) ELSE CellTouches(c, s)
                         /\ CellTouches(c, query.shape)
  BY <1>4, <1>6, AllCellsAreCells DEF HasCommonCell
<1> QED BY <1>3, <1>7 DEF s, l

(* A document is touched just when it has a cell in common with the query. *)
LEMMA TouchingByCommonCell ==
  ASSUME Inputs, query.detailLevel < MaxLevels
  PROVE  TouchingDocs = { d \in DOMAIN index.shapes \cap query.acceptDocs : HasCommonCell(d) }
<1> DEFINE r == query.shape
           dq == query.detailLevel
           n == Len(index.terms)
<1>1. PICK fields : AreFields(fields) /\ index = IndexOf(fields)
  BY Sources
<1>q. /\ IsQuery(query) /\ dq \in 1..MaxLevels /\ IsUsed(r)
      /\ ~IsPoint(r) /\ CellsTouched(query)
  BY Sources, CellsOfQuery, MaxLevelsAssumption
<1>2. \A c \in Cells : Len(c) <= dq => (c \in query.visits \cup query.meets <=> CellTouches(c, r))
  BY <1>q DEF CellsTouched
<1>3. /\ DOMAIN index.shapes = DOMAIN fields
      /\ \A p \in 1..n :
           index.docs[p] = { d \in DOMAIN fields : index.terms[p] \in fields[d].terms }
      /\ \A d \in DOMAIN fields : \A t \in fields[d].terms : \E p \in 1..n : index.terms[p] = t
  BY <1>1, IndexOfFields, ShapesOfIndex
<1>4. ASSUME NEW d \in DOMAIN fields
      PROVE  /\ IsOfWorld(fields[d].shape) /\ fields[d].detailLevel \in 1..MaxLevels
             /\ IsPoint(fields[d].shape) => fields[d].detailLevel = MaxLevels
             /\ IsFieldOf(fields[d].terms)
             /\ fields[d].terms =
                  TermsOf(FieldNodes(fields[d].shape, fields[d].detailLevel, FALSE))
             /\ ~IsPoint(fields[d].shape) =>
                  IsFieldOfShape(fields[d].terms, fields[d].shape, fields[d].detailLevel)
  BY <1>1, FieldFacts DEF AreFields
<1> HIDE DEF r, dq, n
<1>5. ASSUME NEW d
      PROVE  d \in TouchingDocs <=>
               /\ d \in query.acceptDocs /\ d \in DOMAIN fields
               /\ \E t \in fields[d].terms : Counts(t, dq) /\ CellTouches(CellOf(t), r)
  <2>1. ASSUME d \in DOMAIN fields, NEW t \in fields[d].terms
        PROVE  CellOf(t) \in Cells /\ Len(CellOf(t)) = Level(t)
    BY <1>4, <2>1, CellOfTermIsCell DEF IsFieldOf
  <2>2. ASSUME d \in TouchingDocs
        PROVE  /\ d \in query.acceptDocs /\ d \in DOMAIN fields
               /\ \E t \in fields[d].terms : Counts(t, dq) /\ CellTouches(CellOf(t), r)
    <3>1. PICK p \in 1..n : /\ d \in index.docs[p]
                            /\ Level(index.terms[p]) <= dq
                            /\ Level(index.terms[p]) = dq \/ IsLeafTerm(index.terms[p])
                            /\ CellOf(index.terms[p]) \in query.visits \cup query.meets
      BY <2>2 DEF TouchingDocs, Size, n, dq
    <3>2. d \in DOMAIN fields /\ index.terms[p] \in fields[d].terms
      BY <1>3, <3>1
    <3>3. Counts(index.terms[p], dq) /\ CellTouches(CellOf(index.terms[p]), r)
      BY <1>2, <2>1, <3>1, <3>2 DEF Counts
    <3>4. d \in query.acceptDocs
      BY <2>2 DEF TouchingDocs
    <3> QED BY <3>2, <3>3, <3>4
  <2>3. ASSUME d \in query.acceptDocs, d \in DOMAIN fields,
               NEW t \in fields[d].terms, Counts(t, dq), CellTouches(CellOf(t), r)
        PROVE  d \in TouchingDocs
    <3>1. PICK p \in 1..n : index.terms[p] = t
      BY <1>3, <2>3
    <3>2. d \in index.docs[p]
      BY <1>3, <2>3, <3>1
    <3>3. CellOf(t) \in query.visits \cup query.meets
      BY <1>2, <2>1, <2>3 DEF Counts
    <3> QED BY <2>3, <3>1, <3>2, <3>3 DEF TouchingDocs, Size, Counts, n, dq
  <2> QED BY <2>2, <2>3
<1>6. ASSUME NEW d \in DOMAIN fields
      PROVE  (\E t \in fields[d].terms : Counts(t, dq) /\ CellTouches(CellOf(t), r))
               <=> HasCommonCell(d)
  <2> DEFINE s == fields[d].shape
             k == fields[d].detailLevel
             l == Coarser(k, dq)
             T == fields[d].terms
  <2>1. /\ HasCommonCell(d) <=>
             \E c \in Cells : /\ Len(c) = l
                              /\ IF IsPoint(s) THEN c = PointCell(s, l) ELSE CellTouches(c, s)
                              /\ CellTouches(c, r)
        /\ IsPoint(s) => l = dq
    BY <1>1, <1>q, CommonCell DEF r, dq
  <2>2. CASE ~IsPoint(s)
    <3>1. (\E t \in T : Counts(t, dq) /\ CellTouches(CellOf(t), r)) <=>
            (\E c \in Cells : Len(c) = l /\ CellTouches(c, s) /\ CellTouches(c, r))
      <4>1. /\ IsFieldOf(T) /\ k \in 1..MaxLevels
            /\ IsFieldOfShape(T, s, k) /\ dq \in 1..MaxLevels /\ dq < MaxLevels
        BY <1>4, <1>q, <2>2 DEF dq
      <4> HIDE DEF T, s, k
      <4> QED BY <4>1, ShapeHasCommonCell
    <3> HIDE DEF T, s, l
    <3> QED BY <2>1, <2>2, <3>1 DEF T
  <2>3. CASE IsPoint(s)
    <3>1. IsUsed(s) /\ CellTouches(WorldCell, s) /\ dq \in 1..MaxLevels /\ dq < MaxLevels
      BY <1>4, <1>q, TouchesWorld DEF dq
    <3>2. \A x : x \in T <=> \E m \in 1..MaxLevels : x = PointCell(s, m)
      <4>1. T = TermsOf(FieldNodes(s, MaxLevels, FALSE)) /\ IsOfWorld(s)
        BY <1>4, <2>3
      <4> HIDE DEF T, s
      <4> QED BY <2>3, <4>1, TermsOfPoint
    <3> HIDE DEF T, s
    <3>3. /\ (\E t \in T : Counts(t, dq) /\ CellTouches(CellOf(t), r)) <=> CellTouches(PointCell(s, dq), r)
          /\ PointCell(s, dq) \in Cells /\ Len(PointCell(s, dq)) = dq
      BY <3>1, <3>2, PointHasCommonCell
    <3> QED BY <2>1, <2>3, <3>3 DEF T
  <2> QED BY <2>2, <2>3
<1>7. ASSUME NEW d
      PROVE  d \in TouchingDocs <=>
               d \in { e \in DOMAIN index.shapes \cap query.acceptDocs : HasCommonCell(e) }
  BY <1>3, <1>5, <1>6
<1> QED BY <1>7

(* A search finds the live documents that have a cell of the coarser grid  *)
(* in common with the query, for every set of shapes that is indexed and   *)
(* every query short of the smallest cells: what the leaves, parents and   *)
(* centres are in the index for, and the order of the search, leave no     *)
(* trace in the result.                                                    *)
THEOREM SearchFindsByCommonCells == Spec => []FindsByCommonCells
<1>1. Inputs /\ ExactBelowMaxLevels => FindsByCommonCells
  <2> SUFFICES ASSUME Inputs, ExactBelowMaxLevels, pc = "done", query.detailLevel < MaxLevels
               PROVE  bits = { d \in DOMAIN index.shapes \cap query.acceptDocs : HasCommonCell(d) }
    BY DEF FindsByCommonCells
  <2> QED BY TouchingByCommonCell DEF ExactBelowMaxLevels
<1> QED BY <1>1, InputsStay, ExactAboveLastLevel, PTL

(* Two shapes that intersect have a cell of every level in common.         *)
LEMMA IntersectingShapesShareACell ==
  ASSUME Inputs, query.detailLevel < MaxLevels,
         NEW d \in DOMAIN index.shapes, Relate(query.shape, index.shapes[d]) # "DISJOINT"
  PROVE  HasCommonCell(d)
<1>1. PICK fields : AreFields(fields) /\ index = IndexOf(fields)
  BY Sources
<1> DEFINE s == fields[d].shape
           r == query.shape
           l == Coarser(fields[d].detailLevel, query.detailLevel)
<1>2. d \in DOMAIN fields /\ index.shapes[d] = s
  BY <1>1, ShapesOfIndex
<1>3. IsQuery(query) /\ IsUsed(r)
  BY Sources, CellsOfQuery
<1>4. IsOfWorld(s) /\ IsUsed(s) /\ CellTouches(WorldCell, s)
  BY <1>1, <1>2, FieldFacts, TouchesWorld DEF AreFields
<1>5. /\ HasCommonCell(d) <=>
           \E c \in Cells : /\ Len(c) = l
                            /\ IF IsPoint(s) THEN c = PointCell(s, l) ELSE CellTouches(c, s)
                            /\ CellTouches(c, r)
      /\ l \in 1..MaxLevels
  BY <1>1, <1>2, <1>3, CommonCell
<1> HIDE DEF s, r, l
<1>6. Touch(r, s)
  <2>1. Relate(r, s) # "DISJOINT"
    BY <1>2 DEF r
  <2> QED BY <1>3, <1>4, <2>1, RelateTells DEF TellsShapes
<1>7. PICK v \in Longitudes(s) : v \in Longitudes(r)
  BY <1>6 DEF Touch
<1>8. PICK w \in Latitudes(s) : w \in Latitudes(r)
  BY <1>6 DEF Touch
<1>9. CASE IsPoint(s)
  <2> DEFINE c == PointCell(s, l)
  <2>1. l \in 0..MaxLevels
    BY <1>5
  <2>2. c \in Tree /\ Len(c) = l /\ CellTouches(c, s)
    BY <1>4, <2>1, PointCells
  <2>3. c \in Cells
    BY <1>5, <2>2, TreeFacts
  <2>4. Longitudes(s) = {v} /\ Latitudes(s) = {w}
    BY <1>4, <1>7, <1>8, <1>9, PointsOfPoint
  <2> HIDE DEF c
  <2>5. v \in CellLon(c) /\ w \in CellLat(c)
    BY <2>2, <2>4 DEF CellTouches
  <2>6. CellTouches(c, r)
    BY <1>7, <1>8, <2>5 DEF CellTouches
  <2> QED BY <1>5, <1>9, <2>2, <2>3, <2>6 DEF c
<1>10. CASE ~IsPoint(s)
  <2>1. v \in CellLon(WorldCell) /\ w \in CellLat(WorldCell)
    BY <1>4, ShapesLieInWorld
  <2>2. WorldCell \in Tree /\ l \in Len(WorldCell)..MaxLevels
    BY <1>5, CellsAreInTree, TreeFacts
  <2>3. PICK c \in Tree : Len(c) = l /\ v \in CellLon(c) /\ w \in CellLat(c)
    BY <2>1, <2>2, CellBelowAt
  <2>4. c \in Cells
    BY <1>5, <2>3, TreeFacts
  <2>5. CellTouches(c, s) /\ CellTouches(c, r)
    BY <1>7, <1>8, <2>3 DEF CellTouches
  <2> QED BY <1>5, <1>10, <2>3, <2>4, <2>5
<1> QED BY <1>9, <1>10

(* No live document whose shape intersects the query shape is lost, be it  *)
(* indexed coarsely or finely, as a point or as a shape, across the date   *)
(* line or not.                                                            *)
THEOREM SearchLosesNoDocument == Spec => []NoDocumentLost
<1>1. Inputs /\ FindsByCommonCells => NoDocumentLost
  <2> SUFFICES ASSUME Inputs, FindsByCommonCells, pc = "done", query.detailLevel < MaxLevels,
                      NEW d \in DOMAIN index.shapes \cap query.acceptDocs,
                      Relate(query.shape, index.shapes[d]) # "DISJOINT"
               PROVE  d \in bits
    BY DEF NoDocumentLost
  <2>1. HasCommonCell(d)
    BY IntersectingShapesShareACell
  <2> QED BY <2>1 DEF FindsByCommonCells
<1> QED BY <1>1, InputsStay, SearchFindsByCommonCells, PTL

-----------------------------------------------------------------------------
(* The cells of a query shape without their parents.                       *)

(* Below c, the cells that stand for those of level d that the shape       *)
(* touches: for all of these and for no others.                            *)
IsAsked(c, s, d, E) ==
  /\ \A e \in E : /\ e.cell \in Tree /\ StartsWith(e.cell, c) /\ Len(e.cell) <= d
                  /\ \A x \in Tree : Len(x) = d /\ StartsWith(x, e.cell) => CellTouches(x, s)
  /\ \A x \in Tree : Len(x) = d /\ StartsWith(x, c) /\ CellTouches(x, s) =>
       \E e \in E : StartsWith(x, e.cell)

AskList(c, s, d, q) == q \in Seq(TreeNodes) /\ IsAsked(c, s, d, ToSet(q))

LEMMA AskedOfSubCells ==
  ASSUME NEW c \in Tree, NEW d \in 1..MaxLevels, Len(c) < d, NEW s, IsUsed(s),
         NEW f, \A i \in 1..Arity : CellTouches(Append(c, i), s) =>
                  AskList(Append(c, i), s, d, f[Append(c, i)])
  PROVE  /\ AskList(c, s, d, Loop(c, s, f))
         /\ AskList(c, s, d, << >> \o Loop(c, s, f))
<1> DEFINE l == [i \in 1..4 |-> IF Relate(CellShape(Append(c, i)), s) = "DISJOINT" THEN << >>
                                ELSE f[Append(c, i)]]
           all == Loop(c, s, f)
<1>1. Arity = 4 /\ Len(c) < MaxLevels /\ Len(c) \in Nat /\ d \in Nat
  BY QuadAssumption, TreeFacts, MaxLevelsAssumption
<1>2. all = l[1] \o l[2] \o l[3] \o l[4]
  <2>1. \A i \in 1..4 : SubCells(c)[i] = Append(c, i)
    BY <1>1 DEF SubCells
  <2>2. 1 \in 1..4 /\ 2 \in 1..4 /\ 3 \in 1..4 /\ 4 \in 1..4
    OBVIOUS
  <2> QED BY <2>1, <2>2 DEF Loop, ForSubCells
<1>e. << >> \in Seq(TreeNodes) /\ ToSet(<< >>) = {}
  BY DEF ToSet
<1>3. ASSUME NEW i \in 1..4
      PROVE  /\ l[i] \in Seq(TreeNodes)
             /\ IF CellTouches(Append(c, i), s) THEN IsAsked(Append(c, i), s, d, ToSet(l[i]))
                                                ELSE ToSet(l[i]) = {}
  <2>1. i \in 1..Arity /\ Append(c, i) \in Cells
    BY <1>1, SubCellInTree
  <2>2. Relate(CellShape(Append(c, i)), s) = "DISJOINT" <=> ~CellTouches(Append(c, i), s)
    BY <2>1, RelateCell
  <2>3. IF CellTouches(Append(c, i), s) THEN l[i] = f[Append(c, i)] ELSE l[i] = << >>
    BY <2>2
  <2> HIDE DEF l
  <2> QED BY <1>e, <2>1, <2>3 DEF AskList
<1> HIDE DEF l, all
<1>4. all \in Seq(TreeNodes)
      /\ ToSet(all) = ToSet(l[1]) \cup ToSet(l[2]) \cup ToSet(l[3]) \cup ToSet(l[4])
  <2> DEFINE two == l[1] \o l[2]
             three == two \o l[3]
  <2>0. l[1] \in Seq(TreeNodes) /\ l[2] \in Seq(TreeNodes) /\ l[3] \in Seq(TreeNodes) /\ l[4] \in Seq(TreeNodes)
    BY <1>3
  <2>1. two \in Seq(TreeNodes) /\ ToSet(two) = ToSet(l[1]) \cup ToSet(l[2])
    BY <2>0, SetOfConcat
  <2> HIDE DEF two
  <2>2. three \in Seq(TreeNodes) /\ ToSet(three) = ToSet(two) \cup ToSet(l[3])
    BY <2>0, <2>1, SetOfConcat
  <2> HIDE DEF three
  <2>3. all = three \o l[4]
    BY <1>2 DEF three, two
  <2>4. three \o l[4] \in Seq(TreeNodes) /\ ToSet(three \o l[4]) = ToSet(three) \cup ToSet(l[4])
    BY <2>0, <2>2, SetOfConcat
  <2> QED BY <2>1, <2>2, <2>3, <2>4
<1>5. \A e : e \in ToSet(all) <=> \E i \in 1..4 : e \in ToSet(l[i])
  <2>1. \A i \in 1..4 : i = 1 \/ i = 2 \/ i = 3 \/ i = 4
    OBVIOUS
  <2> QED BY <1>4, <2>1
<1>6. ASSUME NEW e \in ToSet(all)
      PROVE  /\ e.cell \in Tree /\ StartsWith(e.cell, c) /\ Len(e.cell) <= d
             /\ \A x \in Tree : Len(x) = d /\ StartsWith(x, e.cell) => CellTouches(x, s)
  <2>1. PICK i \in 1..4 : e \in ToSet(l[i])
    BY <1>5
  <2> DEFINE a == Append(c, i)
  <2>2. a \in Tree /\ StartsWith(a, c)
    BY <1>1, SubCellInTree
  <2>3. IsAsked(a, s, d, ToSet(l[i]))
    BY <1>3, <2>1
  <2> HIDE DEF a
  <2>4. /\ e.cell \in Tree /\ StartsWith(e.cell, a) /\ Len(e.cell) <= d
        /\ \A x \in Tree : Len(x) = d /\ StartsWith(x, e.cell) => CellTouches(x, s)
    BY <2>1, <2>3 DEF IsAsked
  <2>5. StartsWith(e.cell, c)
    BY <2>2, <2>4, Begins
  <2> QED BY <2>4, <2>5
<1>7. ASSUME NEW x \in Tree, Len(x) = d, StartsWith(x, c), CellTouches(x, s)
      PROVE  \E e \in ToSet(all) : StartsWith(x, e.cell)
  <2>1. PICK i \in 1..Arity : StartsWith(x, Append(c, i))
    BY <1>7, Begins
  <2> DEFINE a == Append(c, i)
  <2>2. a \in Tree /\ i \in 1..4
    BY <1>1, SubCellInTree
  <2>3. CellTouches(a, s)
    BY <1>7, <2>1, <2>2, TouchesUp
  <2>4. IsAsked(a, s, d, ToSet(l[i]))
    BY <1>3, <2>2, <2>3
  <2>5. StartsWith(x, a)
    BY <2>1
  <2> HIDE DEF a
  <2>6. PICK e \in ToSet(l[i]) : StartsWith(x, e.cell)
    BY <1>7, <2>4, <2>5 DEF IsAsked
  <2> QED BY <1>5, <2>2, <2>6
<1>8. IsAsked(c, s, d, ToSet(all))
  BY <1>6, <1>7 DEF IsAsked
<1>9. AskList(c, s, d, all)
  BY <1>4, <1>8 DEF AskList
<1>10. << >> \o all \in Seq(TreeNodes) /\ ToSet(<< >> \o all) = ToSet(<< >>) \cup ToSet(all)
  BY <1>4, <1>e, SetOfConcat
<1>11. AskList(c, s, d, << >> \o all)
  <2>1. ToSet(<< >> \o all) = ToSet(all)
    BY <1>10, <1>e
  <2> QED BY <1>8, <1>10, <2>1 DEF AskList
<1> QED BY <1>9, <1>11 DEF all

(* One cell for all below it.                                              *)
LEMMA AskedAlone ==
  ASSUME NEW c \in Tree, NEW d \in Nat, Len(c) <= d, NEW s,
         \A x \in Tree : Len(x) = d /\ StartsWith(x, c) => CellTouches(x, s)
  PROVE  AskList(c, s, d, << Node(c, TRUE) >>)
<1> DEFINE e == Node(c, TRUE)
<1>1. << e >> \in Seq(TreeNodes) /\ e.cell = c
  BY NodeFacts
<1> HIDE DEF e
<1>2. DOMAIN << e >> = 1..1 /\ << e >>[1] = e
  OBVIOUS
<1>3. ToSet(<< e >>) = {e}
  BY <1>2 DEF ToSet
<1>4. StartsWith(c, c)
  BY Begins
<1>5. IsAsked(c, s, d, {e})
  BY <1>1, <1>4 DEF IsAsked
<1> QED BY <1>1, <1>3, <1>5 DEF AskList, e

(* One call of recursiveGetNodes() without parents.                        *)
LEMMA VisitAsks ==
  ASSUME NEW c \in Tree, NEW d \in 1..MaxLevels, Len(c) < d,
         NEW s, IsUsed(s), ~IsPoint(s),
         NEW f, Len(c) < d - 1 => \A i \in 1..Arity : CellTouches(Append(c, i), s) =>
                                    AskList(Append(c, i), s, d, f[Append(c, i)])
  PROVE  AskList(c, s, d, Visit(f, s, d, FALSE, FALSE, c))
<1>1. d \in Nat /\ Len(c) \in Nat /\ Len(c) <= d /\ Len(c) < MaxLevels
  BY TreeFacts, MaxLevelsAssumption
<1>2. CASE c # WorldCell /\ WithinShape(c, s)
  <2>1. c \in Cells
    BY <1>2, TreeFacts
  <2>2. \A x \in Tree : Len(x) = d /\ StartsWith(x, c) => CellTouches(x, s)
    BY <1>2, <2>1, TouchesWithin
  <2>3. AskList(c, s, d, << Node(c, TRUE) >>)
    BY <1>1, <2>2, AskedAlone
  <2>4. Visit(f, s, d, FALSE, FALSE, c) = << Node(c, TRUE) >>
    BY <1>2 DEF Visit
  <2> QED BY <2>3, <2>4
<1>3. CASE ~(c # WorldCell /\ WithinShape(c, s)) /\ Len(c) = d - 1
  <2>1. Visit(f, s, d, FALSE, FALSE, c) = LastNodes(c, s, << >>)
    BY <1>3 DEF Visit
  <2>3. \A i \in 1..Arity : Append(c, i) \in Tree /\ Len(Append(c, i)) = d
    BY <1>1, <1>3, SubCellInTree
  <2>4. CASE Len(SubCellsOf(c, s)) = Arity
    <3>1. ASSUME NEW x \in Tree, Len(x) = d, StartsWith(x, c) PROVE CellTouches(x, s)
      <4>1. PICK i \in 1..Arity : StartsWith(x, Append(c, i))
        BY <1>1, <3>1, Begins
      <4> DEFINE a == Append(c, i)
      <4>a. a \in Tree /\ Len(x) <= Len(a) /\ StartsWith(x, a)
        BY <1>1, <2>3, <3>1, <4>1
      <4> HIDE DEF a
      <4>b. x = a
        BY <4>a, Begins
      <4>2. x = Append(c, i)
        BY <4>b DEF a
      <4> QED BY <1>1, <2>4, <4>2, AllSubCells
    <3>2. AskList(c, s, d, << Node(c, TRUE) >>)
      BY <1>1, <3>1, AskedAlone
    <3>3. LastNodes(c, s, << >>) = << Node(c, TRUE) >>
      BY <2>4 DEF LastNodes
    <3> QED BY <2>1, <3>2, <3>3
  <2>5. CASE Len(SubCellsOf(c, s)) # Arity
    <3> DEFINE g == [x \in Tree |-> << Node(x, TRUE) >>]
               q == << >> \o Loop(c, s, g)
    <3>1. ASSUME NEW i \in 1..Arity, CellTouches(Append(c, i), s)
          PROVE  AskList(Append(c, i), s, d, g[Append(c, i)])
      <4> DEFINE a == Append(c, i)
      <4>1. a \in Tree /\ Len(a) = d /\ Len(a) <= d
        BY <1>1, <2>3
      <4> HIDE DEF a
      <4>2. ASSUME NEW x \in Tree, Len(x) = d, StartsWith(x, a) PROVE CellTouches(x, s)
        <5>1. x = a
          BY <4>1, <4>2, Begins
        <5> QED BY <3>1, <5>1 DEF a
      <4>3. AskList(a, s, d, << Node(a, TRUE) >>)
        BY <1>1, <4>1, <4>2, AskedAlone
      <4>4. g[a] = << Node(a, TRUE) >>
        BY <4>1
      <4> QED BY <4>3, <4>4 DEF a
    <3>2. Visit(f, s, d, FALSE, FALSE, c) = q
      <4>1. Arity = 4 /\ \A i \in 1..4 : /\ SubCells(c)[i] = Append(c, i)
                                        /\ g[Append(c, i)] = << Node(Append(c, i), TRUE) >>
        BY <2>3, QuadAssumption DEF SubCells
      <4>2. 1 \in 1..4 /\ 2 \in 1..4 /\ 3 \in 1..4 /\ 4 \in 1..4
        OBVIOUS
      <4> HIDE DEF g
      <4>3. Loop(c, s, g) = ForSubCells(c, s, LAMBDA x : << Node(x, TRUE) >>)
        BY <4>1, <4>2 DEF Loop, ForSubCells
      <4>4. LastNodes(c, s, << >>) = << >> \o ForSubCells(c, s, LAMBDA x : << Node(x, TRUE) >>)
        BY <2>5 DEF LastNodes
      <4> QED BY <2>1, <4>3, <4>4
    <3> HIDE DEF g
    <3>3. AskList(c, s, d, q)
      BY <3>1, AskedOfSubCells
    <3> QED BY <3>2, <3>3
  <2> QED BY <2>4, <2>5
<1>4. CASE ~(c # WorldCell /\ WithinShape(c, s)) /\ Len(c) # d - 1
  <2> DEFINE q == << >> \o Loop(c, s, f)
  <2>1. Visit(f, s, d, FALSE, FALSE, c) = q
    BY <1>4 DEF Visit
  <2>2. Len(c) < d - 1
    BY <1>1, <1>4
  <2>3. AskList(c, s, d, q)
    BY <2>2, AskedOfSubCells
  <2> QED BY <2>1, <2>3
<1> QED BY <1>2, <1>3, <1>4

LEMMA CallsAsk ==
  ASSUME NEW d \in 1..MaxLevels, NEW s, IsUsed(s), ~IsPoint(s), NEW f, AreCalls(f, s, d, FALSE, FALSE)
  PROVE  \A c \in CalledFor(d) : AskList(c, s, d, f[c])
<1>0. d \in Nat /\ d <= MaxLevels /\ MaxLevels \in Nat
  BY MaxLevelsAssumption
<1>v. CalledFor(d) = { c \in Tree : Len(c) <= d - 1 }
  BY VisitedCells
<1>t. \A c \in CalledFor(d) : c \in Tree /\ Len(c) \in 0..(d - 1)
  BY <1>0, <1>v, TreeFacts
<1>f. \A c \in CalledFor(d) : f[c] = Visit(f, s, d, FALSE, FALSE, c)
  BY Zenon DEF AreCalls
<1> DEFINE T == { n \in 0..d : \A c \in CalledFor(d) : Len(c) >= d - n => AskList(c, s, d, f[c]) }
<1>1. 0 \in T
  BY <1>0, <1>t
<1>2. ASSUME NEW n \in 1..d, n - 1 \in T PROVE n \in T
  <2>1. ASSUME NEW c \in CalledFor(d), Len(c) >= d - n
        PROVE  AskList(c, s, d, f[c])
    <3>1. c \in Tree /\ Len(c) \in 0..(d - 1) /\ Len(c) < d /\ Len(c) < MaxLevels
      BY <1>0, <1>t
    <3>2. ASSUME Len(c) < d - 1, NEW i \in 1..Arity
          PROVE  AskList(Append(c, i), s, d, f[Append(c, i)])
      <4> DEFINE a == Append(c, i)
      <4>1. a \in Tree /\ Len(a) = Len(c) + 1
        BY <3>1, SubCellInTree
      <4> HIDE DEF a
      <4>3. a \in CalledFor(d) /\ Len(a) >= d - (n - 1)
        BY <1>0, <1>v, <2>1, <3>1, <3>2, <4>1
      <4>4. AskList(a, s, d, f[a])
        BY <1>2, <4>3
      <4> QED BY <4>4 DEF a
    <3>3. Len(c) < d - 1 => \A i \in 1..Arity : CellTouches(Append(c, i), s) =>
                              AskList(Append(c, i), s, d, f[Append(c, i)])
      BY <3>2
    <3>4. AskList(c, s, d, Visit(f, s, d, FALSE, FALSE, c))
      BY <3>1, <3>3, VisitAsks
    <3> QED BY <1>f, <3>4
  <2> QED BY <2>1
<1> HIDE DEF T
<1>3. d \in T
  <2>1. \A k \in 0..d : k \in T
    BY <1>0, <1>1, <1>2, CountUp
  <2> QED BY <1>0, <2>1
<1>4. \A c \in CalledFor(d) : Len(c) >= d - d => AskList(c, s, d, f[c])
  BY <1>3, Zenon DEF T
<1>5. \A c \in CalledFor(d) : Len(c) >= d - d
  BY <1>0, <1>t
<1> QED BY <1>4, <1>5, Zenon

(* recursiveGetNodes() without parents, for a shape that is no point.      *)
LEMMA NodesAsked ==
  ASSUME NEW d \in 1..MaxLevels, NEW s, IsOfWorld(s), ~IsPoint(s)
  PROVE  AskList(WorldCell, s, d, RecursiveGetNodes(s, d, FALSE, FALSE))
<1>0. d \in Nat /\ d <= MaxLevels /\ MaxLevels \in Nat
  BY MaxLevelsAssumption
<1>1. IsUsed(s)
  BY TouchesWorld
<1>2. WorldCell \in CalledFor(d)
  BY <1>0, CellsAreInTree, TreeFacts, VisitedCells
<1>3. PICK f : AreCalls(f, s, d, FALSE, FALSE) /\ RecursiveGetNodes(s, d, FALSE, FALSE) = f[WorldCell]
  BY ZenonT(60), CallForWorld
<1>4. AskList(WorldCell, s, d, f[WorldCell])
  BY <1>1, <1>2, <1>3, CallsAsk
<1> QED BY <1>3, <1>4

(* What the query asks for, told by the cells that the filter visits: all  *)
(* of these at or below an asked cell, and each is at, above or below one. *)
AsksFor(A, q) ==
  /\ \A a \in A : /\ a \in Tree /\ Len(a) <= q.detailLevel
                  /\ \A x \in Cells : Len(x) <= q.detailLevel /\ StartsWith(x, a) => x \in q.visits
  /\ \A c \in q.visits : \E a \in A : StartsWith(c, a) \/ StartsWith(a, c)

LEMMA AskedByPoint ==
  ASSUME NEW q, IsQuery(q), IsPoint(q.shape)
  PROVE  AsksFor(QueryCells(q.shape, q.detailLevel), q)
<1> DEFINE s == q.shape
           d == q.detailLevel
           a == PointCell(s, d)
<1>1. /\ IsUsed(s) /\ CellTouches(WorldCell, s) /\ d \in 1..MaxLevels
      /\ \A c : c \in q.visits <=> c \in Cells /\ Len(c) <= d /\ c = PointCell(s, Len(c))
  BY CellsOfQuery DEF CellsTouched
<1>2. QueryCells(s, d) = {a}
  BY DEF QueryCells
<1>3. d \in 0..MaxLevels /\ d \in Nat
  BY <1>1, MaxLevelsAssumption
<1> HIDE DEF s, d
<1>4. a \in Tree /\ Len(a) = d /\ \A k \in 0..d : StartsWith(a, PointCell(s, k))
  BY <1>1, <1>3, PointCells
<1>5. ASSUME NEW x \in Cells, Len(x) <= d, StartsWith(x, a) PROVE x \in q.visits
  <2>1. x \in Tree
    BY CellsAreInTree
  <2>2. x = a
    <3> HIDE DEF a
    <3> QED BY <1>4, <1>5, <2>1, Begins
  <2> QED BY <1>1, <1>4, <1>5, <2>2
<1>6. ASSUME NEW c \in q.visits PROVE StartsWith(a, c)
  <2>1. c \in Cells /\ Len(c) <= d /\ c = PointCell(s, Len(c))
    BY <1>1
  <2>2. Len(c) \in 0..d
    BY <1>3, <2>1, CellsAreSequences
  <2> QED BY <1>4, <2>1, <2>2
<1> HIDE DEF a
<1>7. AsksFor({a}, q)
  BY <1>3, <1>4, <1>5, <1>6 DEF AsksFor, d
<1> QED BY <1>2, <1>7 DEF s, d

LEMMA AskedByShape ==
  ASSUME NEW q, IsQuery(q), ~IsPoint(q.shape)
  PROVE  AsksFor(QueryCells(q.shape, q.detailLevel), q)
<1> DEFINE s == q.shape
           d == q.detailLevel
           L == RecursiveGetNodes(s, d, FALSE, FALSE)
           A == { node.cell : node \in ToSet(L) }
<1>1. /\ IsOfWorld(s) /\ d \in 1..MaxLevels /\ d \in Nat /\ MaxLevels \in Nat
      /\ \A c : c \in q.visits <=> c \in Cells /\ Len(c) <= d /\ CellTouches(c, s)
  BY CellsOfQuery, MaxLevelsAssumption DEF CellsTouched
<1>2. QueryCells(s, d) = A
  BY DEF QueryCells
<1>3. IsAsked(WorldCell, s, d, ToSet(L))
  BY <1>1, NodesAsked DEF AskList
<1> HIDE DEF s, d, L
<1>4. ASSUME NEW a \in A
      PROVE  /\ a \in Tree /\ Len(a) <= d
             /\ \A x \in Tree : Len(x) = d /\ StartsWith(x, a) => CellTouches(x, s)
  BY <1>3 DEF IsAsked
<1>5. ASSUME NEW x \in Tree, Len(x) = d, CellTouches(x, s)
      PROVE  \E a \in A : StartsWith(x, a)
  <2>1. StartsWith(x, WorldCell)
    BY Begins
  <2>2. PICK e \in ToSet(L) : StartsWith(x, e.cell)
    BY <1>3, <1>5, <2>1 DEF IsAsked
  <2> QED BY <2>2
<1> HIDE DEF A
<1>6. ASSUME NEW a \in A, NEW x \in Cells, Len(x) <= d, StartsWith(x, a) PROVE x \in q.visits
  <2>1. x \in Tree /\ Len(x) \in Nat /\ d \in Len(x)..MaxLevels
    BY <1>1, <1>6, CellsAreInTree, CellsAreSequences
  <2>2. PICK y \in Tree : Len(y) = d /\ StartsWith(y, x)
    BY <2>1, CellsBelowCell
  <2>3. a \in Tree /\ StartsWith(y, a)
    BY <1>4, <1>6, <2>1, <2>2, Begins
  <2>4. CellTouches(y, s)
    BY <1>4, <2>2, <2>3
  <2>5. CellTouches(x, s)
    BY <2>1, <2>2, <2>4, TouchesUp
  <2> QED BY <1>1, <1>6, <2>5
<1>7. ASSUME NEW c \in q.visits PROVE \E a \in A : StartsWith(c, a) \/ StartsWith(a, c)
  <2>1. c \in Tree /\ Len(c) \in Nat /\ d \in Len(c)..MaxLevels /\ CellTouches(c, s)
    BY <1>1, CellsAreInTree, CellsAreSequences
  <2>2. PICK y \in Tree : Len(y) = d /\ StartsWith(y, c) /\ CellTouches(y, s)
    BY <2>1, TouchesBelow
  <2>3. PICK a \in A : StartsWith(y, a)
    BY <1>5, <2>2
  <2>4. a \in Tree /\ Len(a) \in Nat
    BY <1>4, TreeFacts
  <2>5. Len(a) <= Len(c) \/ Len(c) <= Len(a)
    BY <2>1, <2>4
  <2>6. StartsWith(c, a) \/ StartsWith(a, c)
    BY <2>1, <2>2, <2>3, <2>4, <2>5, BeginningsNest
  <2> QED BY <2>6
<1>8. AsksFor(A, q)
  BY <1>4, <1>6, <1>7 DEF AsksFor, d
<1> QED BY <1>2, <1>8 DEF s, d

(* What the term query finds touches the query: a document with an asked   *)
(* cell has a leaf at or below it, and the query all that is there.        *)
LEMMA FoundByTermsTouch ==
  ASSUME Inputs, NEW A, AsksFor(A, query)
  PROVE  DocsOfTerms(A) \subseteq TouchingDocs
<1> SUFFICES ASSUME NEW p \in 1..Size, index.terms[p] \in A, NEW d \in LiveDocs(p)
             PROVE  d \in TouchingDocs
  BY DEF DocsOfTerms
<1> DEFINE c == index.terms[p]
           l == query.detailLevel
<1>1. d \in index.docs[p] /\ d \in query.acceptDocs
  BY DEF LiveDocs
<1>2. c \in Terms /\ c \in Tree /\ Len(c) \in Nat /\ Len(c) <= l /\ l \in Nat
      /\ \A x \in Cells : Len(x) <= l /\ StartsWith(x, c) => x \in query.visits
  BY IndexFacts, QueryFacts, TreeFacts DEF AsksFor
<1>3. c \in Cells
  <2>1. Len(c) > 0
    BY <1>2, LevelOfTerm
  <2> QED BY <1>2, <2>1, TreeFacts
<1>4. CellOf(c) = c
  BY <1>3, CellsAreTerms
<1>5. PICK r \in 1..Size : /\ d \in index.docs[r] /\ IsLeafTerm(index.terms[r])
                           /\ StartsWith(index.terms[r], CellOf(c))
  BY <1>1, DocumentFacts DEF HasLeafBelow, Size
<1> DEFINE u == index.terms[r]
<1>6. u \in Terms /\ StartsWith(u, c) /\ Level(u) \in Nat
  BY <1>4, <1>5, IndexFacts, LevelOfTerm
<1>7. c \in query.visits
  BY <1>2, <1>3, Begins
<1> HIDE DEF c, u, l
<1>8. ASSUME NEW n \in 1..Level(u), n <= l PROVE SubSeq(u, 1, n) \in query.visits
  <2>1. SubSeq(u, 1, n) \in Cells /\ Len(SubSeq(u, 1, n)) = n
    BY <1>6, CellAbove
  <2>2. CASE n \in Len(c)..Level(u)
    <3>1. StartsWith(SubSeq(u, 1, n), c)
      BY <1>3, <1>6, <2>2, CellsBelow
    <3> QED BY <1>2, <1>8, <2>1, <3>1
  <2>3. CASE n \in 1..Len(c)
    <3>1. SubSeq(u, 1, n) = SubSeq(c, 1, n)
      BY <1>3, <1>6, <2>3, CellsInCommon
    <3> QED BY <1>7, <2>3, <3>1, GridFacts
  <2> QED BY <1>2, <1>6, <2>2, <2>3
<1>9. Visited(u)
  BY <1>8 DEF Visited, l
<1> QED BY <1>1, <1>5, <1>9, TouchBy DEF u

(* A document that touches the query without being found by the term query.*)
LEMMA LostByTerms ==
  ASSUME Inputs, NEW A, AsksFor(A, query), NEW d \in TouchingDocs, d \notin DocsOfTerms(A)
  PROVE  d \in CoarserDocs(A) \cup EdgeDocs
<1> DEFINE l == query.detailLevel
<1>1. PICK q \in 1..Size : /\ d \in index.docs[q]
                           /\ Level(index.terms[q]) <= l
                           /\ Level(index.terms[q]) = l \/ IsLeafTerm(index.terms[q])
                           /\ CellOf(index.terms[q]) \in query.visits \cup query.meets
  BY DEF TouchingDocs
<1>2. d \in query.acceptDocs
  BY DEF TouchingDocs
<1> DEFINE t == index.terms[q]
           c == CellOf(t)
<1>3. t \in Terms /\ l \in Nat /\ l <= MaxLevels /\ MaxLevels \in Nat
  BY IndexFacts, QueryFacts, MaxLevelsAssumption
<1>4. c \in Cells /\ Len(c) = Level(t) /\ \A n \in 1..Level(t) : SubSeq(c, 1, n) = SubSeq(t, 1, n)
  BY <1>3, CellOfTermIsCell
<1>5. CASE c \notin query.visits
  <2>1. Matches(t)
    BY <1>1, <1>5 DEF Matches
  <2> QED BY <1>1, <1>2, <1>5, <2>1 DEF EdgeDocs
<1>6. CASE c \in query.visits
  <2>1. PICK a \in A : StartsWith(c, a) \/ StartsWith(a, c)
    BY <1>6 DEF AsksFor
  <2>2. a \in Tree /\ Len(a) <= l /\ Len(a) \in Nat /\ c \in Tree /\ Len(c) \in Nat
    BY <1>4, <2>1, TreeFacts, CellsAreInTree DEF AsksFor
  <2>3. CASE a = WorldCell
    BY <1>2, <2>1, <2>3 DEF CoarserDocs
  <2>4. CASE a # WorldCell /\ StartsWith(c, a)
    <3>1. a \in Cells /\ Len(a) \in 1..Level(t)
      <4>1. Len(a) > 0 /\ a \in Cells
        BY <2>2, <2>4, TreeFacts
      <4>2. Len(a) <= Len(c)
        BY <2>4 DEF StartsWith
      <4> QED BY <1>4, <2>2, <4>1, <4>2
    <3>2. a = SubSeq(t, 1, Len(a))
      <4>1. c \in Terms
        BY <1>4, CellsAreTerms
      <4>2. SubSeq(c, 1, Len(a)) = a
        BY <2>4, <3>1, <4>1, PrefixOfTerm
      <4> QED BY <1>4, <3>1, <4>2
    <3>3. PICK k \in 1..Level(t) :
            /\ \A n \in 1..k : Holds(index, d, SubSeq(t, 1, n))
            /\ k = Level(t) \/ Holds(index, d, Marked(SubSeq(t, 1, k)))
      BY <1>1, DocumentFacts DEF HeldToLeaf
    <3>4. CASE Len(a) <= k
      <4>1. Len(a) \in 1..k
        BY <3>1, <3>4
      <4>2. Holds(index, d, a)
        <5> HIDE DEF t
        <5> QED BY <3>2, <3>3, <4>1
      <4>3. PICK r \in 1..Size : index.terms[r] = a /\ d \in index.docs[r]
        BY <4>2 DEF Holds, Size
      <4>4. d \in LiveDocs(r) /\ index.terms[r] \in A
        BY <1>2, <2>1, <4>3 DEF LiveDocs
      <4>5. d \in DocsOfTerms(A)
        BY <4>4 DEF DocsOfTerms
      <4> QED BY <4>5
    <3>5. CASE k < Len(a)
      <4> DEFINE b == SubSeq(t, 1, k)
      <4>1. Holds(index, d, Marked(b))
        BY <3>1, <3>3, <3>5
      <4>2. b \in Cells /\ Len(b) = k /\ IsMarked(Marked(b)) /\ CellOf(Marked(b)) = b
        BY <1>3, <3>3, CellAbove
      <4>3. StartsWith(a, b)
        <5>1. t \in Terms /\ StartsWith(t, a) /\ StartsWith(t, b)
          BY <1>3, <3>1, <3>2, <3>3, CellAbove
        <5>2. \A i \in 1..k : a[i] = t[i] /\ b[i] = t[i]
          <6>1. /\ \A i \in 1..Len(a) : SubSeq(t, 1, Len(a))[i] = t[i]
                /\ \A i \in 1..k : b[i] = t[i]
            BY <1>3, <3>1, <3>3, CellAbove
          <6> QED BY <2>2, <3>2, <3>5, <6>1
        <5> QED BY <2>2, <3>5, <4>2, <5>2 DEF StartsWith
      <4>4. a # b
        BY <3>5, <4>2
      <4> HIDE DEF b
      <4>5. PICK r \in 1..Size : index.terms[r] = Marked(b) /\ d \in index.docs[r]
        BY <4>1 DEF Holds, Size
      <4>6. /\ IsMarked(index.terms[r]) /\ a # CellOf(index.terms[r])
            /\ StartsWith(a, CellOf(index.terms[r]))
        BY <4>2, <4>3, <4>4, <4>5
      <4> QED BY <1>2, <2>1, <4>5, <4>6 DEF CoarserDocs
    <3> QED BY <2>2, <3>3, <3>4, <3>5
  <2>5. CASE ~StartsWith(c, a) /\ StartsWith(a, c)
    <3>1. a # c
      BY <2>2, <2>5, Begins
    <3>2. Len(c) < l
      <4>1. Len(c) <= Len(a)
        BY <2>5 DEF StartsWith
      <4>2. Len(a) # Len(c)
        <5> SUFFICES ASSUME Len(a) = Len(c) PROVE FALSE
          OBVIOUS
        <5>1. Len(a) <= Len(c)
          BY <2>2
        <5>2. a = c
          BY <2>2, <2>5, <5>1, Begins
        <5> QED BY <3>1, <5>2
      <4> QED BY <1>3, <2>2, <4>1, <4>2
    <3>3. IsMarked(t)
      <4>1. IsLeafTerm(t) /\ Level(t) < MaxLevels
        BY <1>1, <1>3, <1>4, <2>2, <3>2
      <4> QED BY <1>3, <4>1, LevelOfTerm DEF IsLeafTerm
    <3> QED BY <1>1, <1>2, <2>1, <2>5, <3>1, <3>3 DEF CoarserDocs
  <2> QED BY <2>1, <2>3, <2>4, <2>5
<1> QED BY <1>5, <1>6

(* On every index that fields make, for every query that a shape makes, the*)
(* two strategies answer alike but for these documents: the term query     *)
(* finds only what touches the query, and all that the filter finds without*)
(* those that have a leaf above its cells, are in a cell at the edge, or   *)
(* are mistaken for a leaf (TermQueryLosesOnlyCoarserDocs).                *)
THEOREM TermQueryLosesLittle == Spec => []TermQueryLosesOnlyCoarserDocs
<1>1. SoundInv => TermQueryLosesOnlyCoarserDocs
  <2> SUFFICES ASSUME SoundInv PROVE TermQueryLosesOnlyCoarserDocs
    OBVIOUS
  <2> DEFINE A == QueryCells(query.shape, query.detailLevel)
  <2>1. Inputs /\ \A d \in bits : d \in TouchingDocs \cup MistakenDocs
    BY DEF SoundInv, IInv, SoundBits, Gathered
  <2>2. AsksFor(A, query)
    BY <2>1, Sources, AskedByPoint, AskedByShape
  <2> HIDE DEF A
  <2>3. DocsOfTerms(A) \subseteq TouchingDocs
    BY <2>1, <2>2, FoundByTermsTouch
  <2>4. ASSUME NEW d \in bits, d \notin DocsOfTerms(A)
        PROVE  d \in CoarserDocs(A) \cup EdgeDocs \cup MistakenDocs
    BY <2>1, <2>2, <2>4, LostByTerms
  <2>5. bits \ DocsOfTerms(A) \subseteq CoarserDocs(A) \cup EdgeDocs \cup MistakenDocs
    BY <2>4
  <2> QED BY <2>3, <2>5 DEF TermQueryLosesOnlyCoarserDocs, A
<1>2. Spec => []SoundInv
  BY SoundInvInit, SoundInvStep, PTL DEF Spec
<1> QED BY <1>1, <1>2, PTL

=============================================================================
