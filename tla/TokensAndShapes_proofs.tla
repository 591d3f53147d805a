----------------------- MODULE TokensAndShapes_proofs -----------------------
(***************************************************************************)
(* The lemmas that the other proofs share, in two parts that have nothing  *)
(* to do with each other.                                                  *)
(*                                                                         *)
(* The order of terms (Tokens), for any alphabet and depth.  Terms are     *)
(* sequences of natural numbers, whose least is the leaf byte.             *)
(*                                                                         *)
(* Points and rectangles (Shapes): what relate() answers is what the sets  *)
(* of their points say, on every globe and on the plane, whatever crosses  *)
(* the date line; and least and greatest elements.                         *)
(***************************************************************************)
EXTENDS Tokens, Shapes, FiniteSetsExt, FiniteSetTheorems, SequenceTheorems,
        WellFoundedInduction, TLAPS

(* The order of the term index, BytesRef.compareTo(): no term is below     *)
(* itself.                                                                 *)
LEMMA LessIrreflexive ==
  ASSUME NEW s \in Seq(Nat)
  PROVE  ~Less(s, s)
BY DEF Less, Before

(* And no two terms are below each other.                                  *)
LEMMA LessAsymmetric ==
  ASSUME NEW s \in Seq(Nat), NEW t \in Seq(Nat), Less(s, t)
  PROVE  ~Less(t, s)
<1>1. CASE Len(s) < Len(t) /\ StartsWith(t, s)
  BY <1>1 DEF Less, Before, StartsWith
<1>2. CASE Before(s, t)
  <2>1. PICK i \in 1..Len(s) : /\ i <= Len(t) /\ s[i] < t[i]
                               /\ \A j \in 1..(i - 1) : s[j] = t[j]
    BY <1>2 DEF Before
  <2>2. ~StartsWith(s, t)
    BY <2>1 DEF StartsWith
  <2>3. ~Before(t, s)
    <3> SUFFICES ASSUME NEW k \in 1..Len(t), k <= Len(s), t[k] < s[k],
                        \A j \in 1..(k - 1) : t[j] = s[j]
                 PROVE  FALSE
      BY DEF Before
    <3>0. i \in 1..Len(s) /\ i \in 1..Len(t) /\ k \in 1..Len(s) /\ k \in 1..Len(t)
      BY <2>1
    <3>1. s[i] \in Nat /\ t[i] \in Nat /\ s[k] \in Nat /\ t[k] \in Nat
      BY <3>0, ElementOfSeq
    <3>2. CASE k < i
      BY <2>1, <3>0, <3>1, <3>2
    <3>3. CASE k = i
      BY <2>1, <3>1, <3>3
    <3>4. CASE i < k
      BY <2>1, <3>0, <3>1, <3>4
    <3> QED BY <3>0, <3>2, <3>3, <3>4
  <2> QED BY <2>2, <2>3 DEF Less
<1> QED BY <1>1, <1>2 DEF Less

(* What comes, in the index, after a cell and before a term that starts    *)
(* with the cell, starts with the cell as well.                            *)
LEMMA BetweenStartsWith ==
  ASSUME NEW c \in Seq(Nat), NEW u \in Seq(Nat), NEW t \in Seq(Nat),
         Less(c, u), Less(u, t), StartsWith(t, c)
  PROVE  StartsWith(u, c)
<1> SUFFICES ASSUME Before(c, u)
             PROVE  FALSE
  BY DEF Less
<1>1. PICK i \in 1..Len(c) : /\ i <= Len(u) /\ c[i] < u[i]
                             /\ \A j \in 1..(i - 1) : c[j] = u[j]
  BY DEF Before
<1>2. \A j \in 1..Len(c) : t[j] = c[j] /\ j <= Len(t)
  BY DEF StartsWith
<1>3. Before(t, u)
  BY <1>1, <1>2 DEF Before
<1> QED BY <1>3, LessAsymmetric DEF Less

(* Nothing comes between a cell and the same cell with its leaf byte.      *)
LEMMA NothingBetweenMarked ==
  ASSUME NEW c \in Seq(Nat), NEW u \in Seq(Nat), Less(c, u), Less(u, Marked(c))
  PROVE  FALSE
<1> DEFINE m == Marked(c)
<1>1. m \in Seq(Nat) /\ Len(m) = Len(c) + 1 /\ m[Len(c) + 1] = 0
      /\ \A j \in 1..Len(c) : m[j] = c[j]
  BY DEF Marked, LeafByte
<1>2. StartsWith(m, c)
  BY <1>1 DEF StartsWith
<1>3. StartsWith(u, c)
  BY <1>1, <1>2, BetweenStartsWith
<1>4. Len(c) < Len(u)
  BY <1>3 DEF Less, Before, StartsWith
<1>5. ~Before(u, m)
  <2> SUFFICES ASSUME NEW i \in 1..Len(u), i <= Len(m), u[i] < m[i]
               PROVE  FALSE
    BY DEF Before
  <2>1. u[i] \in Nat
    OBVIOUS
  <2>2. CASE i <= Len(c)
    BY <2>2, <1>1, <1>3 DEF StartsWith
  <2>3. CASE i = Len(c) + 1
    BY <2>3, <2>1, <1>1
  <2> QED BY <2>2, <2>3, <1>1
<1> QED BY <1>1, <1>4, <1>5 DEF Less

(* A cell that comes before x and is not its prefix comes before all that  *)
(* starts with x.                                                          *)
LEMMA BeforeStartsWith ==
  ASSUME NEW c \in Seq(Nat), NEW x \in Seq(Nat), NEW t \in Seq(Nat),
         Before(c, x), StartsWith(t, x)
  PROVE  Before(c, t)
<1>1. PICK k \in 1..Len(c) : /\ k <= Len(x) /\ c[k] < x[k]
                             /\ \A j \in 1..(k - 1) : c[j] = x[j]
  BY DEF Before
<1>2. Len(x) <= Len(t) /\ \A j \in 1..Len(x) : t[j] = x[j]
  BY DEF StartsWith
<1>3. Len(x) \in Nat /\ Len(t) \in Nat /\ Len(c) \in Nat
  OBVIOUS
<1>4. k <= Len(t) /\ c[k] < t[k]
  BY <1>1, <1>2, <1>3
<1>5. \A j \in 1..(k - 1) : c[j] = t[j]
  BY <1>1, <1>2, <1>3
<1> QED BY <1>1, <1>4, <1>5 DEF Before

(* So does all that starts with the cell that comes before.                *)
LEMMA BelowBefore ==
  ASSUME NEW c \in Seq(Nat), NEW x \in Seq(Nat), NEW u \in Seq(Nat),
         Before(c, x), StartsWith(u, c)
  PROVE  Before(u, x)
<1>1. PICK k \in 1..Len(c) : /\ k <= Len(x) /\ c[k] < x[k]
                             /\ \A j \in 1..(k - 1) : c[j] = x[j]
  BY DEF Before
<1>2. Len(c) <= Len(u) /\ \A j \in 1..Len(c) : u[j] = c[j]
  BY DEF StartsWith
<1>3. Len(x) \in Nat /\ Len(u) \in Nat /\ Len(c) \in Nat
  OBVIOUS
<1>4. k \in 1..Len(u) /\ u[k] < x[k]
  BY <1>1, <1>2, <1>3
<1>5. \A j \in 1..(k - 1) : u[j] = x[j]
  BY <1>1, <1>2, <1>3
<1> QED BY <1>1, <1>4, <1>5 DEF Before

(* What comes before a cell comes before all that the cell comes before.   *)
LEMMA LessBefore ==
  ASSUME NEW t \in Seq(Nat), NEW c \in Seq(Nat), NEW x \in Seq(Nat),
         Less(t, c), Before(c, x)
  PROVE  Less(t, x)
<1>1. PICK k \in 1..Len(c) : /\ k <= Len(x) /\ c[k] < x[k]
                             /\ \A j \in 1..(k - 1) : c[j] = x[j]
  BY DEF Before
<1>2. Len(t) \in Nat /\ Len(c) \in Nat /\ Len(x) \in Nat
  OBVIOUS
<1>3. CASE Len(t) < Len(c) /\ StartsWith(c, t)
  <2>1. \A j \in 1..Len(t) : c[j] = t[j]
    BY <1>3 DEF StartsWith
  <2>2. CASE Len(t) < k
    <3>1. Len(t) < Len(x) /\ \A j \in 1..Len(t) : x[j] = t[j]
      BY <1>1, <1>2, <2>1, <2>2
    <3> QED BY <1>2, <3>1 DEF Less, StartsWith
  <2>3. CASE k <= Len(t)
    <3>1. k \in 1..Len(t) /\ t[k] < x[k] /\ \A j \in 1..(k - 1) : t[j] = x[j]
      BY <1>1, <1>2, <2>1, <2>3
    <3> QED BY <1>1, <3>1 DEF Less, Before
  <2> QED BY <1>1, <1>2, <2>2, <2>3
<1>4. CASE Before(t, c)
  <2>1. PICK i \in 1..Len(t) : /\ i <= Len(c) /\ t[i] < c[i]
                               /\ \A j \in 1..(i - 1) : t[j] = c[j]
    BY <1>4 DEF Before
  <2>2. CASE i < k
    <3>1. i \in 1..(k - 1) /\ i <= Len(x)
      BY <1>1, <1>2, <2>1, <2>2
    <3>2. t[i] < x[i]
      BY <1>1, <2>1, <3>1
    <3>3. \A j \in 1..(i - 1) : t[j] = x[j]
      <4>1. \A j \in 1..(i - 1) : j \in 1..(k - 1)
        BY <3>1
      <4> QED BY <1>1, <2>1, <4>1
    <3> QED BY <2>1, <3>1, <3>2, <3>3 DEF Less, Before
  <2>3. CASE k <= i
    <3>0. k \in 1..Len(t) /\ \A j \in 1..(k - 1) : j \in 1..(i - 1)
      BY <1>2, <2>3
    <3>1. k \in 1..Len(t) /\ \A j \in 1..(k - 1) : t[j] = x[j]
      BY <1>1, <2>1, <3>0
    <3>2. t[k] \in Nat /\ c[k] \in Nat /\ x[k] \in Nat
      <4>1. k \in 1..Len(t) /\ k \in 1..Len(c) /\ k \in 1..Len(x)
        BY <1>1, <1>2, <3>1
      <4> QED BY <4>1, ElementOfSeq
    <3>3. t[k] < x[k]
      <4>1. CASE k = i
        BY <1>1, <2>1, <3>2, <4>1
      <4>2. CASE k < i
        <5>1. k \in 1..(i - 1)
          BY <4>2
        <5> QED BY <1>1, <2>1, <5>1
      <4> QED BY <2>3, <4>1, <4>2
    <3> QED BY <1>1, <3>1, <3>3 DEF Less, Before
  <2> QED BY <1>1, <2>1, <2>2, <2>3
<1> QED BY <1>3, <1>4 DEF Less

(* What comes before a cell comes before all that starts with the cell.    *)
LEMMA LessStartsWith ==
  ASSUME NEW t \in Seq(Nat), NEW c \in Seq(Nat), NEW x \in Seq(Nat),
         Less(t, c), StartsWith(x, c)
  PROVE  Less(t, x)
<1>1. /\ Len(t) \in Nat /\ Len(c) \in Nat /\ Len(x) \in Nat
      /\ Len(c) <= Len(x) /\ \A j \in 1..Len(c) : x[j] = c[j]
  BY DEF StartsWith
<1>2. CASE Len(t) < Len(c) /\ StartsWith(c, t)
  BY <1>1, <1>2 DEF Less, StartsWith
<1>3. CASE Before(t, c)
  BY <1>3, BeforeStartsWith DEF Less
<1> QED BY <1>2, <1>3 DEF Less

(* A sub-cell comes before what its cell comes before.                     *)
LEMMA BeforeAppend ==
  ASSUME NEW c \in Seq(Nat), NEW x \in Seq(Nat), NEW i \in Nat, Before(c, x)
  PROVE  Before(Append(c, i), x)
<1>1. PICK k \in 1..Len(c) : /\ k <= Len(x) /\ c[k] < x[k]
                             /\ \A j \in 1..(k - 1) : c[j] = x[j]
  BY DEF Before
<1>2. \A j \in 1..Len(c) : Append(c, i)[j] = c[j]
  OBVIOUS
<1>3. Len(Append(c, i)) = Len(c) + 1
  OBVIOUS
<1>4. Len(c) \in Nat /\ Len(x) \in Nat
  OBVIOUS
<1>5. k \in 1..Len(Append(c, i)) /\ Append(c, i)[k] < x[k]
  BY <1>1, <1>2, <1>3, <1>4
<1>6. \A j \in 1..(k - 1) : Append(c, i)[j] = x[j]
  BY <1>1, <1>2, <1>4
<1> QED BY <1>1, <1>5, <1>6 DEF Before

(* A term that starts with another one comes after it.                     *)
LEMMA StartsWithLess ==
  ASSUME NEW c \in Seq(Nat), NEW t \in Seq(Nat), StartsWith(t, c), t # c
  PROVE  Less(c, t)
BY DEF Less, StartsWith

(* Every term is a sequence of bytes, at most one longer than a cell.      *)
LEMMA TermsAreSequences ==
  ASSUME NEW t \in Terms
  PROVE  /\ t \in Seq(Nat)
         /\ Len(t) \in 1..(MaxLevels + 1)
BY MaxLevelsAssumption, ArityAssumption DEF Terms, Cells

LEMMA CellsAreSequences ==
  ASSUME NEW c \in Cells
  PROVE  /\ c \in Seq(Nat)
         /\ Len(c) \in 1..MaxLevels
         /\ \A i \in 1..Len(c) : c[i] \in 1..Arity
<1>1. c \in Seq(1..Arity) /\ Len(c) \in 1..MaxLevels
  BY DEF Cells
<1>2. \A i \in 1..Len(c) : c[i] \in 1..Arity
  BY <1>1, ElementOfSeq, Zenon
<1>3. c \in Seq(Nat)
  BY <1>1, ArityAssumption
<1> QED BY <1>1, <1>2, <1>3

LEMMA WorldOrCell ==
  ASSUME NEW c \in Cells \cup {WorldCell}
  PROVE  c \in Seq(Nat) /\ Len(c) \in 0..MaxLevels
<1>1. CASE c \in Cells
  BY <1>1, CellsAreSequences
<1>2. CASE c = << >>
  BY <1>2, EmptySeq, MaxLevelsAssumption
<1> QED BY <1>1, <1>2 DEF WorldCell

(* The first n bytes of a term, as a sequence.                             *)
LEMMA FirstBytes ==
  ASSUME NEW t \in Seq(Nat), NEW n \in 1..Len(t)
  PROVE  /\ SubSeq(t, 1, n) \in Seq(Nat)
         /\ Len(SubSeq(t, 1, n)) = n
         /\ \A k \in 1..n : SubSeq(t, 1, n)[k] = t[k]
OBVIOUS

(* The level of a term, and the letters up to it.                          *)
LEMMA LevelOfTerm ==
  ASSUME NEW t \in Terms
  PROVE  /\ Level(t) \in 1..MaxLevels
         /\ Level(t) <= Len(t)
         /\ \A i \in 1..Level(t) : t[i] \in 1..Arity
         /\ ~IsMarked(t) => t \in Cells /\ Level(t) = Len(t)
         /\ IsMarked(t) => Len(t) = Level(t) + 1 /\ t[Len(t)] = LeafByte
<1>1. CASE t \in Cells
  <2>1. t[Len(t)] # LeafByte
    BY <1>1, CellsAreSequences, ArityAssumption DEF LeafByte
  <2> QED BY <1>1, <2>1, CellsAreSequences DEF Level, IsMarked
<1>2. CASE t \notin Cells
  <2>1. t \in Seq(0..Arity) /\ Len(t) \in 2..(MaxLevels + 1) /\ t[Len(t)] = LeafByte
        /\ \A i \in 1..(Len(t) - 1) : t[i] # LeafByte
    BY <1>2 DEF Terms
  <2>2. IsMarked(t) /\ Level(t) = Len(t) - 1
    BY <2>1 DEF IsMarked, Level
  <2>3. ASSUME NEW i \in 1..(Len(t) - 1)
        PROVE  t[i] \in 1..Arity
    <3>0. i \in 1..Len(t)
      BY <2>1
    <3>1. t[i] \in 0..Arity
      BY <2>1, <3>0, ElementOfSeq, Zenon
    <3> QED BY <2>1, <3>1, ArityAssumption DEF LeafByte
  <2> QED BY <2>1, <2>2, <2>3, MaxLevelsAssumption
<1> QED BY <1>1, <1>2

(* The cells above a term are its prefixes up to its level.                *)
LEMMA PrefixOfTerm ==
  ASSUME NEW t \in Terms, NEW c \in Cells, StartsWith(t, c)
  PROVE  /\ Len(c) <= Level(t)
         /\ SubSeq(t, 1, Len(c)) = c
<1>1. Len(c) <= Level(t)
  <2> SUFFICES ASSUME Len(c) > Level(t)
               PROVE  FALSE
    BY LevelOfTerm, CellsAreSequences
  <2>1. Len(c) = Len(t) /\ t[Len(t)] = LeafByte
    BY LevelOfTerm, CellsAreSequences, TermsAreSequences DEF StartsWith
  <2>2. c[Len(c)] = LeafByte
    BY <2>1, CellsAreSequences DEF StartsWith
  <2> QED BY <2>2, CellsAreSequences, ArityAssumption DEF LeafByte
<1>2. SubSeq(t, 1, Len(c)) = c
  <2> DEFINE p == SubSeq(t, 1, Len(c))
  <2>1. Len(c) \in 1..Len(t)
    BY <1>1, LevelOfTerm, CellsAreSequences, TermsAreSequences
  <2>2. p \in Seq(Nat) /\ Len(p) = Len(c) /\ \A i \in 1..Len(c) : p[i] = t[i]
    BY <2>1, TermsAreSequences
  <2> QED BY <2>2, CellsAreSequences, SeqEqual DEF StartsWith
<1> QED BY <1>1, <1>2

(* A term at the level of its prefix is that cell or its leaf.             *)
LEMMA TermOfCell ==
  ASSUME NEW t \in Terms, NEW c \in Cells, StartsWith(t, c), Level(t) = Len(c)
  PROVE  t = c \/ t = Marked(c)
<1>1. t \in Seq(Nat) /\ c \in Seq(Nat) /\ \A i \in 1..Len(c) : t[i] = c[i]
  BY TermsAreSequences, CellsAreSequences DEF StartsWith
<1>2. CASE ~IsMarked(t)
  BY <1>1, <1>2, LevelOfTerm, SeqEqual
<1>3. CASE IsMarked(t)
  <2>1. Marked(c) \in Seq(Nat) /\ Len(Marked(c)) = Len(c) + 1
        /\ Marked(c)[Len(c) + 1] = 0 /\ \A i \in 1..Len(c) : Marked(c)[i] = c[i]
    BY <1>1 DEF Marked, LeafByte
  <2>2. Len(t) = Len(c) + 1 /\ t[Len(c) + 1] = 0
    BY <1>3, LevelOfTerm DEF LeafByte
  <2>3. ASSUME NEW i \in 1..Len(t)
        PROVE  t[i] = Marked(c)[i]
    <3>1. i \in 1..Len(c) \/ i = Len(c) + 1
      BY <1>1, <2>2
    <3> QED BY <1>1, <2>1, <2>2, <3>1
  <2> QED BY <1>1, <2>1, <2>2, <2>3, SeqEqual
<1> QED BY <1>2, <1>3

-----------------------------------------------------------------------------
(* Points and rectangles.                                                  *)

(* A shape that the theorems are about.                                    *)
IsUsed(s) == IsMade(s) /\ (Geo => Width(s) # 2 * HalfTurn - 1)

Turns == 2 * HalfTurn

(* Longitudes, each named once.                                            *)
Circle == IF Geo THEN -HalfTurn..(HalfTurn - 1) ELSE Int

EasternEnd(s) == s.minX + Width(s)

(* The longitude v lies on the range of s, or does so one turn later.      *)
IsOn(s, v) ==
  \/ s.minX <= v /\ v <= EasternEnd(s)
  \/ Geo /\ s.minX <= v + Turns /\ v + Turns <= EasternEnd(s)

-----------------------------------------------------------------------------

(* NormLon() of what is less than a turn out.                              *)
LEMMA NormLonOnce ==
  ASSUME NEW x \in Int, -HalfTurn <= x, x < 3 * HalfTurn
  PROVE  NormLon(x) = IF x < HalfTurn THEN x ELSE x - Turns
BY HalfTurnAssumption DEF NormLon, Turns

LEMMA UsedFacts ==
  ASSUME NEW s, IsUsed(s)
  PROVE  /\ s.minX \in Int /\ s.maxX \in Int /\ s.minY \in Int /\ s.maxY \in Int
         /\ s.minY <= s.maxY
         /\ s.minX \in Circle
         /\ Width(s) \in Nat /\ Height(s) \in Nat
         /\ EasternEnd(s) \in Int /\ Turns \in Int /\ Turns >= 2 /\ HalfTurn \in Nat
         /\ IsPoint(s) => Width(s) = 0
         /\ Geo => Width(s) <= Turns /\ Width(s) # Turns - 1
         /\ Geo /\ Width(s) = Turns => s.minX = -HalfTurn
         /\ ~Geo => EasternEnd(s) = s.maxX
BY HalfTurnAssumption, GeoAssumption
   DEF IsUsed, IsMade, Width, Height, CrossesDateLine, EasternEnd, Turns, Circle, IsPoint

(* NormLon() goes a number of whole turns.                                 *)
LEMMA NormLonTurns ==
  ASSUME NEW x \in Int
  PROVE  /\ NormLon(x) \in -HalfTurn..(HalfTurn - 1)
         /\ \E k \in Int : x = NormLon(x) + Turns * k
<1> DEFINE m == 2 * HalfTurn
           y == x + HalfTurn
<1>1. m \in Nat \ {0} /\ y \in Int
  BY HalfTurnAssumption
<1>2. y % m \in 0..(m - 1) /\ y \div m \in Int /\ y = m * (y \div m) + (y % m)
  BY <1>1
<1>3. NormLon(x) = (y % m) - HalfTurn
  BY DEF NormLon
<1> HIDE DEF y
<1>4. NormLon(x) \in -HalfTurn..(HalfTurn - 1)
  BY <1>2, <1>3, HalfTurnAssumption
<1>5. x = NormLon(x) + m * (y \div m)
  BY <1>2, <1>3, <1>4, HalfTurnAssumption DEF y
<1> QED BY <1>2, <1>4, <1>5 DEF Turns

LEMMA FewTurns ==
  ASSUME NEW m \in Nat \ {0}, NEW k \in Int, -(2 * m) < m * k, m * k < m
  PROVE  k \in {-1, 0}
<1>1. k >= 1 => m * k >= m
  OBVIOUS
<1>2. k <= -2 => m * k <= -(2 * m)
  OBVIOUS
<1> QED BY <1>1, <1>2

(* makeRect() makes what IsMade() describes, and normalising the edges     *)
(* does not change the width: the assertion of SimpleSpatialContext.java,  *)
(* line 95.                                                                *)
THEOREM MakeRectKeepsWidth ==
  ASSUME NEW x1 \in Int, NEW x2 \in Int, NEW y1 \in Int, NEW y2 \in Int,
         y1 <= y2, Width(Rect(x1, x2, y1, y2)) >= 0, Geo \/ x1 <= x2
  PROVE  LET given == Width(Rect(x1, x2, y1, y2))
             made  == MakeRect(x1, x2, y1, y2)
         IN  /\ IsMade(made)
             /\ Width(made) = IF Geo /\ given >= 2 * HalfTurn THEN 2 * HalfTurn ELSE given
<1> DEFINE given == Width(Rect(x1, x2, y1, y2))
           made == MakeRect(x1, x2, y1, y2)
<1>1. given = x2 - x1 + (IF x1 > x2 THEN Turns ELSE 0) /\ given \in Nat
  BY HalfTurnAssumption DEF Width, Rect, CrossesDateLine, Turns
<1>2. CASE ~Geo
  BY <1>1, <1>2, HalfTurnAssumption DEF MakeRect, Rect, IsMade, IsPoint, Width, CrossesDateLine
<1>3. CASE Geo /\ given >= Turns
  <2>1. made = Rect(-HalfTurn, HalfTurn, y1, y2)
    BY <1>3 DEF MakeRect, Turns
  <2> QED BY <1>3, <2>1, HalfTurnAssumption DEF Rect, IsMade, IsPoint, Width, CrossesDateLine, Turns
<1>4. CASE Geo /\ given < Turns
  <2> DEFINE n1 == NormLon(x1)
             n2 == NormLon(x2)
  <2>1. made = Rect(n1, n2, y1, y2)
    BY <1>1, <1>4, HalfTurnAssumption DEF MakeRect, Turns
  <2>2. n1 \in -HalfTurn..(HalfTurn - 1) /\ n2 \in -HalfTurn..(HalfTurn - 1)
    BY NormLonTurns
  <2>3. PICK k1 \in Int, k2 \in Int : x1 = n1 + Turns * k1 /\ x2 = n2 + Turns * k2
    BY NormLonTurns
  <2> HIDE DEF n1, n2
  <2>4. \E k \in Int : n2 - n1 = given + Turns * k
    <3>1. Turns * (k1 - k2) = Turns * k1 - Turns * k2
          /\ Turns * (k1 - k2 - 1) = Turns * k1 - Turns * k2 - Turns
      BY <2>3, HalfTurnAssumption DEF Turns
    <3>2. CASE x1 > x2
      <4>1. n2 - n1 = given + Turns * (k1 - k2 - 1)
        BY <1>1, <2>2, <2>3, <3>1, <3>2, HalfTurnAssumption DEF Turns
      <4> QED BY <4>1
    <3>3. CASE ~(x1 > x2)
      <4>1. n2 - n1 = given + Turns * (k1 - k2)
        BY <1>1, <2>2, <2>3, <3>1, <3>3, HalfTurnAssumption DEF Turns
      <4> QED BY <4>1
    <3> QED BY <3>2, <3>3
  <2>5. n2 - n1 = given \/ n2 - n1 = given - Turns
    <3>1. PICK k \in Int : n2 - n1 = given + Turns * k
      BY <2>4
    <3>2. Turns \in Nat \ {0} /\ -(2 * Turns) < Turns * k /\ Turns * k < Turns
      BY <1>1, <1>4, <2>2, <3>1, HalfTurnAssumption DEF Turns
    <3>3. k \in {-1, 0}
      BY <3>2, FewTurns
    <3> QED BY <1>1, <3>1, <3>2, <3>3
  <2> QED BY <1>1, <1>4, <2>1, <2>2, <2>5, HalfTurnAssumption
       DEF Rect, IsMade, IsPoint, Width, CrossesDateLine, Turns
<1>5. given >= Turns \/ given < Turns
  BY <1>1, HalfTurnAssumption DEF Turns
<1> QED BY <1>2, <1>3, <1>4, <1>5, GeoAssumption

(* Which longitudes a shape has.                                           *)
LEMMA LongitudesOf ==
  ASSUME NEW s, IsUsed(s), NEW v
  PROVE  v \in Longitudes(s) <=> v \in Circle /\ IsOn(s, v)
<1>1. CASE ~Geo
  BY <1>1, UsedFacts DEF Longitudes, IsOn, Circle, EasternEnd
<1>2. CASE Geo
  <2>1. ASSUME NEW x \in s.minX..EasternEnd(s)
        PROVE  NormLon(x) \in Circle /\ IsOn(s, NormLon(x))
    BY <1>2, <2>1, UsedFacts, NormLonOnce DEF IsOn, Circle, Turns, EasternEnd
  <2>2. ASSUME v \in Circle, IsOn(s, v)
        PROVE  \E x \in s.minX..EasternEnd(s) : v = NormLon(x)
    <3>1. v \in Int /\ -HalfTurn <= v /\ v < HalfTurn
      BY <1>2, <2>2, UsedFacts DEF Circle
    <3>2. NormLon(v) = v /\ NormLon(v + Turns) = v
      BY <3>1, NormLonOnce, UsedFacts DEF Turns
    <3>3. v \in s.minX..EasternEnd(s) \/ v + Turns \in s.minX..EasternEnd(s)
      BY <2>2, <3>1, UsedFacts DEF IsOn
    <3> QED BY <3>2, <3>3
  <2>3. Longitudes(s) = { NormLon(x) : x \in s.minX..EasternEnd(s) }
    BY <1>2 DEF Longitudes, EasternEnd
  <2> QED BY <2>1, <2>2, <2>3
<1> QED BY <1>1, <1>2

-----------------------------------------------------------------------------
(* What relate() has to say of two sets on an axis; they are equal when    *)
(* same holds.                                                             *)
Tells(rel, A, B, same) ==
  /\ rel \in Relations
  /\ rel = "DISJOINT" <=> A \cap B = {}
  /\ rel = "CONTAINS" => B \subseteq A
  /\ rel = "WITHIN"   => A \subseteq B
  /\ rel \in {"INTERSECTS", "WITHIN"}   => ~(B \subseteq A)
  /\ rel \in {"INTERSECTS", "CONTAINS"} => same \/ ~(A \subseteq B)

(* Ranges that do not wrap around.                                         *)
LEMMA RangesTell ==
  ASSUME NEW lo \in Int, NEW hi \in Int, NEW extLo \in Int, NEW extHi \in Int,
         lo <= hi, extLo <= extHi
  PROVE  Tells(RelateRange(lo, hi, extLo, extHi), lo..hi, extLo..extHi, lo = extLo /\ hi = extHi)
<1> DEFINE rel == RelateRange(lo, hi, extLo, extHi)
<1>1. /\ rel \in Relations
      /\ rel = "DISJOINT" <=> extLo > hi \/ extHi < lo
      /\ rel = "CONTAINS" => extLo >= lo /\ extHi <= hi
      /\ rel = "WITHIN" => extLo <= lo /\ extHi >= hi
      /\ rel \in {"INTERSECTS", "WITHIN"} => extLo < lo \/ extHi > hi
      /\ rel \in {"INTERSECTS", "CONTAINS"} =>
           (lo = extLo /\ hi = extHi) \/ lo < extLo \/ hi > extHi
  BY DEF RelateRange, Relations
<1>2. (lo..hi) \cap (extLo..extHi) = {} <=> extLo > hi \/ extHi < lo
  <2>1. extLo <= hi /\ extHi >= lo => lo \in extLo..extHi \/ extLo \in lo..hi
    OBVIOUS
  <2> QED BY <2>1
<1>3. extLo..extHi \subseteq lo..hi <=> extLo >= lo /\ extHi <= hi
  <2>1. extLo \in extLo..extHi /\ extHi \in extLo..extHi
    OBVIOUS
  <2> QED BY <2>1
<1>4. lo..hi \subseteq extLo..extHi <=> extLo <= lo /\ extHi >= hi
  <2>1. lo \in lo..hi /\ hi \in lo..hi
    OBVIOUS
  <2> QED BY <2>1
<1> QED BY <1>1, <1>2, <1>3, <1>4 DEF Tells

(* RelateTurned(), for ranges of longitude that begin at a and b and are   *)
(* v and w wide.                                                           *)
Whole(a, v) == IF v < Turns THEN a + v ELSE 3 * HalfTurn
Lies(a, v, x) == (a <= x /\ x <= a + v) \/ (a <= x + Turns /\ x + Turns <= a + v)
LonRange(a, v) ==
  /\ a \in -HalfTurn..(HalfTurn - 1)
  /\ v \in 0..Turns
  /\ v # Turns - 1
  /\ v = Turns => a = -HalfTurn

LEMMA TurnedDisjoint ==
  ASSUME NEW a \in Int, NEW v \in Int, NEW b \in Int, NEW w \in Int, LonRange(a, v), LonRange(b, w)
  PROVE  /\ RelateTurned(a, Whole(a, v), b, Whole(b, w)) = "DISJOINT" =>
              \A x \in -HalfTurn..(HalfTurn - 1) : ~(Lies(a, v, x) /\ Lies(b, w, x))
         /\ RelateTurned(a, Whole(a, v), b, Whole(b, w)) # "DISJOINT" =>
              Lies(a, v, b) \/ Lies(b, w, a)
BY HalfTurnAssumption DEF RelateTurned, RelateRange, Whole, Lies, LonRange, Turns

LEMMA TurnedContains ==
  ASSUME NEW a \in Int, NEW v \in Int, NEW b \in Int, NEW w \in Int, LonRange(a, v), LonRange(b, w)
  PROVE  /\ RelateTurned(a, Whole(a, v), b, Whole(b, w)) = "CONTAINS" =>
              \A x \in -HalfTurn..(HalfTurn - 1) : Lies(b, w, x) => Lies(a, v, x)
         /\ RelateTurned(a, Whole(a, v), b, Whole(b, w)) = "WITHIN" =>
              \A x \in -HalfTurn..(HalfTurn - 1) : Lies(a, v, x) => Lies(b, w, x)
BY HalfTurnAssumption DEF RelateTurned, RelateRange, Whole, Lies, LonRange, Turns

(* A longitude that shows that the range at b is not within the one at a:  *)
(* one of its ends, or the first after the end of the other.               *)
Once(x) == IF x < HalfTurn THEN x ELSE x - Turns
Outside(a, v, b, w) ==
  \E x \in {b, Once(b + w), Once(a + v + 1)} :
    x \in -HalfTurn..(HalfTurn - 1) /\ Lies(b, w, x) /\ ~Lies(a, v, x)

LEMMA TurnedOutside ==
  ASSUME NEW a \in Int, NEW v \in Int, NEW b \in Int, NEW w \in Int, LonRange(a, v), LonRange(b, w)
  PROVE  /\ RelateTurned(a, Whole(a, v), b, Whole(b, w)) \in {"INTERSECTS", "WITHIN"} =>
              Outside(a, v, b, w)
         /\ RelateTurned(a, Whole(a, v), b, Whole(b, w)) \in {"INTERSECTS", "CONTAINS"} =>
              (a = b /\ v = w) \/ Outside(b, w, a, v)
BY HalfTurnAssumption DEF RelateTurned, RelateRange, Whole, Lies, LonRange, Turns, Once, Outside

LEMMA LongitudesTell ==
  ASSUME NEW r, NEW s, IsUsed(r), IsUsed(s)
  PROVE  Tells(RelateXRange(r, s), Longitudes(r), Longitudes(s),
               r.minX = s.minX /\ Width(r) = Width(s))
<1> DEFINE rel == RelateXRange(r, s)
           a == r.minX
           v == Width(r)
           b == s.minX
           w == Width(s)
<1>1. CASE ~Geo
  <2>1. a <= r.maxX /\ b <= s.maxX /\ v = r.maxX - a /\ w = s.maxX - b
    BY <1>1, UsedFacts DEF EasternEnd
  <2>2. Longitudes(r) = a..r.maxX /\ Longitudes(s) = b..s.maxX
    BY <1>1, UsedFacts DEF Longitudes, EasternEnd
  <2>3. rel = RelateRange(a, r.maxX, b, s.maxX)
    BY <1>1 DEF RelateXRange
  <2>4. (a = b /\ v = w) <=> (a = b /\ r.maxX = s.maxX)
    BY <2>1, UsedFacts
  <2>5. Tells(rel, a..r.maxX, b..s.maxX, a = b /\ r.maxX = s.maxX)
    <3>1. a \in Int /\ r.maxX \in Int /\ b \in Int /\ s.maxX \in Int
      BY UsedFacts
    <3>2. Tells(RelateRange(a, r.maxX, b, s.maxX), a..r.maxX, b..s.maxX,
                a = b /\ r.maxX = s.maxX)
      BY <2>1, <3>1, RangesTell
    <3> QED BY <2>3, <3>2
  <2> QED BY <2>2, <2>4, <2>5
<1>2. CASE Geo
  <2> DEFINE World == -HalfTurn..(HalfTurn - 1)
  <2>1. a \in Int /\ v \in Int /\ b \in Int /\ w \in Int /\ LonRange(a, v) /\ LonRange(b, w)
    BY <1>2, UsedFacts DEF LonRange, Circle
  <2>2. rel = RelateTurned(a, Whole(a, v), b, Whole(b, w))
    BY <1>2 DEF RelateXRange, AscendingEnd, Whole, Turns
  <2>3. /\ Longitudes(r) = { x \in World : Lies(a, v, x) }
        /\ Longitudes(s) = { x \in World : Lies(b, w, x) }
    <3>1. \A x : x \in Longitudes(r) <=> x \in World /\ Lies(a, v, x)
      BY <1>2, LongitudesOf DEF Circle, IsOn, EasternEnd, Lies
    <3>2. \A x : x \in Longitudes(s) <=> x \in World /\ Lies(b, w, x)
      BY <1>2, LongitudesOf DEF Circle, IsOn, EasternEnd, Lies
    <3> QED BY <3>1, <3>2
  <2>4. a \in World /\ b \in World /\ Lies(a, v, a) /\ Lies(b, w, b)
    BY <2>1, HalfTurnAssumption DEF LonRange, Lies, Turns
  <2>5. rel \in Relations
    BY <2>2 DEF RelateTurned, RelateRange, Relations
  <2>6. rel = "DISJOINT" <=> Longitudes(r) \cap Longitudes(s) = {}
    BY <2>1, <2>2, <2>3, <2>4, TurnedDisjoint
  <2>7. /\ rel = "CONTAINS" => Longitudes(s) \subseteq Longitudes(r)
        /\ rel = "WITHIN" => Longitudes(r) \subseteq Longitudes(s)
    BY <2>1, <2>2, <2>3, TurnedContains
  <2>8. rel \in {"INTERSECTS", "WITHIN"} => ~(Longitudes(s) \subseteq Longitudes(r))
    <3>1. rel \in {"INTERSECTS", "WITHIN"} => Outside(a, v, b, w)
      BY <2>1, <2>2, TurnedOutside
    <3> QED BY <2>3, <3>1 DEF Outside
  <2>9. rel \in {"INTERSECTS", "CONTAINS"} =>
          (a = b /\ v = w) \/ ~(Longitudes(r) \subseteq Longitudes(s))
    <3>1. rel \in {"INTERSECTS", "CONTAINS"} => (a = b /\ v = w) \/ Outside(b, w, a, v)
      BY <2>1, <2>2, TurnedOutside
    <3> QED BY <2>3, <3>1 DEF Outside
  <2> QED BY <2>5, <2>6, <2>7, <2>8, <2>9 DEF Tells
<1> QED BY <1>1, <1>2

-----------------------------------------------------------------------------
(* The relations of two shapes.                                            *)

(* What relate() has to say of two shapes, as RelationsAreThoseOfPointSets *)
(* has it.                                                                 *)
TellsShapes(rel, r, s) ==
  /\ rel \in Relations
  /\ rel = "DISJOINT" <=> ~Touch(r, s)
  /\ rel = "CONTAINS" => Covers(r, s)
  /\ rel = "WITHIN" => Covers(s, r)
  /\ rel = "INTERSECTS" => \/ ~Covers(r, s) /\ ~Covers(s, r)
                           \/ r = s /\ IsPoint(r)

(* The same edges are the same longitudes.                                 *)
LEMMA SameEdges ==
  ASSUME NEW r, NEW s, IsUsed(r), IsUsed(s)
  PROVE  /\ r.minX = s.minX /\ r.maxX = s.maxX <=> r.minX = s.minX /\ Width(r) = Width(s)
         /\ r.minX = s.minX /\ r.maxX = s.maxX => Longitudes(r) = Longitudes(s)
         /\ r.minY = s.minY /\ r.maxY = s.maxY => Latitudes(r) = Latitudes(s)
<1>1. r.minX = s.minX /\ Width(r) = Width(s) => r.maxX = s.maxX
  BY HalfTurnAssumption, GeoAssumption
     DEF IsUsed, IsMade, Width, CrossesDateLine, IsPoint
<1>2. r.minX = s.minX /\ r.maxX = s.maxX => Width(r) = Width(s)
  BY DEF Width, CrossesDateLine
<1>3. r.minX = s.minX /\ Width(r) = Width(s) => Longitudes(r) = Longitudes(s)
  BY DEF Longitudes
<1> QED BY <1>1, <1>2, <1>3 DEF Latitudes

LEMMA RectsTell ==
  ASSUME NEW r, NEW s, IsUsed(r), IsUsed(s)
  PROVE  TellsShapes(RelateRects(r, s), r, s)
<1> DEFINE x == RelateXRange(r, s)
           y == RelateRange(r.minY, r.maxY, s.minY, s.maxY)
           sameX == r.minX = s.minX /\ r.maxX = s.maxX
           sameY == r.minY = s.minY /\ r.maxY = s.maxY
           rel == RelateAxes(x, y, r, s)
<1>1. RelateRects(r, s) = rel
  BY DEF RelateRects
<1>2. Tells(x, Longitudes(r), Longitudes(s), sameX)
  BY LongitudesTell, SameEdges
<1>3. Tells(y, Latitudes(r), Latitudes(s), sameY)
  <2>1. /\ r.minY \in Int /\ r.maxY \in Int /\ s.minY \in Int /\ s.maxY \in Int
        /\ r.minY <= r.maxY /\ s.minY <= s.maxY
    BY UsedFacts
  <2> QED BY <2>1, RangesTell DEF Latitudes
<1>4. /\ sameX => Longitudes(r) = Longitudes(s)
      /\ sameY => Latitudes(r) = Latitudes(s)
  BY SameEdges
<1>5. /\ x = "DISJOINT" \/ y = "DISJOINT" => rel = "DISJOINT"
      /\ x # "DISJOINT" /\ y # "DISJOINT" =>
           rel = IF x = y THEN x ELSE IF sameX THEN y ELSE IF sameY THEN x ELSE "INTERSECTS"
  BY DEF RelateAxes
<1> HIDE DEF x, y, sameX, sameY, rel
<1>6. rel \in Relations /\ (rel = "DISJOINT" <=> ~Touch(r, s))
  BY <1>2, <1>3, <1>5 DEF Tells, Touch, Relations
<1>7. /\ rel = "CONTAINS" => Covers(r, s)
      /\ rel = "WITHIN" => Covers(s, r)
  BY <1>2, <1>3, <1>4, <1>5 DEF Tells, Covers
<1>8. rel = "INTERSECTS" => ~Covers(r, s) /\ ~Covers(s, r)
  <2>1. ASSUME rel = "INTERSECTS", Covers(r, s)
        PROVE  FALSE
    BY <1>2, <1>3, <1>4, <1>5, <2>1 DEF Tells, Covers, Relations
  <2>2. ASSUME rel = "INTERSECTS", Covers(s, r)
        PROVE  FALSE
    BY <1>2, <1>3, <1>4, <1>5, <2>2 DEF Tells, Covers, Relations
  <2> QED BY <2>1, <2>2
<1> QED BY <1>1, <1>6, <1>7, <1>8 DEF TellsShapes

(* A point has one longitude and one latitude.                             *)
LEMMA PointsOfPoint ==
  ASSUME NEW p, IsUsed(p), IsPoint(p)
  PROVE  Longitudes(p) = {p.minX} /\ Latitudes(p) = {p.minY}
<1>1. p.maxY = p.minY /\ p.minY \in Int /\ p.minX \in Int /\ Width(p) = 0
  BY UsedFacts DEF IsUsed, IsMade
<1>2. Geo => NormLon(p.minX) = p.minX
  BY UsedFacts, NormLonOnce, HalfTurnAssumption DEF Circle
<1>3. p.minX..(p.minX + Width(p)) = {p.minX}
  BY <1>1
<1> QED BY <1>1, <1>2, <1>3 DEF Longitudes, Latitudes

(* How RectangleImpl.relate(Point) tells which longitudes a shape has.     *)
LEMMA LongitudesByEdges ==
  ASSUME NEW r, IsUsed(r), NEW v \in Circle
  PROVE  v \in Longitudes(r) <=> IF CrossesDateLine(r) THEN ~(v < r.minX /\ v > r.maxX)
                                                       ELSE ~(v < r.minX \/ v > r.maxX)
<1>1. v \in Longitudes(r) <=> IsOn(r, v)
  BY LongitudesOf
<1>2. v \in Int /\ (Geo => v \in -HalfTurn..(HalfTurn - 1))
  BY UsedFacts DEF Circle
<1> QED BY <1>1, <1>2, HalfTurnAssumption, GeoAssumption
     DEF IsUsed, IsMade, IsOn, EasternEnd, Width, CrossesDateLine, Turns

LEMMA RectPointTell ==
  ASSUME NEW r, NEW p, IsUsed(r), IsUsed(p), IsPoint(p)
  PROVE  TellsShapes(RelateRectPoint(r, p), r, p) /\ RelateRectPoint(r, p) \in {"DISJOINT", "CONTAINS"}
<1> DEFINE rel == RelateRectPoint(r, p)
<1>1. Longitudes(p) = {p.minX} /\ Latitudes(p) = {p.minY} /\ p.minX \in Circle
  BY PointsOfPoint, UsedFacts
<1>2. p.minY \in Latitudes(r) <=> ~(p.minY > r.maxY \/ p.minY < r.minY)
  BY UsedFacts DEF Latitudes
<1>3. rel = IF p.minX \in Longitudes(r) /\ p.minY \in Latitudes(r) THEN "CONTAINS" ELSE "DISJOINT"
  BY <1>1, <1>2, LongitudesByEdges DEF RelateRectPoint
<1> QED BY <1>1, <1>3 DEF TellsShapes, Covers, Touch, Relations

LEMMA TransposeTells ==
  ASSUME NEW r, NEW s, NEW rel \in {"DISJOINT", "CONTAINS"}, TellsShapes(rel, r, s)
  PROVE  TellsShapes(Transpose(rel), s, r)
BY DEF TellsShapes, Transpose, Touch, Relations

LEMMA PointsTell ==
  ASSUME NEW p, NEW q, IsUsed(p), IsUsed(q), IsPoint(p), IsPoint(q)
  PROVE  TellsShapes(IF p = q THEN "INTERSECTS" ELSE "DISJOINT", p, q)
<1>1. /\ Longitudes(p) = {p.minX} /\ Latitudes(p) = {p.minY}
      /\ Longitudes(q) = {q.minX} /\ Latitudes(q) = {q.minY}
  BY PointsOfPoint
<1>2. p = q <=> p.minX = q.minX /\ p.minY = q.minY
  <2>1. /\ p \in [kind : {"point", "rect"}, minX : Int, maxX : Int, minY : Int, maxY : Int]
        /\ q \in [kind : {"point", "rect"}, minX : Int, maxX : Int, minY : Int, maxY : Int]
        /\ p.kind = q.kind /\ p.minX = p.maxX /\ p.minY = p.maxY
        /\ q.minX = q.maxX /\ q.minY = q.maxY
    BY DEF IsUsed, IsMade, IsPoint
  <2> QED BY <2>1
<1> QED BY <1>1, <1>2 DEF TellsShapes, Touch, Covers, Relations

LEMMA RelateTells ==
  ASSUME NEW a, NEW b, IsUsed(a), IsUsed(b)
  PROVE  TellsShapes(Relate(a, b), a, b)
<1>1. CASE IsPoint(a) /\ IsPoint(b)
  BY <1>1, PointsTell DEF Relate
<1>2. CASE IsPoint(a) /\ ~IsPoint(b)
  BY <1>2, RectPointTell, TransposeTells DEF Relate
<1>3. CASE ~IsPoint(a) /\ IsPoint(b)
  BY <1>3, RectPointTell DEF Relate
<1>4. CASE ~IsPoint(a) /\ ~IsPoint(b)
  BY <1>4, RectsTell DEF Relate
<1> QED BY <1>1, <1>2, <1>3, <1>4

LEMMA RelateTransposes ==
  ASSUME NEW a, NEW b, IsUsed(a), IsUsed(b)
  PROVE  Relate(b, a) = Transpose(Relate(a, b)) \/ (Covers(a, b) /\ Covers(b, a))
<1>1. TellsShapes(Relate(a, b), a, b) /\ TellsShapes(Relate(b, a), b, a)
  BY RelateTells
<1>2. Touch(a, b) <=> Touch(b, a)
  BY DEF Touch
<1>3. a = b => (Covers(a, b) /\ Covers(b, a))
  BY DEF Covers
<1> QED BY <1>1, <1>2, <1>3 DEF TellsShapes, Transpose, Relations

(* The centre is a point that the context could have made, on the shape.   *)
LEMMA CenterTouches ==
  ASSUME NEW s, IsUsed(s)
  PROVE  /\ IsUsed(Center(s)) /\ IsPoint(Center(s))
         /\ Touch(s, Center(s)) /\ Relate(Center(s), s) # "DISJOINT"
<1> DEFINE c == Center(s)
           x == IF CrossesDateLine(s) THEN NormLon(MiddleX(s)) ELSE MiddleX(s)
           y == Height(s) \div 2 + s.minY
<1>1. CASE IsPoint(s)
  <2>1. c = s
    BY <1>1 DEF Center
  <2>2. s.minX \in Longitudes(s) /\ s.minY \in Latitudes(s)
    BY <1>1, PointsOfPoint
  <2>3. Touch(s, s)
    BY <2>2 DEF Touch
  <2>4. TellsShapes(Relate(s, s), s, s)
    BY RelateTells
  <2> QED BY <1>1, <2>1, <2>3, <2>4 DEF TellsShapes
<1>2. CASE ~IsPoint(s)
  <2>1. c = Point(x, y)
    BY <1>2 DEF Center
  <2>2. MiddleX(s) \in Int /\ s.minX <= MiddleX(s) /\ MiddleX(s) <= EasternEnd(s)
    BY UsedFacts DEF MiddleX, EasternEnd
  <2>3. y \in Latitudes(s)
    BY UsedFacts DEF Latitudes, Height
  <2>4. x \in Circle /\ IsOn(s, x)
    <3>1. CASE ~CrossesDateLine(s)
      <4>1. x = MiddleX(s) /\ x \in Int /\ IsOn(s, x)
        BY <2>2, <3>1 DEF IsOn
      <4>2. Geo => x \in -HalfTurn..(HalfTurn - 1)
        BY <2>2, <3>1, <4>1, UsedFacts, HalfTurnAssumption
           DEF IsUsed, IsMade, Width, MiddleX, CrossesDateLine, Turns
      <4> QED BY <4>1, <4>2 DEF Circle
    <3>2. CASE CrossesDateLine(s)
      <4>1. Geo
        BY <3>2, GeoAssumption DEF IsUsed, IsMade, CrossesDateLine
      <4>2. -HalfTurn <= MiddleX(s) /\ MiddleX(s) < 3 * HalfTurn
        BY <2>2, <4>1, UsedFacts, HalfTurnAssumption DEF Circle, EasternEnd, Turns
      <4>3. x = IF MiddleX(s) < HalfTurn THEN MiddleX(s) ELSE MiddleX(s) - Turns
        BY <2>2, <3>2, <4>2, NormLonOnce
      <4> QED BY <2>2, <4>1, <4>2, <4>3, UsedFacts DEF Circle, IsOn, Turns
    <3> QED BY <3>1, <3>2
  <2>5. IsUsed(c) /\ IsPoint(c) /\ c.minX = x /\ c.minY = y
    BY SMTT(20), <2>1, <2>3, <2>4, UsedFacts, HalfTurnAssumption
       DEF Point, IsUsed, IsMade, IsPoint, Circle, Latitudes, Width, CrossesDateLine
  <2>6. Longitudes(c) = {x} /\ Latitudes(c) = {y}
    BY <2>5, PointsOfPoint
  <2>7. x \in Longitudes(s)
    BY <2>4, LongitudesOf
  <2>8. Touch(s, c) /\ Touch(c, s)
    BY <2>3, <2>6, <2>7 DEF Touch
  <2>9. TellsShapes(Relate(c, s), c, s)
    BY <2>5, RelateTells
  <2> QED BY <2>5, <2>8, <2>9 DEF TellsShapes
<1> QED BY <1>1, <1>2

-----------------------------------------------------------------------------
(* Least and greatest elements.                                            *)

LEMMA LeastNatural ==
  ASSUME NEW T \in SUBSET Nat, T # {}
  PROVE  \E n \in T : \A m \in T : n <= m
<1>1. \E n \in T : \A m \in T : ~(<< m, n >> \in OpToRel(<, Nat))
  BY WFMin, NatLessThanWellFounded, Zenon
<1>2. PICK n \in T : \A m \in T : ~(<< m, n >> \in OpToRel(<, Nat))
  BY <1>1
<1>3. \A m \in T : << m, n >> \in OpToRel(<, Nat) <=> m < n
  BY <1>2 DEF OpToRel
<1>4. \A m \in T : ~(m < n)
  BY <1>2, <1>3, Zenon
<1>5. \A m \in T : m \in Nat /\ n \in Nat
  OBVIOUS
<1> QED BY <1>4, <1>5

(* A finite set of integers has a greatest element: a smallest one without *)
(* would have one after all when any element is put back.                  *)
LEMMA GreatestExists ==
  ASSUME NEW S \in SUBSET Int, IsFiniteSet(S), S # {}
  PROVE  \E x \in S : \A y \in S : x >= y
<1> DEFINE HasGreatest(U) == \E x \in U : \A y \in U : x >= y
           Without == { U \in SUBSET S : U # {} /\ ~HasGreatest(U) }
           Sizes == { Cardinality(U) : U \in Without }
<1>1. \A U \in SUBSET S : IsFiniteSet(U) /\ Cardinality(U) \in Nat
  BY FS_Subset, FS_CardinalityType
<1>2. SUFFICES ASSUME Without # {} PROVE FALSE
  OBVIOUS
<1>3. Sizes \in SUBSET Nat /\ Sizes # {}
  BY <1>1, <1>2
<1>4. PICK U \in Without : \A V \in Without : Cardinality(U) <= Cardinality(V)
  <2>1. PICK n \in Sizes : \A m \in Sizes : n <= m
    <3> HIDE DEF Sizes
    <3> QED BY <1>3, LeastNatural
  <2>2. \A V \in Without : Cardinality(V) \in Sizes
    OBVIOUS
  <2>3. PICK U \in Without : n = Cardinality(U)
    OBVIOUS
  <2> QED BY <2>1, <2>2, <2>3
<1>5. PICK x \in U : TRUE
  BY <1>4
<1> DEFINE V == U \ {x}
<1>6. x \in Int /\ U \in SUBSET S /\ V \in SUBSET S /\ V \subseteq Int /\ U = V \cup {x}
  BY <1>4, <1>5
<1>7. V \notin Without
  <2>1. Cardinality(V) = Cardinality(U) - 1 /\ Cardinality(U) \in Nat
    BY <1>1, <1>5, <1>6, FS_RemoveElement
  <2>2. V \in Without => Cardinality(U) <= Cardinality(V)
    BY <1>4
  <2>3. ~(Cardinality(U) <= Cardinality(V))
    BY <2>1
  <2> QED BY <2>2, <2>3
<1>8. CASE V = {}
  BY <1>4, <1>6, <1>8
<1>9. CASE V # {}
  <2>1. PICK m \in V : \A y \in V : m >= y
    BY <1>6, <1>7, <1>9
  <2>2. HasGreatest(U)
    <3>1. CASE m >= x
      BY <1>6, <2>1, <3>1
    <3>2. CASE x > m
      BY <1>6, <2>1, <3>2
    <3> QED BY <1>6, <2>1, <3>1, <3>2
  <2> QED BY <1>4, <2>2
<1> QED BY <1>8, <1>9

LEMMA MaxOf ==
  ASSUME NEW S \in SUBSET Int, IsFiniteSet(S), S # {}
  PROVE  Max(S) \in S /\ \A y \in S : Max(S) >= y
BY GreatestExists DEF Max

LEMMA MinOf ==
  ASSUME NEW S \in SUBSET Int, IsFiniteSet(S), S # {}
  PROVE  Min(S) \in S /\ \A y \in S : Min(S) <= y
<1> DEFINE f == [x \in S |-> -x]
           N == { -x : x \in S }
<1>1. N \in SUBSET Int /\ N # {}
  <2>1. \A x \in S : x \in Int /\ -x \in Int /\ -x \in N
    OBVIOUS
  <2> QED BY <2>1
<1>2. IsFiniteSet(N)
  <2>1. f \in Surjection(S, N)
    BY DEF Surjection
  <2> QED BY <2>1, FS_Surjection
<1>3. PICK m \in N : \A y \in N : m >= y
  BY <1>1, <1>2, GreatestExists
<1>4. \E x \in S : \A y \in S : x <= y
  <2>1. PICK x \in S : m = -x
    BY <1>3
  <2>2. ASSUME NEW y \in S PROVE x <= y
    <3>1. -y \in N /\ m >= -y
      BY <1>3
    <3> QED BY <2>1, <3>1
  <2> QED BY <2>2
<1> QED BY <1>4 DEF Min

-----------------------------------------------------------------------------
(* The order of terms is a total order.                                    *)
LEMMA LessTransitive ==
  ASSUME NEW s \in Seq(Nat), NEW t \in Seq(Nat), NEW u \in Seq(Nat), Less(s, t), Less(t, u)
  PROVE  Less(s, u)
<1>1. StartsWith(u, t) \/ Before(t, u)
  BY DEF Less
<1> QED BY <1>1, LessBefore, LessStartsWith

LEMMA LessTotal ==
  ASSUME NEW s \in Seq(Nat), NEW t \in Seq(Nat), s # t
  PROVE  Less(s, t) \/ Less(t, s)
<1>1. CASE StartsWith(s, t) \/ StartsWith(t, s)
  BY <1>1, StartsWithLess
<1>2. CASE ~StartsWith(s, t) /\ ~StartsWith(t, s)
  <2> DEFINE T == { k \in Nat : k >= 1 /\ k <= Len(s) /\ k <= Len(t) /\ s[k] # t[k] }
  <2>a. Len(s) \in Nat /\ Len(t) \in Nat
    OBVIOUS
  <2>1. T # {}
    <3>1. CASE Len(s) <= Len(t)
      <4>1. PICK k \in 1..Len(s) : t[k] # s[k]
        BY <1>2, <3>1 DEF StartsWith
      <4>2. k \in T
        BY <2>a, <3>1, <4>1
      <4> QED BY <4>2
    <3>2. CASE ~(Len(s) <= Len(t))
      <4>1. PICK k \in 1..Len(t) : s[k] # t[k]
        BY <1>2, <2>a, <3>2 DEF StartsWith
      <4>2. k \in T
        BY <2>a, <3>2, <4>1
      <4> QED BY <4>2
    <3> QED BY <3>1, <3>2
  <2>2. PICK k \in T : \A m \in T : k <= m
    <3> HIDE DEF T
    <3>1. T \in SUBSET Nat
      BY DEF T
    <3> QED BY <2>1, <3>1, LeastNatural
  <2>b. k \in Nat /\ k \in 1..Len(s) /\ k \in 1..Len(t) /\ s[k] \in Nat /\ t[k] \in Nat /\ s[k] # t[k]
    BY <2>a, ElementOfSeq
  <2>c. ASSUME NEW j \in 1..(k - 1) PROVE s[j] = t[j]
    <3>1. j \in Nat /\ j >= 1 /\ j <= Len(s) /\ j <= Len(t) /\ ~(k <= j)
      BY <2>a, <2>b
    <3> QED BY <2>2, <3>1
  <2>3. /\ k \in 1..Len(s) /\ k \in 1..Len(t) /\ s[k] \in Nat /\ t[k] \in Nat /\ s[k] # t[k]
        /\ \A j \in 1..(k - 1) : s[j] = t[j]
    BY <2>b, <2>c
  <2>4. s[k] < t[k] \/ t[k] < s[k]
    BY <2>3
  <2> QED BY <2>3, <2>4 DEF Less, Before
<1> QED BY <1>1, <1>2
=============================================================================
