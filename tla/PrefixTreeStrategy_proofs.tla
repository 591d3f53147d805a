---------------------- MODULE PrefixTreeStrategy_proofs ----------------------
(***************************************************************************)
(* Proofs about indexing.  First the quad tree: what the recursive         *)
(* definitions of QuadTree are, that cells nest and that sub-cells cover   *)
(* their cell, that getNodes() returns leaves that cover just the cells    *)
(* that a shape touches; then the token stream over such a list; then the  *)
(* threads that share the world cell.                                      *)
(***************************************************************************)
EXTENDS PrefixTreeStrategy, TokensAndShapes_proofs

(* Induction from 0 to n.                                                  *)
LEMMA CountUp ==
  ASSUME NEW n \in Nat, NEW T, 0 \in T, \A k \in 1..n : k - 1 \in T => k \in T
  PROVE  \A k \in 0..n : k \in T
<1> DEFINE Bad == { k \in 0..n : k \notin T }
<1>1. SUFFICES ASSUME Bad # {} PROVE FALSE
  OBVIOUS
<1>2. PICK m \in Bad : \A k \in Bad : m <= k
  <2>1. Bad \in SUBSET Nat
    OBVIOUS
  <2> HIDE DEF Bad
  <2> QED BY <1>1, <2>1, LeastNatural
<1>3. m \in 1..n /\ m - 1 \in 0..n /\ m - 1 \notin Bad
  BY <1>2
<1> QED BY <1>3

(* A function given by iteration exists.                                   *)
IsIterated(f, m, S, b, F) ==
  f \in [0..m -> S] /\ f[0] = b /\ \A k \in 1..m : f[k] = F[<< f[k - 1], k >>]

LEMMA Iterates ==
  ASSUME NEW S, NEW b \in S, NEW n \in Nat, NEW F \in [S \X (1..n) -> S]
  PROVE  \E f : IsIterated(f, n, S, b, F)
<1> DEFINE T == { m \in 0..n : \E f : IsIterated(f, m, S, b, F) }
<1>1. 0 \in T
  <2>1. IsIterated([k \in 0..0 |-> b], 0, S, b, F)
    BY DEF IsIterated
  <2>2. \E f : IsIterated(f, 0, S, b, F)
    BY <2>1
  <2> QED BY <2>2
<1>2. ASSUME NEW m \in 1..n, m - 1 \in T PROVE m \in T
  <2>1. PICK f : IsIterated(f, m - 1, S, b, F)
    BY <1>2
  <2>2. /\ f \in [0..(m - 1) -> S] /\ f[0] = b
        /\ \A k \in 1..(m - 1) : f[k] = F[<< f[k - 1], k >>]
    BY <2>1 DEF IsIterated
  <2> DEFINE last == F[<< f[m - 1], m >>]
             g == [k \in 0..m |-> IF k = m THEN last ELSE f[k]]
  <2>3. f[m - 1] \in S /\ last \in S
    BY <2>2
  <2>4. g \in [0..m -> S] /\ g[0] = b
    BY <2>2, <2>3
  <2>5. g[m] = F[<< g[m - 1], m >>]
    <3>1. g[m] = last /\ g[m - 1] = f[m - 1]
      <4> HIDE DEF last
      <4> QED OBVIOUS
    <3> QED BY <3>1
  <2>6. ASSUME NEW k \in 1..(m - 1)
        PROVE  g[k] = F[<< g[k - 1], k >>]
    <3>1. g[k] = f[k] /\ g[k - 1] = f[k - 1]
      OBVIOUS
    <3> QED BY <2>2, <3>1
  <2> HIDE DEF g
  <2>7. \A k \in 1..m : g[k] = F[<< g[k - 1], k >>]
    BY <2>5, <2>6
  <2>8. \E h : IsIterated(h, m, S, b, F)
    BY <2>4, <2>7 DEF IsIterated
  <2> QED BY <2>8
<1>3. \A k \in 0..n : k \in T
  <2> HIDE DEF T
  <2> QED BY <1>1, <1>2, CountUp
<1> QED BY <1>3

-----------------------------------------------------------------------------
(* The sizes of cells.                                                     *)

(* Halving as often as there are levels.                                   *)
LEMMA Halves ==
  ASSUME NEW b \in Int
  PROVE  \E f : /\ f \in [0..MaxLevels -> Int] /\ f[0] = b
                /\ \A k \in 1..MaxLevels : f[k] = f[k - 1] \div 2
                /\ f = [k \in 0..MaxLevels |-> IF k = 0 THEN b ELSE f[k - 1] \div 2]
<1> DEFINE F == [a \in Int \X (1..MaxLevels) |-> a[1] \div 2]
<1>1. F \in [Int \X (1..MaxLevels) -> Int] /\ MaxLevels \in Nat
  BY MaxLevelsAssumption
<1>2. \A x \in Int : \A k \in 1..MaxLevels : F[<< x, k >>] = x \div 2
  OBVIOUS
<1> HIDE DEF F
<1>3. PICK f : IsIterated(f, MaxLevels, Int, b, F)
  BY <1>1, Iterates
<1>4. f \in [0..MaxLevels -> Int] /\ f[0] = b /\ \A k \in 1..MaxLevels : f[k - 1] \in Int
  BY <1>1, <1>3 DEF IsIterated
<1>5. \A k \in 1..MaxLevels : f[k] = f[k - 1] \div 2
  BY <1>2, <1>3, <1>4 DEF IsIterated
<1>6. f = [k \in 0..MaxLevels |-> IF k = 0 THEN b ELSE f[k - 1] \div 2]
  BY <1>4, <1>5
<1> QED BY <1>4, <1>5, <1>6

LEMMA LevelsDefined ==
  /\ LevelW \in [0..MaxLevels -> Int] /\ LevelW[0] = 2 * HalfTurn
  /\ LevelH \in [0..MaxLevels -> Int] /\ LevelH[0] = HalfTurn
  /\ \A n \in 1..MaxLevels : LevelW[n] = LevelW[n - 1] \div 2 /\ LevelH[n] = LevelH[n - 1] \div 2
<1>1. HalfTurn \in Int /\ 2 * HalfTurn \in Int /\ MaxLevels \in Nat
  BY HalfTurnAssumption, MaxLevelsAssumption
<1>2. \E f : f = [k \in 0..MaxLevels |-> IF k = 0 THEN 2 * HalfTurn ELSE f[k - 1] \div 2]
  BY <1>1, Halves
<1>3. \E f : f = [k \in 0..MaxLevels |-> IF k = 0 THEN HalfTurn ELSE f[k - 1] \div 2]
  BY <1>1, Halves
<1>4. /\ LevelW = [k \in 0..MaxLevels |-> IF k = 0 THEN 2 * HalfTurn ELSE LevelW[k - 1] \div 2]
      /\ LevelH = [k \in 0..MaxLevels |-> IF k = 0 THEN HalfTurn ELSE LevelH[k - 1] \div 2]
  BY <1>2, <1>3 DEF LevelW, LevelH
<1>5. /\ DOMAIN LevelW = 0..MaxLevels /\ DOMAIN LevelH = 0..MaxLevels
      /\ \A k \in 0..MaxLevels : /\ LevelW[k] = IF k = 0 THEN 2 * HalfTurn ELSE LevelW[k - 1] \div 2
                                /\ LevelH[k] = IF k = 0 THEN HalfTurn ELSE LevelH[k - 1] \div 2
  BY <1>4, Zenon
<1>6. LevelW[0] = 2 * HalfTurn /\ LevelH[0] = HalfTurn
  BY <1>1, <1>5
<1>7. \A n \in 1..MaxLevels : LevelW[n] = LevelW[n - 1] \div 2 /\ LevelH[n] = LevelH[n - 1] \div 2
  BY <1>1, <1>5
<1> DEFINE T == { n \in 0..MaxLevels : LevelW[n] \in Int /\ LevelH[n] \in Int }
<1>8. 0 \in T
  BY <1>1, <1>6
<1>9. ASSUME NEW n \in 1..MaxLevels, n - 1 \in T PROVE n \in T
  BY <1>7, <1>9
<1>10. \A n \in 0..MaxLevels : n \in T
  <2> HIDE DEF T
  <2> QED BY <1>1, <1>8, <1>9, CountUp
<1>11. LevelW \in [0..MaxLevels -> Int] /\ LevelH \in [0..MaxLevels -> Int]
  BY <1>4, <1>5, <1>10, Zenon
<1> QED BY <1>6, <1>7, <1>11

(* Every level has half the sizes of the one above.                        *)
LEMMA LevelSizes ==
  ASSUME NEW n \in 0..MaxLevels
  PROVE  /\ LevelW[n] \in Nat /\ LevelH[n] \in Nat
         /\ LevelH[n] >= 2 /\ LevelW[n] = 2 * LevelH[n]
         /\ n = 0 => LevelH[n] = HalfTurn
         /\ n > 0 => /\ LevelH[n - 1] = 2 * LevelH[n] /\ LevelW[n - 1] = 2 * LevelW[n]
                     /\ LevelW[n] <= HalfTurn
<1> DEFINE T == { k \in 0..MaxLevels :
                    /\ LevelH[k] >= 2 /\ LevelW[k] = 2 * LevelH[k] /\ LevelH[k] <= HalfTurn
                    /\ k > 0 => /\ LevelH[k - 1] = 2 * LevelH[k] /\ LevelW[k - 1] = 2 * LevelW[k]
                                /\ LevelW[k] <= HalfTurn }
<1>1. \A k \in 0..MaxLevels : LevelW[k] \in Int /\ LevelH[k] \in Int /\ LevelH[k] % 2 = 0
  BY LevelsDefined, QuadAssumption
<1>2. MaxLevels \in Nat /\ 0 \in 0..MaxLevels /\ LevelH[0] = HalfTurn /\ LevelW[0] = 2 * HalfTurn
  BY MaxLevelsAssumption, LevelsDefined
<1>3. 0 \in T
  BY <1>1, <1>2, HalfTurnAssumption
<1>4. ASSUME NEW k \in 1..MaxLevels, k - 1 \in T PROVE k \in T
  <2>1. LevelW[k] = LevelW[k - 1] \div 2 /\ LevelH[k] = LevelH[k - 1] \div 2 /\ k - 1 \in 0..MaxLevels
    BY <1>2, LevelsDefined
  <2>2. LevelH[k - 1] >= 2 /\ LevelW[k - 1] = 2 * LevelH[k - 1] /\ LevelH[k - 1] <= HalfTurn
    BY <1>4
  <2>3. LevelH[k - 1] = 2 * LevelH[k] /\ LevelW[k] = LevelH[k - 1]
    BY <1>1, <2>1, <2>2
  <2>4. LevelH[k] >= 2
    BY <1>1, <2>2, <2>3
  <2>5. LevelW[k - 1] = 2 * LevelW[k] /\ LevelW[k] = 2 * LevelH[k]
        /\ LevelH[k] <= HalfTurn /\ LevelW[k] <= HalfTurn
    BY <1>1, <1>2, <2>2, <2>3, <2>4, HalfTurnAssumption
  <2> QED BY <1>2, <2>3, <2>4, <2>5
<1>5. \A k \in 0..MaxLevels : k \in T
  <2> HIDE DEF T
  <2> QED BY <1>2, <1>3, <1>4, CountUp
<1> QED BY <1>1, <1>2, <1>5

-----------------------------------------------------------------------------
(* The corners of cells.                                                   *)

(* Adding up the numbers of d.                                             *)
IsSum(f, n, b, d) ==
  f \in [0..n -> Int] /\ f[0] = b /\ \A k \in 1..n : f[k] = f[k - 1] + d[k]

LEMMA Sums ==
  ASSUME NEW b \in Int, NEW n \in Nat, NEW d \in [1..n -> Int]
  PROVE  \E f : IsSum(f, n, b, d)
<1> DEFINE F == [a \in Int \X (1..n) |-> a[1] + d[a[2]]]
<1>1. F \in [Int \X (1..n) -> Int]
  OBVIOUS
<1>2. \A x \in Int : \A k \in 1..n : F[<< x, k >>] = x + d[k]
  OBVIOUS
<1> HIDE DEF F
<1>3. PICK f : IsIterated(f, n, Int, b, F)
  BY <1>1, Iterates
<1>4. f \in [0..n -> Int] /\ f[0] = b /\ \A k \in 1..n : f[k - 1] \in Int
  BY <1>3 DEF IsIterated
<1>5. \A k \in 1..n : f[k] = f[k - 1] + d[k]
  BY <1>2, <1>3, <1>4 DEF IsIterated
<1> QED BY <1>4, <1>5 DEF IsSum

(* What a choice adds to the corner.                                       *)
StepX(i, level) == IF i \in {2, 4} THEN LevelW[level] ELSE 0
StepY(i, level) == IF i \in {1, 2} THEN LevelH[level] ELSE 0

LEMMA CornersDefined ==
  ASSUME NEW c \in Seq(1..Arity), Len(c) <= MaxLevels
  PROVE  /\ \E f : /\ IsSum(f, Len(c), -HalfTurn, [k \in 1..Len(c) |-> StepX(c[k], k)])
                   /\ CornerX(c) = f[Len(c)]
         /\ \E f : /\ IsSum(f, Len(c), -(HalfTurn \div 2), [k \in 1..Len(c) |-> StepY(c[k], k)])
                   /\ CornerY(c) = f[Len(c)]
<1>1. Len(c) \in Nat /\ -HalfTurn \in Int /\ -(HalfTurn \div 2) \in Int
  BY HalfTurnAssumption
<1>2. \A k \in 1..Len(c) : StepX(c[k], k) \in Int /\ StepY(c[k], k) \in Int
  <2>1. \A k \in 1..Len(c) : k \in 0..MaxLevels
    BY <1>1, MaxLevelsAssumption
  <2>2. \A k \in 0..MaxLevels : LevelW[k] \in Int /\ LevelH[k] \in Int
    BY LevelsDefined
  <2> QED BY <2>1, <2>2 DEF StepX, StepY
<1>3. \E f : /\ IsSum(f, Len(c), -HalfTurn, [k \in 1..Len(c) |-> StepX(c[k], k)])
            /\ CornerX(c) = f[Len(c)]
  <2> DEFINE x[n \in 0..Len(c)] ==
               IF n = 0 THEN -HalfTurn ELSE x[n - 1] + (IF c[n] \in {2, 4} THEN LevelW[n] ELSE 0)
             d == [k \in 1..Len(c) |-> StepX(c[k], k)]
  <2>1. d \in [1..Len(c) -> Int]
    BY <1>2
  <2>2. \A k \in 1..Len(c) : d[k] = (IF c[k] \in {2, 4} THEN LevelW[k] ELSE 0)
    BY DEF StepX
  <2> HIDE DEF d
  <2>3. PICK f : IsSum(f, Len(c), -HalfTurn, d)
    BY <1>1, <2>1, Sums
  <2>4. f = [k \in 0..Len(c) |-> IF k = 0 THEN -HalfTurn
                                 ELSE f[k - 1] + (IF c[k] \in {2, 4} THEN LevelW[k] ELSE 0)]
    <3>1. \A k \in 1..Len(c) : f[k] = f[k - 1] + (IF c[k] \in {2, 4} THEN LevelW[k] ELSE 0)
      BY <2>2, <2>3 DEF IsSum
    <3>2. f \in [0..Len(c) -> Int] /\ f[0] = -HalfTurn
      BY <2>3 DEF IsSum
    <3> QED BY <1>1, <3>1, <3>2
  <2>5. x = [k \in 0..Len(c) |-> IF k = 0 THEN -HalfTurn
                                 ELSE x[k - 1] + (IF c[k] \in {2, 4} THEN LevelW[k] ELSE 0)]
    BY <2>4
  <2>6. CornerX(c) = x[Len(c)]
    BY DEF CornerX
  <2> HIDE DEF x
  <2>7. \A k \in 0..Len(c) : x[k] = IF k = 0 THEN -HalfTurn
                                    ELSE x[k - 1] + (IF c[k] \in {2, 4} THEN LevelW[k] ELSE 0)
    BY <2>5, Zenon
  <2> DEFINE T == { k \in 0..Len(c) : x[k] = f[k] }
  <2>8. 0 \in T
    BY <1>1, <2>3, <2>7 DEF IsSum
  <2>9. ASSUME NEW k \in 1..Len(c), k - 1 \in T PROVE k \in T
    BY <2>2, <2>3, <2>7, <2>9 DEF IsSum
  <2>10. \A k \in 0..Len(c) : k \in T
    <3> HIDE DEF T
    <3> QED BY <1>1, <2>8, <2>9, CountUp
  <2>11. x[Len(c)] = f[Len(c)]
    BY <1>1, <2>10
  <2> QED BY <2>3, <2>6, <2>11 DEF d
<1>4. \E f : /\ IsSum(f, Len(c), -(HalfTurn \div 2), [k \in 1..Len(c) |-> StepY(c[k], k)])
            /\ CornerY(c) = f[Len(c)]
  <2> DEFINE y[n \in 0..Len(c)] ==
               IF n = 0 THEN -(HalfTurn \div 2) ELSE y[n - 1] + (IF c[n] \in {1, 2} THEN LevelH[n] ELSE 0)
             d == [k \in 1..Len(c) |-> StepY(c[k], k)]
  <2>1. d \in [1..Len(c) -> Int]
    BY <1>2
  <2>2. \A k \in 1..Len(c) : d[k] = (IF c[k] \in {1, 2} THEN LevelH[k] ELSE 0)
    BY DEF StepY
  <2> HIDE DEF d
  <2>3. PICK f : IsSum(f, Len(c), -(HalfTurn \div 2), d)
    BY <1>1, <2>1, Sums
  <2>4. f = [k \in 0..Len(c) |-> IF k = 0 THEN -(HalfTurn \div 2)
                                 ELSE f[k - 1] + (IF c[k] \in {1, 2} THEN LevelH[k] ELSE 0)]
    <3>1. \A k \in 1..Len(c) : f[k] = f[k - 1] + (IF c[k] \in {1, 2} THEN LevelH[k] ELSE 0)
      BY <2>2, <2>3 DEF IsSum
    <3>2. f \in [0..Len(c) -> Int] /\ f[0] = -(HalfTurn \div 2)
      BY <2>3 DEF IsSum
    <3> QED BY <1>1, <3>1, <3>2
  <2>5. y = [k \in 0..Len(c) |-> IF k = 0 THEN -(HalfTurn \div 2)
                                 ELSE y[k - 1] + (IF c[k] \in {1, 2} THEN LevelH[k] ELSE 0)]
    BY <2>4
  <2>6. CornerY(c) = y[Len(c)]
    BY DEF CornerY
  <2> HIDE DEF y
  <2>7. \A k \in 0..Len(c) : y[k] = IF k = 0 THEN -(HalfTurn \div 2)
                                    ELSE y[k - 1] + (IF c[k] \in {1, 2} THEN LevelH[k] ELSE 0)
    BY <2>5, Zenon
  <2> DEFINE T == { k \in 0..Len(c) : y[k] = f[k] }
  <2>8. 0 \in T
    BY <1>1, <2>3, <2>7 DEF IsSum
  <2>9. ASSUME NEW k \in 1..Len(c), k - 1 \in T PROVE k \in T
    BY <2>2, <2>3, <2>7, <2>9 DEF IsSum
  <2>10. \A k \in 0..Len(c) : k \in T
    <3> HIDE DEF T
    <3> QED BY <1>1, <2>8, <2>9, CountUp
  <2>11. y[Len(c)] = f[Len(c)]
    BY <1>1, <2>10
  <2> QED BY <2>3, <2>6, <2>11 DEF d
<1> QED BY <1>3, <1>4

LEMMA SumsAgree ==
  ASSUME NEW n \in Nat, NEW d, NEW e, NEW f, NEW g,
         f[0] = g[0], \A k \in 1..n : d[k] = e[k],
         \A k \in 1..n : f[k] = f[k - 1] + d[k], \A k \in 1..n : g[k] = g[k - 1] + e[k]
  PROVE  f[n] = g[n]
<1> DEFINE T == { k \in 0..n : f[k] = g[k] }
<1>1. 0 \in T
  OBVIOUS
<1>2. ASSUME NEW k \in 1..n, k - 1 \in T PROVE k \in T
  BY <1>2
<1>3. \A k \in 0..n : k \in T
  <2> HIDE DEF T
  <2> QED BY <1>1, <1>2, CountUp
<1> QED BY <1>3

(* One more choice.                                                        *)
LEMMA OneMoreStep ==
  ASSUME NEW n \in Nat, NEW b, NEW d, NEW e, NEW f, NEW g,
         IsSum(f, n, b, d), IsSum(g, n + 1, b, e), \A k \in 1..n : d[k] = e[k]
  PROVE  f[n] \in Int /\ g[n + 1] = f[n] + e[n + 1]
<1>1. \A k \in 1..n : f[k] = f[k - 1] + d[k] /\ g[k] = g[k - 1] + e[k]
  BY DEF IsSum
<1>2. f[0] = g[0] /\ f[n] \in Int /\ g[n + 1] = g[n] + e[n + 1]
  BY DEF IsSum
<1>3. f[n] = g[n]
  BY <1>1, <1>2, SumsAgree
<1> QED BY <1>2, <1>3

LEMMA CornerOfSubCell ==
  ASSUME NEW c \in Seq(1..Arity), Len(c) < MaxLevels, NEW i \in 1..Arity
  PROVE  /\ CornerX(c) \in Int /\ CornerY(c) \in Int
         /\ CornerX(Append(c, i)) = CornerX(c) + StepX(i, Len(c) + 1)
         /\ CornerY(Append(c, i)) = CornerY(c) + StepY(i, Len(c) + 1)
<1> DEFINE a == Append(c, i)
           n == Len(c)
<1>1. /\ a \in Seq(1..Arity) /\ Len(a) = n + 1 /\ n \in Nat /\ Len(a) <= MaxLevels /\ Len(c) <= MaxLevels
      /\ a[n + 1] = i /\ \A k \in 1..n : a[k] = c[k]
  BY MaxLevelsAssumption
<1> HIDE DEF a
<1>2. CornerX(c) \in Int /\ CornerX(a) = CornerX(c) + StepX(i, n + 1)
  <2> DEFINE d == [k \in 1..Len(c) |-> StepX(c[k], k)]
             e == [k \in 1..Len(a) |-> StepX(a[k], k)]
  <2>1. PICK f : IsSum(f, Len(c), -HalfTurn, d) /\ CornerX(c) = f[Len(c)]
    BY <1>1, CornersDefined
  <2>2. PICK g : IsSum(g, Len(a), -HalfTurn, e) /\ CornerX(a) = g[Len(a)]
    BY <1>1, CornersDefined
  <2>3. e[n + 1] = StepX(i, n + 1) /\ \A k \in 1..n : d[k] = e[k]
    BY <1>1
  <2> HIDE DEF d, e
  <2> QED BY <1>1, <2>1, <2>2, <2>3, OneMoreStep
<1>3. CornerY(c) \in Int /\ CornerY(a) = CornerY(c) + StepY(i, n + 1)
  <2> DEFINE d == [k \in 1..Len(c) |-> StepY(c[k], k)]
             e == [k \in 1..Len(a) |-> StepY(a[k], k)]
  <2>1. PICK f : IsSum(f, Len(c), -(HalfTurn \div 2), d) /\ CornerY(c) = f[Len(c)]
    BY <1>1, CornersDefined
  <2>2. PICK g : IsSum(g, Len(a), -(HalfTurn \div 2), e) /\ CornerY(a) = g[Len(a)]
    BY <1>1, CornersDefined
  <2>3. e[n + 1] = StepY(i, n + 1) /\ \A k \in 1..n : d[k] = e[k]
    BY <1>1
  <2> HIDE DEF d, e
  <2> QED BY <1>1, <2>1, <2>2, <2>3, OneMoreStep
<1> QED BY <1>2, <1>3 DEF a

-----------------------------------------------------------------------------
(* The tree of cells, the world included.                                  *)
Tree == { c \in Seq(1..Arity) : Len(c) <= MaxLevels }

LEMMA TreeFacts ==
  ASSUME NEW c \in Tree
  PROVE  /\ c \in Seq(1..Arity) /\ c \in Seq(Nat) /\ Len(c) \in 0..MaxLevels
         /\ Len(c) = 0 <=> c = WorldCell
         /\ Len(c) > 0 <=> c \in Cells
         /\ \A i \in 1..Len(c) : c[i] \in 1..Arity
<1>1. c \in Seq(1..Arity) /\ Len(c) \in 0..MaxLevels
  BY MaxLevelsAssumption DEF Tree
<1>2. \A i \in 1..Len(c) : c[i] \in 1..Arity
  BY <1>1, ElementOfSeq
<1>3. c \in Seq(Nat)
  <2>1. 1..Arity \subseteq Nat
    BY ArityAssumption
  <2> QED BY <1>1, <2>1, SeqMonotonic
<1>4. Len(c) = 0 <=> c = WorldCell
  BY <1>1, EmptySeq DEF WorldCell
<1> QED BY <1>1, <1>2, <1>3, <1>4, MaxLevelsAssumption DEF Cells

LEMMA FirstOnes ==
  ASSUME NEW S, NEW c \in Seq(S), NEW n \in 0..Len(c)
  PROVE  /\ SubSeq(c, 1, n) \in Seq(S) /\ Len(SubSeq(c, 1, n)) = n
         /\ \A k \in 1..n : SubSeq(c, 1, n)[k] = c[k]
<1>1. \A i \in 1..n : c[i] \in S
  BY ElementOfSeq
<1>2. n \in Int /\ n - 1 + 1 = n /\ \A k \in 1..n : k \in Int /\ 1 + k - 1 = k
  OBVIOUS
<1>3. SubSeq(c, 1, n) \in Seq(S) /\ Len(SubSeq(c, 1, n)) = (IF 1 <= n THEN n - 1 + 1 ELSE 0)
      /\ \A k \in 1..(n - 1 + 1) : SubSeq(c, 1, n)[k] = c[1 + k - 1]
  BY <1>1, <1>2, SubSeqProperties
<1> QED BY <1>2, <1>3

LEMMA CellsAreInTree ==
  Cells \subseteq Tree /\ WorldCell \in Tree
BY MaxLevelsAssumption DEF Cells, Tree, WorldCell

LEMMA SubCellInTree ==
  ASSUME NEW c \in Tree, Len(c) < MaxLevels, NEW i \in 1..Arity
  PROVE  /\ Append(c, i) \in Tree /\ Append(c, i) \in Cells
         /\ Len(Append(c, i)) = Len(c) + 1
         /\ Append(c, i)[Len(c) + 1] = i
         /\ \A k \in 1..Len(c) : Append(c, i)[k] = c[k]
         /\ StartsWith(Append(c, i), c)
<1> DEFINE a == Append(c, i)
<1>1. c \in Seq(1..Arity) /\ Len(c) \in Nat
  BY TreeFacts
<1>2. /\ a \in Seq(1..Arity) /\ Len(a) = Len(c) + 1 /\ a[Len(c) + 1] = i
      /\ \A k \in 1..Len(c) : a[k] = c[k]
  BY <1>1
<1> HIDE DEF a
<1> QED BY <1>1, <1>2, MaxLevelsAssumption DEF Tree, Cells, StartsWith, a

LEMMA ParentFacts ==
  ASSUME NEW c \in Tree, Len(c) > 0
  PROVE  LET p == SubSeq(c, 1, Len(c) - 1) IN
         /\ p \in Tree /\ Len(p) = Len(c) - 1 /\ Len(p) < MaxLevels
         /\ c[Len(c)] \in 1..Arity /\ c = Append(p, c[Len(c)])
<1> DEFINE p == SubSeq(c, 1, Len(c) - 1)
           a == Append(p, c[Len(c)])
<1>1. c \in Seq(1..Arity) /\ Len(c) \in 1..MaxLevels /\ \A i \in 1..Len(c) : c[i] \in 1..Arity
  BY TreeFacts, MaxLevelsAssumption
<1>2. p \in Seq(1..Arity) /\ Len(p) = Len(c) - 1 /\ \A k \in 1..(Len(c) - 1) : p[k] = c[k]
  <2>1. Len(c) - 1 \in 0..Len(c)
    BY <1>1
  <2> QED BY <1>1, <2>1, FirstOnes
<1>3. c[Len(c)] \in 1..Arity
  BY <1>1
<1> HIDE DEF p
<1>4. a \in Seq(1..Arity) /\ Len(a) = Len(c) /\ a[Len(c)] = c[Len(c)]
      /\ \A k \in 1..(Len(c) - 1) : a[k] = c[k]
  BY <1>1, <1>2, <1>3
<1>5. \A k \in 1..Len(c) : a[k] = c[k]
  BY <1>1, <1>4
<1>6. a = c
  <2> HIDE DEF a
  <2> QED BY <1>1, <1>4, <1>5, SeqEqual
<1> QED BY <1>1, <1>2, <1>3, <1>6, MaxLevelsAssumption DEF Tree, p

(* What holds of the world, and of the sub-cells of a cell it holds of,    *)
(* holds of every cell.                                                    *)
LEMMA TreeInduction ==
  ASSUME NEW T, WorldCell \in T,
         \A c \in Tree : c \in T /\ Len(c) < MaxLevels => \A i \in 1..Arity : Append(c, i) \in T
  PROVE  Tree \subseteq T
<1> DEFINE L == { n \in 0..MaxLevels : \A c \in Tree : Len(c) = n => c \in T }
<1>1. 0 \in L
  BY TreeFacts, MaxLevelsAssumption
<1>2. ASSUME NEW n \in 1..MaxLevels, n - 1 \in L PROVE n \in L
  <2>1. ASSUME NEW c \in Tree, Len(c) = n PROVE c \in T
    <3> DEFINE p == SubSeq(c, 1, Len(c) - 1)
    <3>1. /\ p \in Tree /\ Len(p) = n - 1 /\ Len(p) < MaxLevels
          /\ c[Len(c)] \in 1..Arity /\ c = Append(p, c[Len(c)])
      BY <2>1, ParentFacts
    <3> HIDE DEF p
    <3>2. p \in T
      BY <1>2, <3>1
    <3> QED BY <3>1, <3>2
  <2> QED BY <2>1
<1>3. \A n \in 0..MaxLevels : n \in L
  <2> HIDE DEF L
  <2> QED BY <1>1, <1>2, CountUp, MaxLevelsAssumption
<1> QED BY <1>3, TreeFacts

LEMMA WorldCorner ==
  CornerX(WorldCell) = -HalfTurn /\ CornerY(WorldCell) = -(HalfTurn \div 2)
<1>1. WorldCell \in Seq(1..Arity) /\ Len(WorldCell) = 0 /\ 0 <= MaxLevels
  BY MaxLevelsAssumption DEF WorldCell
<1> QED BY <1>1, CornersDefined DEF IsSum

LEMMA HalfStays ==
  ASSUME NEW x \in Int, NEW w \in Int, NEW lo \in Int, NEW hi \in Int, NEW step \in {0, w},
         w >= 0, lo <= x, x + 2 * w <= hi
  PROVE  lo <= x + step /\ x + step + w <= hi
OBVIOUS

(* No cell reaches out of the world.                                       *)
LEMMA CellsLieInWorld ==
  ASSUME NEW c \in Tree
  PROVE  /\ CornerX(c) \in Int /\ CornerY(c) \in Int
         /\ -HalfTurn <= CornerX(c) /\ CornerX(c) + LevelW[Len(c)] <= HalfTurn
         /\ -(HalfTurn \div 2) <= CornerY(c)
         /\ CornerY(c) + LevelH[Len(c)] <= HalfTurn \div 2
<1> DEFINE In(d) == /\ CornerX(d) \in Int /\ CornerY(d) \in Int
                    /\ -HalfTurn <= CornerX(d) /\ CornerX(d) + LevelW[Len(d)] <= HalfTurn
                    /\ -(HalfTurn \div 2) <= CornerY(d)
                    /\ CornerY(d) + LevelH[Len(d)] <= HalfTurn \div 2
           T == { d \in Tree : In(d) }
<1>1. WorldCell \in T
  <2>1. LevelW[0] = 2 * HalfTurn /\ LevelH[0] = HalfTurn /\ HalfTurn % 2 = 0 /\ Len(WorldCell) = 0
    BY LevelsDefined, QuadAssumption, MaxLevelsAssumption DEF WorldCell
  <2> QED BY <2>1, WorldCorner, CellsAreInTree, HalfTurnAssumption
<1>2. ASSUME NEW d \in Tree, In(d), Len(d) < MaxLevels, NEW i \in 1..Arity
      PROVE  Append(d, i) \in T
  <2> DEFINE a == Append(d, i)
             n == Len(d)
  <2>1. a \in Tree /\ Len(a) = n + 1 /\ n \in 0..MaxLevels /\ n + 1 \in 0..MaxLevels /\ d \in Seq(1..Arity)
    BY ZenonT(60), <1>2, SubCellInTree, TreeFacts
  <2>2. CornerX(a) = CornerX(d) + StepX(i, n + 1) /\ CornerY(a) = CornerY(d) + StepY(i, n + 1)
    BY <1>2, <2>1, CornerOfSubCell
  <2>3. LevelW[n] = 2 * LevelW[n + 1] /\ LevelH[n] = 2 * LevelH[n + 1]
        /\ LevelW[n + 1] \in Nat /\ LevelH[n + 1] \in Nat
    <3>1. n + 1 > 0 /\ n + 1 - 1 = n
      BY <2>1
    <3> QED BY <2>1, <3>1, LevelSizes
  <2>4. StepX(i, n + 1) \in {0, LevelW[n + 1]} /\ StepY(i, n + 1) \in {0, LevelH[n + 1]}
    BY DEF StepX, StepY
  <2> HIDE DEF a, n
  <2>5. HalfTurn \div 2 \in Int /\ HalfTurn \in Int
    BY HalfTurnAssumption
  <2>6. In(a)
    <3>1. LevelW[n + 1] \in Int /\ LevelH[n + 1] \in Int /\ LevelW[n + 1] >= 0 /\ LevelH[n + 1] >= 0
          /\ -HalfTurn \in Int /\ -(HalfTurn \div 2) \in Int
      BY <2>3, <2>5
    <3>2. CornerX(d) + 2 * LevelW[n + 1] <= HalfTurn /\ CornerY(d) + 2 * LevelH[n + 1] <= HalfTurn \div 2
      BY <1>2, <2>3 DEF n
    <3>3. -HalfTurn <= CornerX(a) /\ CornerX(a) + LevelW[n + 1] <= HalfTurn
      BY SMTT(20), <1>2, <2>2, <2>4, <2>5, <3>1, <3>2, HalfStays
    <3>4. -(HalfTurn \div 2) <= CornerY(a) /\ CornerY(a) + LevelH[n + 1] <= HalfTurn \div 2
      BY SMTT(20), <1>2, <2>2, <2>4, <2>5, <3>1, <3>2, HalfStays
    <3>5. CornerX(a) \in Int /\ CornerY(a) \in Int
      BY <1>2, <2>2, <2>4, <3>1
    <3> QED BY <2>1, <3>3, <3>4, <3>5
  <2> QED BY <2>1, <2>6 DEF a
<1>3. Tree \subseteq T
  <2>1. \A d \in Tree : d \in T /\ Len(d) < MaxLevels => \A i \in 1..Arity : Append(d, i) \in T
    BY <1>2
  <2> HIDE DEF T
  <2> QED BY <1>1, <2>1, TreeInduction
<1> QED BY <1>3

-----------------------------------------------------------------------------
(* The points of cells.                                                    *)
CellLon(c) ==
  { v \in Circle :
      \/ CornerX(c) <= v /\ v <= CornerX(c) + LevelW[Len(c)]
      \/ Geo /\ CornerX(c) <= v + Turns /\ v + Turns <= CornerX(c) + LevelW[Len(c)] }
CellLat(c) == CornerY(c)..(CornerY(c) + LevelH[Len(c)])

CellTouches(c, s) ==
  Longitudes(s) \cap CellLon(c) # {} /\ Latitudes(s) \cap CellLat(c) # {}

LEMMA FunctionIsSeq ==
  ASSUME NEW S, NEW n \in Nat, NEW f \in [1..n -> S]
  PROVE  f \in Seq(S) /\ Len(f) = n
<1>1. f \in Seq(S)
  BY SeqDef
<1>2. DOMAIN f = 1..n /\ DOMAIN f = 1..Len(f) /\ Len(f) \in Nat
  BY <1>1, LenProperties
<1>3. Len(f) = n
  BY <1>2
<1> QED BY <1>1, <1>3

LEMMA AllCellsAreCells == AllCells = Cells
<1>1. ASSUME NEW c \in Cells PROVE c \in AllCells
  <2> DEFINE n == Len(c)
             f == [i \in 1..MaxLevels |-> IF i <= n THEN c[i] ELSE 1]
  <2>1. c \in Seq(1..Arity) /\ n \in 1..MaxLevels /\ MaxLevels \in Nat /\ 1 \in 1..Arity
    BY MaxLevelsAssumption, ArityAssumption DEF Cells
  <2>2. \A i \in 1..n : c[i] \in 1..Arity
    BY <2>1, ElementOfSeq
  <2>3. f \in [1..MaxLevels -> 1..Arity] /\ \A i \in 1..n : f[i] = c[i]
    BY <2>1, <2>2
  <2> HIDE DEF f
  <2>4. f \in Seq(1..Arity) /\ Len(f) = MaxLevels
    BY <2>1, <2>3, FunctionIsSeq
  <2>5. SubSeq(f, 1, n) \in Seq(1..Arity) /\ Len(SubSeq(f, 1, n)) = n
        /\ \A k \in 1..n : SubSeq(f, 1, n)[k] = f[k]
    <3>1. n \in 0..Len(f)
      BY <2>1, <2>4
    <3> QED BY <2>4, <3>1, FirstOnes
  <2>6. SubSeq(f, 1, n) = c
    BY <2>1, <2>3, <2>5, SeqEqual
  <2>7. c \in { SubSeq(g, 1, n) : g \in [1..MaxLevels -> 1..Arity] }
    BY <2>3, <2>6
  <2> QED BY <2>1, <2>7, Zenon DEF AllCells
<1>2. ASSUME NEW c \in AllCells PROVE c \in Cells
  <2>1. PICK n \in 1..MaxLevels, f \in [1..MaxLevels -> 1..Arity] : c = SubSeq(f, 1, n)
    BY <1>2 DEF AllCells
  <2>2. f \in Seq(1..Arity) /\ Len(f) = MaxLevels
    BY FunctionIsSeq, MaxLevelsAssumption
  <2>3. n \in 0..Len(f)
    BY <2>2, MaxLevelsAssumption
  <2>4. c \in Seq(1..Arity) /\ Len(c) = n
    BY <2>1, <2>2, <2>3, FirstOnes
  <2> QED BY <2>4 DEF Cells
<1> QED BY <1>1, <1>2

LEMMA EasternEdge ==
  ASSUME NEW x \in Int, NEW w \in Nat, -HalfTurn <= x, x + w <= HalfTurn
  PROVE  NormLon(x + w) = IF x + w < HalfTurn THEN x + w ELSE x + w - Turns
BY HalfTurnAssumption DEF NormLon, Turns

LEMMA ShapeOfCell ==
  ASSUME NEW c \in Cells
  PROVE  /\ IsUsed(CellShape(c)) /\ ~IsPoint(CellShape(c))
         /\ Longitudes(CellShape(c)) = CellLon(c) /\ Latitudes(CellShape(c)) = CellLat(c)
<1> DEFINE x == CornerX(c)
           y == CornerY(c)
           w == LevelW[Len(c)]
           h == LevelH[Len(c)]
           s == CellShape(c)
<1>1. c \in Tree /\ Len(c) \in 0..MaxLevels /\ Len(c) > 0
  BY CellsAreInTree, TreeFacts, CellsAreSequences
<1>2. /\ x \in Int /\ y \in Int /\ w \in Nat /\ h \in Nat
      /\ -HalfTurn <= x /\ x + w <= HalfTurn
      /\ h >= 2 /\ w = 2 * h /\ w <= HalfTurn
  BY <1>1, CellsLieInWorld, LevelSizes
<1>3. s = MakeRect(x, x + w, y, y + h)
  BY AllCellsAreCells DEF CellShape, CellShapes, CellRect
<1> HIDE DEF x, y, w, h
<1>4. s = IF Geo THEN Rect(x, IF x + w < HalfTurn THEN x + w ELSE x + w - Turns, y, y + h)
                 ELSE Rect(x, x + w, y, y + h)
  <2>1. Width(Rect(x, x + w, y, y + h)) = w
    BY <1>2 DEF Width, Rect, CrossesDateLine
  <2>2. w < 2 * HalfTurn
    BY <1>2, HalfTurnAssumption
  <2>3. NormLon(x) = x
    BY <1>2, NormLonOnce, HalfTurnAssumption
  <2>4. NormLon(x + w) = IF x + w < HalfTurn THEN x + w ELSE x + w - Turns
    BY <1>2, EasternEdge
  <2>5. ~(w >= 2 * HalfTurn)
    BY <1>2, <2>2, HalfTurnAssumption
  <2>6. CASE Geo
    <3>1. s = Rect(NormLon(x), NormLon(x + w), y, y + h)
      BY <1>3, <2>1, <2>5, <2>6 DEF MakeRect
    <3> QED BY <2>3, <2>4, <2>6, <3>1
  <2>7. CASE ~Geo
    BY <1>3, <2>7 DEF MakeRect
  <2> QED BY <2>6, <2>7
<1>5. s.minX = x /\ Width(s) = w /\ s.minY = y /\ s.maxY = y + h /\ s.kind = "rect"
  BY <1>2, <1>4, GeoAssumption, HalfTurnAssumption DEF Rect, Width, CrossesDateLine, Turns
<1>6. IsMade(s)
  BY <1>2, <1>4, GeoAssumption, HalfTurnAssumption DEF IsMade, IsPoint, Rect, Turns
<1>7. IsUsed(s) /\ ~IsPoint(s)
  BY <1>2, <1>5, <1>6, HalfTurnAssumption DEF IsUsed, IsPoint
<1>8. \A v : v \in Longitudes(s) <=> v \in Circle /\ IsOn(s, v)
  BY <1>7, LongitudesOf
<1>9. Longitudes(s) = CellLon(c)
  BY <1>5, <1>8 DEF CellLon, IsOn, EasternEnd, x, w
<1>10. Latitudes(s) = CellLat(c)
  BY <1>5 DEF Latitudes, CellLat, y, h
<1> QED BY <1>7, <1>9, <1>10

(* What relate() says of a cell and a shape.                               *)
LEMMA RelateCell ==
  ASSUME NEW c \in Cells, NEW s, IsUsed(s)
  PROVE  /\ Relate(CellShape(c), s) = "DISJOINT" <=> ~CellTouches(c, s)
         /\ Relate(s, CellShape(c)) = "DISJOINT" <=> ~CellTouches(c, s)
         /\ WithinShape(c, s) => CellLon(c) \subseteq Longitudes(s) /\ CellLat(c) \subseteq Latitudes(s)
<1>1. /\ IsUsed(CellShape(c))
      /\ Longitudes(CellShape(c)) = CellLon(c) /\ Latitudes(CellShape(c)) = CellLat(c)
  BY ShapeOfCell
<1>2. TellsShapes(Relate(CellShape(c), s), CellShape(c), s)
      /\ TellsShapes(Relate(s, CellShape(c)), s, CellShape(c))
  BY <1>1, RelateTells
<1> QED BY <1>1, <1>2 DEF TellsShapes, Touch, Covers, CellTouches, WithinShape

(* The sub-cells of a cell are parts of it and make up the whole.          *)
LEMMA SubCellsTile ==
  ASSUME NEW c \in Tree, Len(c) < MaxLevels
  PROVE  /\ \A i \in 1..Arity : /\ CellLon(Append(c, i)) \subseteq CellLon(c)
                                /\ CellLat(Append(c, i)) \subseteq CellLat(c)
         /\ \A v \in CellLon(c) : \A w \in CellLat(c) :
              \E i \in 1..Arity : v \in CellLon(Append(c, i)) /\ w \in CellLat(Append(c, i))
<1> DEFINE n == Len(c)
           x == CornerX(c)
           y == CornerY(c)
           hw == LevelW[n + 1]
           hh == LevelH[n + 1]
<1>1. n \in 0..MaxLevels /\ n + 1 \in 0..MaxLevels /\ n + 1 > 0 /\ n + 1 - 1 = n
  BY TreeFacts, MaxLevelsAssumption
<1>2. /\ hw \in Nat /\ hh \in Nat /\ LevelW[n] = 2 * hw /\ LevelH[n] = 2 * hh
      /\ x \in Int /\ y \in Int
  BY <1>1, LevelSizes, CellsLieInWorld
<1>3. ASSUME NEW i \in 1..Arity
      PROVE  /\ CornerX(Append(c, i)) = x + (IF i \in {2, 4} THEN hw ELSE 0)
             /\ CornerY(Append(c, i)) = y + (IF i \in {1, 2} THEN hh ELSE 0)
             /\ Len(Append(c, i)) = n + 1
  BY CornerOfSubCell, SubCellInTree, TreeFacts DEF StepX, StepY
<1>4. Circle \subseteq Int /\ Turns \in Int
  BY HalfTurnAssumption DEF Circle, Turns
<1>5. \A v : v \in CellLon(c) <=> /\ v \in Circle
                                  /\ \/ x <= v /\ v <= x + 2 * hw
                                     \/ Geo /\ x <= v + Turns /\ v + Turns <= x + 2 * hw
  BY <1>2 DEF CellLon
<1>6. \A w : w \in CellLat(c) <=> w \in Int /\ y <= w /\ w <= y + 2 * hh
  BY <1>2 DEF CellLat
<1>7. \A i \in 1..Arity : \A v :
        v \in CellLon(Append(c, i)) <=>
          /\ v \in Circle
          /\ LET a == x + (IF i \in {2, 4} THEN hw ELSE 0) IN
             \/ a <= v /\ v <= a + hw
             \/ Geo /\ a <= v + Turns /\ v + Turns <= a + hw
  BY <1>3 DEF CellLon
<1>8. \A i \in 1..Arity : \A w :
        w \in CellLat(Append(c, i)) <=>
          LET a == y + (IF i \in {1, 2} THEN hh ELSE 0) IN
          w \in Int /\ a <= w /\ w <= a + hh
  <2>1. ASSUME NEW i \in 1..Arity, NEW w
        PROVE  w \in CellLat(Append(c, i)) <=>
                 LET a == y + (IF i \in {1, 2} THEN hh ELSE 0) IN
                 w \in Int /\ a <= w /\ w <= a + hh
    <3> DEFINE a == y + (IF i \in {1, 2} THEN hh ELSE 0)
    <3>1. a \in Int /\ CellLat(Append(c, i)) = a..(a + hh)
      BY <1>2, <1>3 DEF CellLat
    <3> QED BY <1>2, <3>1
  <2> QED BY <2>1
<1> HIDE DEF n, x, y, hw, hh
<1>9. ASSUME NEW i \in 1..Arity
      PROVE  CellLon(Append(c, i)) \subseteq CellLon(c) /\ CellLat(Append(c, i)) \subseteq CellLat(c)
  <2>1. ASSUME NEW v \in CellLon(Append(c, i)) PROVE v \in CellLon(c)
    <3>1. v \in Int /\ Turns \in Int /\ v \in Circle
      BY <1>4, <1>7
    <3>2. CASE i \in {2, 4}
      <4>1. \/ x + hw <= v /\ v <= x + hw + hw
            \/ Geo /\ x + hw <= v + Turns /\ v + Turns <= x + hw + hw
        BY <1>7, <3>2
      <4> QED BY <1>2, <1>5, <3>1, <4>1
    <3>3. CASE i \notin {2, 4}
      <4>1. \/ x + 0 <= v /\ v <= x + 0 + hw
            \/ Geo /\ x + 0 <= v + Turns /\ v + Turns <= x + 0 + hw
        BY <1>7, <3>3
      <4> QED BY <1>2, <1>5, <3>1, <4>1
    <3> QED BY <3>2, <3>3
  <2>2. ASSUME NEW w \in CellLat(Append(c, i)) PROVE w \in CellLat(c)
    <3>1. CASE i \in {1, 2}
      <4>1. w \in Int /\ y + hh <= w /\ w <= y + hh + hh
        BY <1>8, <3>1
      <4> QED BY <1>2, <1>6, <4>1
    <3>2. CASE i \notin {1, 2}
      <4>1. w \in Int /\ y + 0 <= w /\ w <= y + 0 + hh
        BY <1>8, <3>2
      <4> QED BY <1>2, <1>6, <4>1
    <3> QED BY <3>1, <3>2
  <2> QED BY <2>1, <2>2
<1>10. ASSUME NEW v \in CellLon(c), NEW w \in CellLat(c)
       PROVE  \E i \in 1..Arity : v \in CellLon(Append(c, i)) /\ w \in CellLat(Append(c, i))
  <2>1. 1..Arity = {1, 2, 3, 4}
    BY QuadAssumption
  <2>2. \E right \in BOOLEAN : \A i \in 1..Arity : (i \in {2, 4}) = right => v \in CellLon(Append(c, i))
    <3>1. PICK u \in {v, v + Turns} : x <= u /\ u <= x + 2 * hw /\ (u # v => Geo)
      BY <1>5
    <3>2. v \in Circle /\ u \in Int
      <4>1. v \in Circle
        BY <1>5
      <4>2. v \in Int /\ v + Turns \in Int
        BY <1>4, <4>1
      <4> QED BY <4>1, <4>2
    <3>3. CASE x + hw <= u
      <4>1. ASSUME NEW i \in 1..Arity, i \in {2, 4} PROVE v \in CellLon(Append(c, i))
        <5>1. x + hw <= u /\ u <= x + hw + hw
          BY <1>2, <3>1, <3>2, <3>3
        <5> QED BY <1>7, <3>1, <3>2, <4>1, <5>1
      <4> QED BY <4>1
    <3>4. CASE ~(x + hw <= u)
      <4>1. ASSUME NEW i \in 1..Arity, i \notin {2, 4} PROVE v \in CellLon(Append(c, i))
        <5>1. x + 0 <= u /\ u <= x + 0 + hw
          BY <1>2, <3>1, <3>2, <3>4
        <5> QED BY <1>7, <3>1, <3>2, <4>1, <5>1
      <4> QED BY <4>1
    <3> QED BY <3>3, <3>4
  <2>3. \E upper \in BOOLEAN : \A i \in 1..Arity : (i \in {1, 2}) = upper => w \in CellLat(Append(c, i))
    <3> DEFINE upper == y + hh <= w
    <3>1. upper \in BOOLEAN
      OBVIOUS
    <3>2. \A i \in 1..Arity : (i \in {1, 2}) = upper => w \in CellLat(Append(c, i))
      BY <1>2, <1>6, <1>8, <2>1
    <3> QED BY <3>1, <3>2
  <2>4. \A right \in BOOLEAN : \A upper \in BOOLEAN :
          \E i \in 1..Arity : (i \in {2, 4}) = right /\ (i \in {1, 2}) = upper
    <3>1. /\ 1 \in 1..Arity /\ 2 \in 1..Arity /\ 3 \in 1..Arity /\ 4 \in 1..Arity
          /\ (1 \in {2, 4}) = FALSE /\ (1 \in {1, 2}) = TRUE
          /\ (2 \in {2, 4}) = TRUE /\ (2 \in {1, 2}) = TRUE
          /\ (3 \in {2, 4}) = FALSE /\ (3 \in {1, 2}) = FALSE
          /\ (4 \in {2, 4}) = TRUE /\ (4 \in {1, 2}) = FALSE
      BY <2>1
    <3> QED BY <3>1
  <2>5. PICK right \in BOOLEAN : \A i \in 1..Arity : (i \in {2, 4}) = right => v \in CellLon(Append(c, i))
    BY <2>2
  <2>6. PICK upper \in BOOLEAN : \A i \in 1..Arity : (i \in {1, 2}) = upper => w \in CellLat(Append(c, i))
    BY <2>3
  <2> QED BY <2>4, <2>5, <2>6
<1> QED BY <1>9, <1>10

(* Cells and their beginnings.                                             *)
LEMMA Begins ==
  ASSUME NEW x \in Tree, NEW c \in Tree
  PROVE  /\ StartsWith(x, x) /\ StartsWith(x, WorldCell)
         /\ \A b \in Tree : StartsWith(x, c) /\ StartsWith(c, b) => StartsWith(x, b)
         /\ StartsWith(x, c) /\ Len(x) <= Len(c) => x = c
         /\ StartsWith(x, c) /\ Len(x) > Len(c) =>
              /\ Len(c) < MaxLevels
              /\ \E i \in 1..Arity : StartsWith(x, Append(c, i))
<1>1. x \in Seq(Nat) /\ c \in Seq(Nat) /\ Len(x) \in 0..MaxLevels /\ Len(c) \in 0..MaxLevels
  BY TreeFacts
<1>2. StartsWith(x, x) /\ StartsWith(x, WorldCell)
  BY <1>1 DEF StartsWith, WorldCell
<1>3. ASSUME NEW b \in Tree, StartsWith(x, c), StartsWith(c, b) PROVE StartsWith(x, b)
  <2>1. Len(b) \in Nat
    BY TreeFacts
  <2> QED BY <1>1, <1>3, <2>1 DEF StartsWith
<1>4. ASSUME StartsWith(x, c), Len(x) <= Len(c) PROVE x = c
  <2>1. Len(x) = Len(c) /\ \A i \in 1..Len(x) : x[i] = c[i]
    BY <1>1, <1>4 DEF StartsWith
  <2> QED BY <1>1, <2>1, SeqEqual
<1>5. ASSUME StartsWith(x, c), Len(x) > Len(c)
      PROVE  Len(c) < MaxLevels /\ \E i \in 1..Arity : StartsWith(x, Append(c, i))
  <2> DEFINE n == Len(c)
             i == x[n + 1]
             a == Append(c, i)
  <2>1. n < MaxLevels /\ n \in Nat /\ n + 1 \in 1..Len(x) /\ \A k \in 1..n : x[k] = c[k]
    BY <1>1, <1>5, MaxLevelsAssumption DEF StartsWith
  <2>2. i \in 1..Arity
    BY <2>1, TreeFacts
  <2>3. Len(a) = n + 1 /\ a[n + 1] = i /\ \A k \in 1..n : a[k] = c[k]
    BY <2>1, <2>2, SubCellInTree
  <2> HIDE DEF a
  <2>4. \A k \in 1..(n + 1) : x[k] = a[k]
    BY <2>1, <2>3
  <2>5. StartsWith(x, a)
    BY <2>1, <2>3, <2>4 DEF StartsWith
  <2> QED BY <2>1, <2>2, <2>5 DEF a
<1> QED BY <1>2, <1>3, <1>4, <1>5

(* Whatever is below one sub-cell comes before all below a later one.      *)
LEMMA SiblingsInOrder ==
  ASSUME NEW c \in Tree, Len(c) < MaxLevels, NEW i \in 1..Arity, NEW j \in 1..Arity, i < j,
         NEW a \in Tree, NEW b \in Tree, StartsWith(a, Append(c, i)), StartsWith(b, Append(c, j))
  PROVE  Less(a, b)
<1> DEFINE n == Len(c)
<1>1. n \in Nat /\ Len(a) \in Nat /\ Len(b) \in Nat
  BY TreeFacts
<1>2. /\ Len(Append(c, i)) = n + 1 /\ Append(c, i)[n + 1] = i
      /\ Len(Append(c, j)) = n + 1 /\ Append(c, j)[n + 1] = j
      /\ \A k \in 1..n : Append(c, i)[k] = c[k] /\ Append(c, j)[k] = c[k]
  BY SubCellInTree
<1>3. /\ n + 1 <= Len(a) /\ n + 1 <= Len(b) /\ a[n + 1] = i /\ b[n + 1] = j
      /\ \A k \in 1..n : a[k] = c[k] /\ b[k] = c[k]
  BY <1>1, <1>2 DEF StartsWith
<1>4. n + 1 \in 1..Len(a) /\ a[n + 1] < b[n + 1] /\ \A k \in 1..(n + 1 - 1) : a[k] = b[k]
  BY <1>1, <1>3
<1> QED BY <1>3, <1>4 DEF Less, Before

LEMMA AncestorOfSubCell ==
  ASSUME NEW d \in Tree, Len(d) < MaxLevels, NEW i \in 1..Arity, NEW c \in Tree,
         StartsWith(Append(d, i), c)
  PROVE  c = Append(d, i) \/ StartsWith(d, c)
<1> DEFINE a == Append(d, i)
           n == Len(d)
<1>1. a \in Tree /\ Len(a) = n + 1 /\ (\A k \in 1..n : a[k] = d[k]) /\ n \in Nat /\ Len(c) \in Nat
  BY SubCellInTree, TreeFacts
<1> HIDE DEF a
<1>2. Len(c) <= n + 1 /\ \A k \in 1..Len(c) : a[k] = c[k]
  BY <1>1 DEF StartsWith, a
<1>3. CASE Len(c) <= n
  BY <1>1, <1>2, <1>3 DEF StartsWith
<1>4. CASE Len(c) = n + 1
  <2>1. Len(a) <= Len(c) /\ StartsWith(a, c)
    BY <1>1, <1>4 DEF a
  <2> QED BY <1>1, <2>1, Begins DEF a
<1> QED BY <1>1, <1>2, <1>3, <1>4

(* A cell lies in all cells that its name begins with.                     *)
LEMMA CellsNest ==
  ASSUME NEW d \in Tree, NEW c \in Tree, StartsWith(d, c)
  PROVE  CellLon(d) \subseteq CellLon(c) /\ CellLat(d) \subseteq CellLat(c)
<1> DEFINE In(x, y) == CellLon(x) \subseteq CellLon(y) /\ CellLat(x) \subseteq CellLat(y)
           T == { x \in Tree : \A y \in Tree : StartsWith(x, y) => In(x, y) }
<1>1. WorldCell \in T
  <2>1. ASSUME NEW y \in Tree, StartsWith(WorldCell, y) PROVE y = WorldCell
    BY <2>1, CellsAreInTree, TreeFacts DEF StartsWith
  <2> QED BY <2>1, CellsAreInTree
<1>2. ASSUME NEW x \in Tree, x \in T, Len(x) < MaxLevels, NEW i \in 1..Arity
      PROVE  Append(x, i) \in T
  <2>1. Append(x, i) \in Tree /\ In(Append(x, i), x)
    BY <1>2, SubCellInTree, SubCellsTile
  <2>2. ASSUME NEW y \in Tree, StartsWith(Append(x, i), y) PROVE In(Append(x, i), y)
    <3>1. y = Append(x, i) \/ StartsWith(x, y)
      BY <1>2, <2>2, AncestorOfSubCell
    <3> QED BY <1>2, <2>1, <2>2, <3>1
  <2> HIDE DEF In
  <2> QED BY <2>1, <2>2
<1>3. Tree \subseteq T
  <2>1. \A x \in Tree : x \in T /\ Len(x) < MaxLevels => \A i \in 1..Arity : Append(x, i) \in T
    BY <1>2
  <2> HIDE DEF T
  <2> QED BY <1>1, <2>1, TreeInduction
<1> QED BY <1>3

LEMMA CellsHavePoints ==
  ASSUME NEW c \in Tree
  PROVE  CellLon(c) # {} /\ CellLat(c) # {}
<1>1. /\ CornerX(c) \in Int /\ CornerY(c) \in Int
      /\ -HalfTurn <= CornerX(c) /\ CornerX(c) + LevelW[Len(c)] <= HalfTurn
      /\ LevelW[Len(c)] \in Nat /\ LevelH[Len(c)] \in Nat /\ LevelH[Len(c)] >= 2
      /\ LevelW[Len(c)] = 2 * LevelH[Len(c)]
  BY CellsLieInWorld, LevelSizes, TreeFacts
<1>2. CornerX(c) \in Circle
  BY <1>1, HalfTurnAssumption, GeoAssumption DEF Circle
<1>3. CornerX(c) <= CornerX(c) /\ CornerX(c) <= CornerX(c) + LevelW[Len(c)]
      /\ CornerY(c) \in CornerY(c)..(CornerY(c) + LevelH[Len(c)])
  BY <1>1
<1> QED BY <1>2, <1>3 DEF CellLon, CellLat

LEMMA TouchesUp ==
  ASSUME NEW d \in Tree, NEW c \in Tree, StartsWith(d, c), NEW s, CellTouches(d, s)
  PROVE  CellTouches(c, s)
BY CellsNest DEF CellTouches

LEMMA TouchesDown ==
  ASSUME NEW c \in Tree, Len(c) < MaxLevels, NEW s, CellTouches(c, s)
  PROVE  \E i \in 1..Arity : CellTouches(Append(c, i), s)
<1>1. PICK v \in Longitudes(s), w \in Latitudes(s) : v \in CellLon(c) /\ w \in CellLat(c)
  BY DEF CellTouches
<1>2. PICK i \in 1..Arity : v \in CellLon(Append(c, i)) /\ w \in CellLat(Append(c, i))
  BY <1>1, SubCellsTile
<1> QED BY <1>1, <1>2 DEF CellTouches

LEMMA TouchesWithin ==
  ASSUME NEW c \in Cells, NEW s, IsUsed(s), WithinShape(c, s), NEW d \in Tree, StartsWith(d, c)
  PROVE  CellTouches(d, s)
<1>1. CellLon(c) \subseteq Longitudes(s) /\ CellLat(c) \subseteq Latitudes(s)
  BY RelateCell
<1>2. CellLon(d) \subseteq CellLon(c) /\ CellLat(d) \subseteq CellLat(c)
  BY CellsAreInTree, CellsNest
<1> QED BY <1>1, <1>2, CellsHavePoints DEF CellTouches

LEMMA TouchesWorld ==
  ASSUME NEW s, IsOfWorld(s)
  PROVE  IsUsed(s) /\ CellTouches(WorldCell, s)
<1>1. IsUsed(s)
  BY GeoAssumption DEF IsOfWorld, IsUsed
<1>2. /\ LevelW[0] = 2 * HalfTurn /\ LevelH[0] = HalfTurn /\ HalfTurn % 2 = 0
      /\ HalfTurn \in Nat \ {0} /\ Len(WorldCell) = 0
  <2>1. LevelW[0] = 2 * HalfTurn /\ LevelH[0] = HalfTurn /\ HalfTurn % 2 = 0 /\ Len(WorldCell) = 0
    BY LevelsDefined, QuadAssumption, MaxLevelsAssumption DEF WorldCell
  <2> QED BY <2>1, HalfTurnAssumption
<1>3. s.minX \in Circle /\ s.minX \in Longitudes(s)
  <2>1. IsOn(s, s.minX) /\ s.minX \in Circle
    BY <1>1, UsedFacts DEF IsOn, EasternEnd
  <2> QED BY <1>1, <2>1, LongitudesOf
<1>4. s.minX \in CellLon(WorldCell)
  <2>1. s.minX \in Int /\ -HalfTurn <= s.minX /\ s.minX <= HalfTurn
    BY SMTT(20), <1>1, <1>2, GeoAssumption, UsedFacts DEF IsOfWorld, IsMade, Circle
  <2>2. -HalfTurn + 2 * HalfTurn = HalfTurn
    BY <1>2
  <2> QED BY <1>2, <1>3, <2>1, <2>2, WorldCorner DEF CellLon
<1>5. s.minY \in Latitudes(s) /\ s.minY \in CellLat(WorldCell)
  <2>1. s.minY \in Int /\ s.maxY \in Int /\ s.minY <= s.maxY
        /\ -(HalfTurn \div 2) <= s.minY /\ s.maxY <= HalfTurn \div 2
    BY <1>1, UsedFacts DEF IsOfWorld
  <2>2. -(HalfTurn \div 2) + HalfTurn = HalfTurn \div 2
    BY <1>2
  <2> QED BY <1>2, <2>1, <2>2, WorldCorner DEF Latitudes, CellLat
<1> QED BY <1>1, <1>3, <1>4, <1>5 DEF CellTouches

LEMMA ShapesLieInWorld ==
  ASSUME NEW s, IsOfWorld(s)
  PROVE  Longitudes(s) \subseteq CellLon(WorldCell) /\ Latitudes(s) \subseteq CellLat(WorldCell)
<1>1. IsUsed(s)
  BY TouchesWorld
<1>2. LevelW[0] = 2 * HalfTurn /\ LevelH[0] = HalfTurn /\ HalfTurn % 2 = 0 /\ Len(WorldCell) = 0
  BY LevelsDefined, QuadAssumption, MaxLevelsAssumption DEF WorldCell
<1>3. HalfTurn \in Nat /\ -HalfTurn + 2 * HalfTurn = HalfTurn
      /\ -(HalfTurn \div 2) + HalfTurn = HalfTurn \div 2
  BY <1>2, HalfTurnAssumption
<1>4. ASSUME NEW v \in Longitudes(s) PROVE v \in CellLon(WorldCell)
  <2>1. v \in Circle /\ IsOn(s, v)
    BY <1>1, LongitudesOf
  <2>2. v \in Int /\ -HalfTurn <= v /\ v <= HalfTurn
    <3>1. CASE Geo
      BY <1>3, <2>1, <3>1 DEF Circle
    <3>2. CASE ~Geo
      <4>1. v \in Int /\ s.minX <= v /\ v <= s.maxX
        BY <1>1, <2>1, <3>2, UsedFacts DEF Circle, IsOn
      <4>2. -HalfTurn <= s.minX /\ s.maxX <= HalfTurn /\ s.minX \in Int /\ s.maxX \in Int
        BY <1>1, <3>2, UsedFacts DEF IsOfWorld
      <4> QED BY <1>3, <4>1, <4>2
    <3> QED BY <3>1, <3>2
  <2> QED BY <1>2, <1>3, <2>1, <2>2, WorldCorner DEF CellLon
<1>5. ASSUME NEW w \in Latitudes(s) PROVE w \in CellLat(WorldCell)
  <2>1. s.minY \in Int /\ s.maxY \in Int /\ -(HalfTurn \div 2) <= s.minY /\ s.maxY <= HalfTurn \div 2
    BY <1>1, UsedFacts DEF IsOfWorld
  <2>2. w \in Int /\ -(HalfTurn \div 2) <= w /\ w <= HalfTurn \div 2
    BY <1>3, <2>1 DEF Latitudes
  <2> QED BY <1>2, <1>3, <2>2, WorldCorner DEF CellLat
<1> QED BY <1>4, <1>5

(* A cell that the centre of a shape touches is touched by the shape.      *)
LEMMA CentreOfShape ==
  ASSUME NEW s, IsOfWorld(s)
  PROVE  /\ IsUsed(Center(s)) /\ IsPoint(Center(s)) /\ CellTouches(WorldCell, Center(s))
         /\ \A c : CellTouches(c, Center(s)) => CellTouches(c, s)
<1> DEFINE p == Center(s)
<1>1. IsUsed(p) /\ IsPoint(p) /\ Touch(s, p)
  BY TouchesWorld, CenterTouches
<1> HIDE DEF p
<1>2. Longitudes(p) = {p.minX} /\ Latitudes(p) = {p.minY}
  BY <1>1, PointsOfPoint
<1>3. p.minX \in Longitudes(s) /\ p.minY \in Latitudes(s)
  BY <1>1, <1>2 DEF Touch
<1>4. p.minX \in CellLon(WorldCell) /\ p.minY \in CellLat(WorldCell)
  BY <1>3, ShapesLieInWorld
<1>5. CellTouches(WorldCell, p)
  BY <1>2, <1>4 DEF CellTouches
<1>6. \A c : CellTouches(c, p) => CellTouches(c, s)
  BY <1>2, <1>3 DEF CellTouches
<1> QED BY <1>1, <1>5, <1>6 DEF p

-----------------------------------------------------------------------------
(* getNode(Point, level).                                                  *)

Matching(p, c) ==
  { i \in 1..Arity : Relate(p, CellShape(Append(c, i))) # "DISJOINT" }

LEMMA FirstChoice ==
  ASSUME NEW p, IsUsed(p), NEW c \in Tree, Len(c) < MaxLevels, CellTouches(c, p)
  PROVE  /\ Min(Matching(p, c)) \in 1..Arity
         /\ CellTouches(Append(c, Min(Matching(p, c))), p)
<1>1. \A i \in 1..Arity : i \in Matching(p, c) <=> CellTouches(Append(c, i), p)
  BY SubCellInTree, RelateCell DEF Matching
<1>2. Matching(p, c) # {}
  BY <1>1, TouchesDown
<1>3. Matching(p, c) \subseteq 1..Arity /\ IsFiniteSet(1..Arity)
  BY FS_Interval, ArityAssumption DEF Matching
<1>4. IsFiniteSet(Matching(p, c)) /\ Matching(p, c) \in SUBSET Int
  <2>1. IsFiniteSet(Matching(p, c))
    BY <1>3, FS_Subset, Zenon
  <2>2. 1..Arity \subseteq Int
    BY ArityAssumption
  <2> QED BY <1>3, <2>1, <2>2
<1>5. Min(Matching(p, c)) \in Matching(p, c)
  BY <1>2, <1>4, MinOf
<1> QED BY <1>1, <1>3, <1>5

(* From the world down to the smallest cell.                               *)
LEMMA PointChain ==
  ASSUME NEW p, IsUsed(p), CellTouches(WorldCell, p)
  PROVE  \E g : /\ g[0] = WorldCell
                /\ \A k \in 0..MaxLevels :
                     g[k] \in Tree /\ Len(g[k]) = k /\ CellTouches(g[k], p)
                /\ \A k \in 1..MaxLevels : /\ Min(Matching(p, g[k - 1])) \in 1..Arity
                                           /\ g[k] = Append(g[k - 1], Min(Matching(p, g[k - 1])))
<1> DEFINE S == Seq(1..Arity)
           next(c) == IF Min(Matching(p, c)) \in 1..Arity THEN Append(c, Min(Matching(p, c))) ELSE c
           F == [a \in S \X (1..MaxLevels) |-> next(a[1])]
<1>1. \A c \in S : next(c) \in S
  <2>1. ASSUME NEW c \in S, NEW m \in 1..Arity PROVE Append(c, m) \in S
    OBVIOUS
  <2> QED BY <2>1
<1>2. F \in [S \X (1..MaxLevels) -> S] /\ \A c \in S : \A k \in 1..MaxLevels : F[<< c, k >>] = next(c)
  <2> HIDE DEF next, S
  <2> QED BY <1>1
<1>3. WorldCell \in S /\ MaxLevels \in Nat
  BY CellsAreInTree, TreeFacts, MaxLevelsAssumption
<1> HIDE DEF F
<1>4. PICK g : IsIterated(g, MaxLevels, S, WorldCell, F)
  <2> HIDE DEF S
  <2> QED BY <1>2, <1>3, Iterates
<1>5. g[0] = WorldCell /\ \A k \in 1..MaxLevels : g[k] = next(g[k - 1])
  <2> HIDE DEF next, S
  <2>1. g \in [0..MaxLevels -> S] /\ g[0] = WorldCell /\ \A k \in 1..MaxLevels : g[k] = F[<< g[k - 1], k >>]
    BY <1>4 DEF IsIterated
  <2>2. \A k \in 1..MaxLevels : g[k - 1] \in S
    BY <1>3, <2>1
  <2> QED BY <1>2, <2>1, <2>2
<1> DEFINE T == { k \in 0..MaxLevels : g[k] \in Tree /\ Len(g[k]) = k /\ CellTouches(g[k], p) }
<1>6. 0 \in T
  BY <1>3, <1>5, CellsAreInTree DEF WorldCell
<1>7. ASSUME NEW k \in 1..MaxLevels, k - 1 \in T
      PROVE  /\ k \in T /\ Min(Matching(p, g[k - 1])) \in 1..Arity
             /\ g[k] = Append(g[k - 1], Min(Matching(p, g[k - 1])))
  <2> DEFINE c == g[k - 1]
             m == Min(Matching(p, c))
  <2>1. c \in Tree /\ Len(c) = k - 1 /\ CellTouches(c, p) /\ Len(c) < MaxLevels
    BY <1>3, <1>7
  <2> HIDE DEF c
  <2>2. m \in 1..Arity /\ CellTouches(Append(c, m), p)
    BY <2>1, FirstChoice
  <2>3. Append(c, m) \in Tree /\ Len(Append(c, m)) = k
    BY <2>1, <2>2, SubCellInTree
  <2>4. g[k] = next(c)
    BY <1>5 DEF c
  <2>5. g[k] = Append(c, m)
    BY <2>2, <2>4
  <2>6. k \in T
    <3>1. k \in 0..MaxLevels
      BY <1>3
    <3> QED BY <2>2, <2>3, <2>5, <3>1
  <2> QED BY <2>2, <2>5, <2>6 DEF c
<1>8. \A k \in 0..MaxLevels : k \in T
  <2>1. \A k \in 1..MaxLevels : k - 1 \in T => k \in T
    BY <1>7
  <2> HIDE DEF T
  <2> QED BY <1>3, <1>6, <2>1, CountUp
<1>9. \A k \in 1..MaxLevels : k - 1 \in T
  BY <1>3, <1>8
<1>10. \A k \in 1..MaxLevels : /\ Min(Matching(p, g[k - 1])) \in 1..Arity
                              /\ g[k] = Append(g[k - 1], Min(Matching(p, g[k - 1])))
  BY <1>7, <1>9
<1> QED BY <1>5, <1>8, <1>10

LEMMA PointCellsOfChain ==
  ASSUME NEW p, NEW g, g[0] = WorldCell,
         \A k \in 1..MaxLevels : g[k] = Append(g[k - 1], Min(Matching(p, g[k - 1]))),
         NEW l \in 0..MaxLevels
  PROVE  PointCell(p, l) = g[l]
<1> DEFINE cell[n \in 0..l] ==
             IF n = 0 THEN WorldCell
             ELSE Append(cell[n - 1],
                    Min({ i \in 1..Arity : Relate(p, CellShape(Append(cell[n - 1], i))) # "DISJOINT" }))
           f == [n \in 0..l |-> g[n]]
<1>1. l \in Nat /\ \A n \in 1..l : n \in 1..MaxLevels /\ n - 1 \in 0..l
  BY MaxLevelsAssumption
<1>2. /\ \A n \in 0..l : f[n] = g[n]
      /\ \A n \in 1..l : f[n - 1] = g[n - 1]
  BY <1>1
<1>3. \A n \in 0..l :
        g[n] = IF n = 0 THEN WorldCell
               ELSE Append(g[n - 1],
                      Min({ i \in 1..Arity : Relate(p, CellShape(Append(g[n - 1], i))) # "DISJOINT" }))
  <2>1. ASSUME NEW n \in 1..MaxLevels
        PROVE  g[n] = Append(g[n - 1],
                        Min({ i \in 1..Arity : Relate(p, CellShape(Append(g[n - 1], i))) # "DISJOINT" }))
    BY DEF Matching
  <2>2. \A n \in 0..l : n = 0 \/ n \in 1..MaxLevels
    BY <1>1
  <2>3. \A n \in 1..MaxLevels : n # 0
    BY MaxLevelsAssumption
  <2> QED BY <2>1, <2>2, <2>3, Zenon
<1>4. f = [n \in 0..l |->
             IF n = 0 THEN WorldCell
             ELSE Append(f[n - 1],
                    Min({ i \in 1..Arity : Relate(p, CellShape(Append(f[n - 1], i))) # "DISJOINT" }))]
  <2>1. ASSUME NEW n \in 0..l
        PROVE  g[n] = IF n = 0 THEN WorldCell
               ELSE Append(f[n - 1],
                      Min({ i \in 1..Arity : Relate(p, CellShape(Append(f[n - 1], i))) # "DISJOINT" }))
    <3>1. CASE n = 0
      BY <1>3, <3>1
    <3>2. CASE n # 0
      <4>1. f[n - 1] = g[n - 1] /\ n # 0
        BY <1>1, <1>2, <3>2
      <4> HIDE DEF f
      <4> QED BY <1>3, <4>1
    <3> QED BY <3>1, <3>2
  <2> QED BY <2>1, Zenon
<1> HIDE DEF f
<1>5. cell = [n \in 0..l |->
                IF n = 0 THEN WorldCell
                ELSE Append(cell[n - 1],
                       Min({ i \in 1..Arity : Relate(p, CellShape(Append(cell[n - 1], i))) # "DISJOINT" }))]
  BY <1>4
<1>6. PointCell(p, l) = cell[l]
  BY DEF PointCell
<1> HIDE DEF cell
<1>7. \A n \in 0..l :
        cell[n] = IF n = 0 THEN WorldCell
                  ELSE Append(cell[n - 1],
                         Min({ i \in 1..Arity : Relate(p, CellShape(Append(cell[n - 1], i))) # "DISJOINT" }))
  BY <1>5, Zenon
<1> DEFINE T == { n \in 0..l : cell[n] = g[n] }
<1>8. 0 \in T
  <2>1. 0 \in 0..l
    BY <1>1
  <2>2. cell[0] = WorldCell
    BY <1>7, <2>1, Zenon
  <2> QED BY <2>1, <2>2
<1>9. ASSUME NEW n \in 1..l, n - 1 \in T PROVE n \in T
  <2>1. cell[n - 1] = g[n - 1] /\ n \in 0..l /\ n # 0
    BY <1>9
  <2>2. cell[n] = g[n]
    BY ZenonT(60), <1>3, <1>7, <2>1
  <2> QED BY <2>1, <2>2
<1>10. \A n \in 0..l : n \in T
  <2> HIDE DEF T
  <2> QED BY <1>1, <1>8, <1>9, CountUp
<1> QED BY <1>1, <1>6, <1>10

(* getNode() of a point on the grid gives the cell of that level around    *)
(* it, and for a lower level a cell around that one.                       *)
LEMMA PointCells ==
  ASSUME NEW p, IsUsed(p), CellTouches(WorldCell, p), NEW l \in 0..MaxLevels
  PROVE  /\ PointCell(p, l) \in Tree /\ Len(PointCell(p, l)) = l /\ CellTouches(PointCell(p, l), p)
         /\ \A k \in 0..l : /\ StartsWith(PointCell(p, l), PointCell(p, k))
                            /\ SubSeq(PointCell(p, l), 1, k) = PointCell(p, k)
<1>1. PICK g : /\ g[0] = WorldCell
               /\ \A k \in 0..MaxLevels :
                    g[k] \in Tree /\ Len(g[k]) = k /\ CellTouches(g[k], p)
               /\ \A k \in 1..MaxLevels : /\ Min(Matching(p, g[k - 1])) \in 1..Arity
                                          /\ g[k] = Append(g[k - 1], Min(Matching(p, g[k - 1])))
  BY PointChain
<1>2. \A k \in 0..MaxLevels : PointCell(p, k) = g[k]
  BY <1>1, PointCellsOfChain
<1> DEFINE T == { n \in 0..MaxLevels : \A k \in 0..n : StartsWith(g[n], g[k]) }
<1>3. MaxLevels \in Nat
  BY MaxLevelsAssumption
<1>4. 0 \in T
  BY <1>1, <1>3, Begins
<1>5. ASSUME NEW n \in 1..MaxLevels, n - 1 \in T PROVE n \in T
  <2>1. /\ n \in 0..MaxLevels /\ n - 1 \in 0..MaxLevels
        /\ g[n] \in Tree /\ g[n - 1] \in Tree /\ Len(g[n - 1]) < MaxLevels
    BY <1>1, <1>3
  <2>2. StartsWith(g[n], g[n - 1])
    BY ZenonT(60), <1>1, <2>1, SubCellInTree
  <2>3. ASSUME NEW k \in 0..n PROVE StartsWith(g[n], g[k])
    <3>1. CASE k = n
      BY <2>1, <3>1, Begins
    <3>2. CASE k # n
      <4>1. k \in 0..(n - 1) /\ k \in 0..MaxLevels
        BY <1>3, <3>2
      <4>2. StartsWith(g[n - 1], g[k]) /\ g[k] \in Tree
        BY <1>1, <1>5, <4>1
      <4> QED BY <2>1, <2>2, <4>2, Begins
    <3> QED BY <3>1, <3>2
  <2> QED BY <2>1, <2>3
<1>6. \A n \in 0..MaxLevels : n \in T
  <2> HIDE DEF T
  <2> QED BY <1>3, <1>4, <1>5, CountUp
<1>7. ASSUME NEW k \in 0..l
      PROVE  StartsWith(g[l], g[k]) /\ SubSeq(g[l], 1, k) = g[k]
  <2>1. k \in 0..MaxLevels /\ StartsWith(g[l], g[k])
    BY <1>3, <1>6
  <2>2. g[l] \in Seq(1..Arity) /\ g[k] \in Seq(1..Arity) /\ Len(g[l]) = l /\ Len(g[k]) = k
    BY <1>1, <2>1, TreeFacts
  <2> DEFINE a == g[l]
  <2>a. a \in Seq(1..Arity) /\ k \in 0..Len(a)
    BY <2>2
  <2> HIDE DEF a
  <2>b. SubSeq(a, 1, k) \in Seq(1..Arity) /\ Len(SubSeq(a, 1, k)) = k
        /\ \A i \in 1..k : SubSeq(a, 1, k)[i] = a[i]
    BY <2>a, FirstOnes
  <2>3. SubSeq(g[l], 1, k) \in Seq(1..Arity) /\ Len(SubSeq(g[l], 1, k)) = k
        /\ \A i \in 1..k : SubSeq(g[l], 1, k)[i] = g[l][i]
    BY <2>b DEF a
  <2>4. \A i \in 1..k : SubSeq(g[l], 1, k)[i] = g[k][i]
    BY <2>1, <2>2, <2>3 DEF StartsWith
  <2> QED BY <2>1, <2>2, <2>3, <2>4, SeqEqual
<1>8. \A k \in 0..l : k \in 0..MaxLevels
  BY <1>3
<1> QED BY <1>1, <1>2, <1>7, <1>8

-----------------------------------------------------------------------------
(* Lists of nodes.                                                         *)
TreeNodes == [cell : Tree, leaf : BOOLEAN]

Elems(q) == { q[i] : i \in 1..Len(q) }

NodesInOrder(q) == \A i, j \in 1..Len(q) : i < j => Less(q[i].cell, q[j].cell)

AllBefore(p, q) == \A a \in Elems(p) : \A b \in Elems(q) : Less(a.cell, b.cell)

LEMMA NodeFacts ==
  ASSUME NEW c \in Tree, NEW leaf \in BOOLEAN
  PROVE  /\ Node(c, leaf) \in TreeNodes /\ Node(c, leaf).cell = c /\ Node(c, leaf).leaf = leaf
         /\ << Node(c, leaf) >> \in Seq(TreeNodes) /\ Elems(<< Node(c, leaf) >>) = {Node(c, leaf)}
         /\ NodesInOrder(<< Node(c, leaf) >>)
         /\ Len(<< Node(c, leaf) >>) = 1 /\ << Node(c, leaf) >>[1] = Node(c, leaf)
<1>1. Node(c, leaf) \in TreeNodes /\ Node(c, leaf).cell = c /\ Node(c, leaf).leaf = leaf
  BY DEF Node, TreeNodes
<1> DEFINE e == Node(c, leaf)
<1> HIDE DEF e
<1>2. << e >> \in Seq(TreeNodes) /\ Len(<< e >>) = 1 /\ << e >>[1] = e
  BY <1>1 DEF e
<1>3. Elems(<< e >>) = {e} /\ NodesInOrder(<< e >>)
  BY <1>2 DEF Elems, NodesInOrder
<1> QED BY <1>1, <1>2, <1>3 DEF e

LEMMA EmptyList ==
  << >> \in Seq(TreeNodes) /\ Elems(<< >>) = {} /\ NodesInOrder(<< >>) /\ Len(<< >>) = 0
BY DEF Elems, NodesInOrder

LEMMA ConcatLists ==
  ASSUME NEW p \in Seq(TreeNodes), NEW q \in Seq(TreeNodes),
         NodesInOrder(p), NodesInOrder(q), AllBefore(p, q)
  PROVE  /\ p \o q \in Seq(TreeNodes) /\ NodesInOrder(p \o q) /\ Elems(p \o q) = Elems(p) \cup Elems(q)
         /\ Len(p) > 0 => Len(p \o q) > 0 /\ (p \o q)[1] = p[1]
<1> DEFINE r == p \o q
           m == Len(p)
           n == Len(q)
<1>1. /\ m \in Nat /\ n \in Nat /\ r \in Seq(TreeNodes) /\ Len(r) = m + n
      /\ \A i \in 1..m + n : r[i] = IF i <= m THEN p[i] ELSE q[i - m]
  BY ConcatProperties, LenProperties
<1>2. \A i \in 1..m : p[i] \in Elems(p)
  BY DEF Elems
<1>3. \A i \in 1..n : q[i] \in Elems(q)
  BY DEF Elems
<1> HIDE DEF r
<1>4. Elems(r) = Elems(p) \cup Elems(q)
  <2>1. ASSUME NEW i \in 1..Len(r) PROVE r[i] \in Elems(p) \cup Elems(q)
    <3>1. CASE i <= m
      BY <1>1, <1>2, <3>1
    <3>2. CASE ~(i <= m)
      <4>1. i - m \in 1..n /\ r[i] = q[i - m]
        BY <1>1, <3>2
      <4> QED BY <1>3, <4>1
    <3> QED BY <3>1, <3>2
  <2>2. ASSUME NEW i \in 1..m PROVE p[i] \in Elems(r)
    <3>1. i \in 1..Len(r) /\ r[i] = p[i]
      BY <1>1
    <3> QED BY <3>1 DEF Elems
  <2>3. ASSUME NEW i \in 1..n PROVE q[i] \in Elems(r)
    <3>1. m + i \in 1..Len(r) /\ r[m + i] = q[i]
      BY <1>1
    <3> QED BY <3>1 DEF Elems
  <2> QED BY <2>1, <2>2, <2>3 DEF Elems
<1>5. NodesInOrder(r)
  <2> SUFFICES ASSUME NEW i \in 1..Len(r), NEW j \in 1..Len(r), i < j
               PROVE  Less(r[i].cell, r[j].cell)
    BY DEF NodesInOrder
  <2>1. CASE j <= m
    <3>1. i \in 1..m /\ j \in 1..m /\ i \in 1..(m + n) /\ j \in 1..(m + n) /\ i <= m
      BY <1>1, <2>1
    <3>2. r[i] = p[i] /\ r[j] = p[j]
      BY <1>1, <2>1, <3>1
    <3> QED BY <3>1, <3>2 DEF NodesInOrder
  <2>2. CASE i > m
    <3>1. i - m \in 1..n /\ j - m \in 1..n /\ i - m < j - m /\ r[i] = q[i - m] /\ r[j] = q[j - m]
      BY <1>1, <2>2
    <3> QED BY <3>1 DEF NodesInOrder
  <2>3. CASE i <= m /\ j > m
    <3>1. i \in 1..m /\ j - m \in 1..n /\ r[i] = p[i] /\ r[j] = q[j - m]
      BY <1>1, <2>3
    <3> QED BY <1>2, <1>3, <3>1 DEF AllBefore
  <2> QED BY <1>1, <2>1, <2>2, <2>3
<1>6. Len(p) > 0 => Len(r) > 0 /\ r[1] = p[1]
  BY <1>1
<1> QED BY <1>1, <1>4, <1>5, <1>6 DEF r

LEMMA FourLists ==
  ASSUME NEW l, \A i \in 1..4 : l[i] \in Seq(TreeNodes) /\ NodesInOrder(l[i]),
         \A i, j \in 1..4 : i < j => AllBefore(l[i], l[j])
  PROVE  LET q == l[1] \o l[2] \o l[3] \o l[4] IN
         /\ q \in Seq(TreeNodes) /\ NodesInOrder(q)
         /\ Elems(q) = Elems(l[1]) \cup Elems(l[2]) \cup Elems(l[3]) \cup Elems(l[4])
<1>1. /\ 1 \in 1..4 /\ 2 \in 1..4 /\ 3 \in 1..4 /\ 4 \in 1..4
      /\ AllBefore(l[1], l[2]) /\ AllBefore(l[1], l[3]) /\ AllBefore(l[1], l[4])
      /\ AllBefore(l[2], l[3]) /\ AllBefore(l[2], l[4]) /\ AllBefore(l[3], l[4])
  OBVIOUS
<1> DEFINE a == l[1] \o l[2]
           b == a \o l[3]
<1>2. a \in Seq(TreeNodes) /\ NodesInOrder(a) /\ Elems(a) = Elems(l[1]) \cup Elems(l[2])
  BY <1>1, ConcatLists
<1> HIDE DEF a
<1>3. AllBefore(a, l[3]) /\ AllBefore(a, l[4])
  BY <1>1, <1>2 DEF AllBefore
<1>4. b \in Seq(TreeNodes) /\ NodesInOrder(b) /\ Elems(b) = Elems(a) \cup Elems(l[3])
  BY <1>1, <1>2, <1>3, ConcatLists
<1> HIDE DEF b
<1>5. AllBefore(b, l[4])
  BY <1>1, <1>3, <1>4 DEF AllBefore
<1>6. b \o l[4] \in Seq(TreeNodes) /\ NodesInOrder(b \o l[4]) /\ Elems(b \o l[4]) = Elems(b) \cup Elems(l[4])
  BY <1>1, <1>4, <1>5, ConcatLists
<1> QED BY <1>2, <1>4, <1>6 DEF a, b

-----------------------------------------------------------------------------
(* What the nodes that getNodes() makes below a cell are to the shape: the *)
(* leaves stand for the cells of the detail level that it touches, no leaf *)
(* is missing below a node, and no parent of one.                          *)
IsCover(c, s, d, E) ==
  /\ \A e \in E : StartsWith(e.cell, c) /\ Len(e.cell) <= d
  /\ \E e \in E : e.cell = c
  /\ \A x \in Tree : Len(x) = d /\ StartsWith(x, c) =>
       (CellTouches(x, s) <=> \E e \in E : e.leaf /\ StartsWith(x, e.cell))
  /\ \A e \in E : ~e.leaf => \E f \in E : f.cell # e.cell /\ StartsWith(f.cell, e.cell)
  /\ \A e \in E : \A n \in Len(c)..Len(e.cell) : \E f \in E : f.cell = SubSeq(e.cell, 1, n)

LEMMA WholeCell ==
  ASSUME NEW c \in Tree
  PROVE  SubSeq(c, 1, Len(c)) = c
<1>1. c \in Seq(1..Arity) /\ Len(c) \in 0..Len(c)
  BY TreeFacts
<1>2. SubSeq(c, 1, Len(c)) \in Seq(1..Arity) /\ Len(SubSeq(c, 1, Len(c))) = Len(c)
      /\ \A k \in 1..Len(c) : SubSeq(c, 1, Len(c))[k] = c[k]
  BY <1>1, FirstOnes
<1> QED BY <1>1, <1>2, SeqEqual

LEMMA BeginningOf ==
  ASSUME NEW x \in Tree, NEW c \in Tree, StartsWith(x, c)
  PROVE  SubSeq(x, 1, Len(c)) = c
<1>1. x \in Seq(1..Arity) /\ c \in Seq(1..Arity) /\ Len(c) \in 0..Len(x)
      /\ \A k \in 1..Len(c) : x[k] = c[k]
  BY TreeFacts DEF StartsWith
<1>2. SubSeq(x, 1, Len(c)) \in Seq(1..Arity) /\ Len(SubSeq(x, 1, Len(c))) = Len(c)
      /\ \A k \in 1..Len(c) : SubSeq(x, 1, Len(c))[k] = x[k]
  BY <1>1, FirstOnes
<1>3. \A k \in 1..Len(SubSeq(x, 1, Len(c))) : SubSeq(x, 1, Len(c))[k] = c[k]
  BY <1>1, <1>2
<1> QED BY <1>1, <1>2, <1>3, SeqEqual

LEMMA LeafCovers ==
  ASSUME NEW c \in Tree, NEW d \in Nat, Len(c) <= d, NEW s,
         \A x \in Tree : Len(x) = d /\ StartsWith(x, c) => CellTouches(x, s)
  PROVE  IsCover(c, s, d, {Node(c, TRUE)})
<1> DEFINE e == Node(c, TRUE)
<1>1. e.cell = c /\ e.leaf = TRUE
  BY NodeFacts
<1> HIDE DEF e
<1>2. StartsWith(c, c) /\ Len(c) \in Nat
  BY Begins, TreeFacts
<1>3. \A n \in Len(c)..Len(c) : n = Len(c)
  BY <1>2
<1>4. \A n \in Len(c)..Len(e.cell) : SubSeq(e.cell, 1, n) = c
  BY <1>1, <1>3, WholeCell
<1>5. IsCover(c, s, d, {e})
  BY <1>1, <1>2, <1>4 DEF IsCover
<1> QED BY <1>5 DEF e

LEMMA ParentCovers ==
  ASSUME NEW c \in Tree, NEW d \in 1..MaxLevels, Len(c) < d, NEW s, CellTouches(c, s),
         NEW Q, \A i \in 1..Arity : Q[i] \subseteq TreeNodes,
         \A i \in 1..Arity : CellTouches(Append(c, i), s) => IsCover(Append(c, i), s, d, Q[i]),
         \A i \in 1..Arity : ~CellTouches(Append(c, i), s) => Q[i] = {},
         NEW rest, \A e : e \in rest <=> \E i \in 1..Arity : e \in Q[i]
  PROVE  IsCover(c, s, d, {Node(c, FALSE)} \cup rest)
<1> DEFINE top == Node(c, FALSE)
           E == {top} \cup rest
<1>1. top.cell = c /\ top.leaf = FALSE
  BY NodeFacts
<1> HIDE DEF top
<1>2. d \in Nat /\ Len(c) < MaxLevels /\ Len(c) \in Nat
  BY TreeFacts, MaxLevelsAssumption
<1>3. \A i \in 1..Arity : /\ Append(c, i) \in Tree /\ Len(Append(c, i)) = Len(c) + 1
                          /\ StartsWith(Append(c, i), c)
  BY <1>2, SubCellInTree
<1>4. ASSUME NEW e \in E, e # top
      PROVE  /\ e.cell \in Tree
             /\ \E i \in 1..Arity : /\ e \in Q[i] /\ CellTouches(Append(c, i), s)
                                    /\ IsCover(Append(c, i), s, d, Q[i])
                                    /\ StartsWith(e.cell, Append(c, i))
                                    /\ StartsWith(e.cell, c)
  <2>1. PICK i \in 1..Arity : e \in Q[i]
    BY <1>4
  <2>2. CellTouches(Append(c, i), s) /\ IsCover(Append(c, i), s, d, Q[i]) /\ e \in TreeNodes
    BY <2>1
  <2>3. StartsWith(e.cell, Append(c, i)) /\ e.cell \in Tree
    BY <2>1, <2>2 DEF IsCover, TreeNodes
  <2>4. StartsWith(e.cell, c)
    BY <1>3, <2>3, Begins
  <2> QED BY <2>1, <2>2, <2>3, <2>4
<1>5. \A i \in 1..Arity : Q[i] \subseteq E
  OBVIOUS
<1>6. top \in E
  OBVIOUS
<1> HIDE DEF E
<1>7. \A e \in E : StartsWith(e.cell, c) /\ Len(e.cell) <= d
  <2>1. ASSUME NEW e \in E PROVE StartsWith(e.cell, c) /\ Len(e.cell) <= d
    <3>1. CASE e = top
      BY <1>1, <1>2, <3>1, Begins
    <3>2. CASE e # top
      BY <1>4, <3>2 DEF IsCover
    <3> QED BY <3>1, <3>2
  <2> QED BY <2>1
<1>8. ASSUME NEW x \in Tree, Len(x) = d, StartsWith(x, c)
      PROVE  CellTouches(x, s) <=> \E e \in E : e.leaf /\ StartsWith(x, e.cell)
  <2>1. PICK i \in 1..Arity : StartsWith(x, Append(c, i))
    BY <1>2, <1>8, Begins
  <2>2. ASSUME CellTouches(x, s) PROVE \E e \in E : e.leaf /\ StartsWith(x, e.cell)
    <3>1. CellTouches(Append(c, i), s)
      BY <1>3, <2>1, <2>2, TouchesUp
    <3>2. IsCover(Append(c, i), s, d, Q[i])
      BY <3>1
    <3> QED BY <1>5, <1>8, <2>1, <2>2, <3>2 DEF IsCover
  <2>3. ASSUME NEW e \in E, e.leaf, StartsWith(x, e.cell) PROVE CellTouches(x, s)
    <3>1. e # top
      BY <1>1, <2>3
    <3>2. PICK j \in 1..Arity : /\ e \in Q[j] /\ IsCover(Append(c, j), s, d, Q[j])
                                /\ StartsWith(e.cell, Append(c, j)) /\ e.cell \in Tree
      BY <1>4, <3>1
    <3>3. StartsWith(x, Append(c, j))
      BY <1>3, <2>3, <3>2, Begins
    <3> QED BY <1>8, <2>3, <3>2, <3>3 DEF IsCover
  <2> QED BY <2>2, <2>3
<1>9. ASSUME NEW e \in E, ~e.leaf
      PROVE  \E f \in E : f.cell # e.cell /\ StartsWith(f.cell, e.cell)
  <2>1. CASE e = top
    <3>1. PICK i \in 1..Arity : CellTouches(Append(c, i), s)
      BY <1>2, TouchesDown
    <3>2. PICK f \in Q[i] : f.cell = Append(c, i)
      BY <3>1 DEF IsCover
    <3>3. f.cell # c
      BY <1>2, <1>3, <3>2
    <3> QED BY <1>1, <1>3, <1>5, <2>1, <3>2, <3>3
  <2>2. CASE e # top
    <3>1. PICK i \in 1..Arity : e \in Q[i] /\ IsCover(Append(c, i), s, d, Q[i])
      BY <1>4, <2>2
    <3>2. \E f \in Q[i] : f.cell # e.cell /\ StartsWith(f.cell, e.cell)
      BY <1>9, <3>1 DEF IsCover
    <3> QED BY <1>5, <3>2
  <2> QED BY <2>1, <2>2
<1>10. ASSUME NEW e \in E, NEW n \in Len(c)..Len(e.cell)
       PROVE  \E f \in E : f.cell = SubSeq(e.cell, 1, n)
  <2>1. CASE n = Len(c)
    <3>1. e.cell \in Tree /\ StartsWith(e.cell, c)
      BY <1>1, <1>4, <1>7
    <3>2. SubSeq(e.cell, 1, n) = c
      BY <2>1, <3>1, BeginningOf
    <3> QED BY <1>1, <1>6, <3>2
  <2>2. CASE n # Len(c)
    <3>1. e # top
      BY <1>1, <1>2, <2>2
    <3>2. PICK i \in 1..Arity : e \in Q[i] /\ IsCover(Append(c, i), s, d, Q[i])
      BY <1>4, <3>1
    <3>3. n \in Len(Append(c, i))..Len(e.cell)
      BY <1>2, <1>3, <2>2
    <3>4. \E f \in Q[i] : f.cell = SubSeq(e.cell, 1, n)
      BY <3>2, <3>3 DEF IsCover
    <3> QED BY <1>5, <3>4
  <2> QED BY <2>1, <2>2
<1>11. IsCover(c, s, d, E)
  BY <1>1, <1>6, <1>7, <1>8, <1>9, <1>10 DEF IsCover
<1> QED BY <1>11 DEF E, top

CoverList(c, s, d, q) ==
  q \in Seq(TreeNodes) /\ NodesInOrder(q) /\ IsCover(c, s, d, Elems(q))

(* The loop over the sub-cells, which collects the lists that f has.       *)
Loop(c, s, f) == ForSubCells(c, s, LAMBDA x : f[x])

LEMMA ListsOfSubCells ==
  ASSUME NEW c \in Tree, NEW d \in 1..MaxLevels, Len(c) < d, NEW s, IsUsed(s), CellTouches(c, s),
         NEW f, \A i \in 1..Arity : CellTouches(Append(c, i), s) =>
                  CoverList(Append(c, i), s, d, f[Append(c, i)])
  PROVE  LET q == << Node(c, FALSE) >> \o Loop(c, s, f) IN
         CoverList(c, s, d, q) /\ Len(q) > 0 /\ q[1] = Node(c, FALSE)
<1> DEFINE l == [i \in 1..4 |-> IF Relate(CellShape(Append(c, i)), s) = "DISJOINT" THEN << >>
                                ELSE f[Append(c, i)]]
           all == Loop(c, s, f)
           top == << Node(c, FALSE) >>
<1>1. Arity = 4 /\ Len(c) < MaxLevels /\ Len(c) \in Nat
  BY QuadAssumption, TreeFacts, MaxLevelsAssumption
<1>2. all = l[1] \o l[2] \o l[3] \o l[4]
  <2>1. \A i \in 1..4 : SubCells(c)[i] = Append(c, i)
    BY <1>1 DEF SubCells
  <2>2. 1 \in 1..4 /\ 2 \in 1..4 /\ 3 \in 1..4 /\ 4 \in 1..4
    OBVIOUS
  <2> QED BY <2>1, <2>2 DEF Loop, ForSubCells
<1>3. ASSUME NEW i \in 1..4
      PROVE  IF CellTouches(Append(c, i), s)
               THEN l[i] = f[Append(c, i)] /\ CoverList(Append(c, i), s, d, l[i])
               ELSE l[i] = << >>
  <2>1. i \in 1..Arity /\ Append(c, i) \in Cells
    BY <1>1, SubCellInTree
  <2>2. Relate(CellShape(Append(c, i)), s) = "DISJOINT" <=> ~CellTouches(Append(c, i), s)
    BY <2>1, RelateCell
  <2> QED BY <2>1, <2>2
<1> HIDE DEF l, all
<1>4. ASSUME NEW i \in 1..4
      PROVE  /\ l[i] \in Seq(TreeNodes) /\ NodesInOrder(l[i]) /\ Elems(l[i]) \subseteq TreeNodes
             /\ IF CellTouches(Append(c, i), s) THEN IsCover(Append(c, i), s, d, Elems(l[i]))
                                                ELSE Elems(l[i]) = {}
             /\ \A e \in Elems(l[i]) : e.cell \in Tree /\ StartsWith(e.cell, Append(c, i))
  <2>1. l[i] \in Seq(TreeNodes) /\ NodesInOrder(l[i])
    BY <1>3, EmptyList DEF CoverList
  <2>2. Elems(l[i]) \subseteq TreeNodes
    BY <2>1, ElementOfSeq DEF Elems
  <2>3. IF CellTouches(Append(c, i), s) THEN IsCover(Append(c, i), s, d, Elems(l[i]))
                                        ELSE Elems(l[i]) = {}
    BY <1>3, EmptyList DEF CoverList
  <2>4. \A e \in Elems(l[i]) : e.cell \in Tree /\ StartsWith(e.cell, Append(c, i))
    BY <2>2, <2>3 DEF IsCover, TreeNodes
  <2> QED BY <2>1, <2>2, <2>3, <2>4
<1>5. \A i, j \in 1..4 : i < j => AllBefore(l[i], l[j])
  <2> SUFFICES ASSUME NEW i \in 1..4, NEW j \in 1..4, i < j,
                      NEW a \in Elems(l[i]), NEW b \in Elems(l[j])
               PROVE  Less(a.cell, b.cell)
    BY DEF AllBefore
  <2>1. /\ a.cell \in Tree /\ StartsWith(a.cell, Append(c, i))
        /\ b.cell \in Tree /\ StartsWith(b.cell, Append(c, j))
    BY <1>4
  <2> QED BY <1>1, <2>1, SiblingsInOrder
<1>6. /\ all \in Seq(TreeNodes) /\ NodesInOrder(all)
      /\ Elems(all) = Elems(l[1]) \cup Elems(l[2]) \cup Elems(l[3]) \cup Elems(l[4])
  BY <1>2, <1>4, <1>5, FourLists
<1>7. /\ top \in Seq(TreeNodes) /\ NodesInOrder(top) /\ Elems(top) = {Node(c, FALSE)}
      /\ Len(top) = 1 /\ top[1] = Node(c, FALSE) /\ Node(c, FALSE).cell = c
  BY NodeFacts
<1> DEFINE Q == [i \in 1..Arity |-> Elems(l[i])]
<1>8. /\ \A i \in 1..Arity : Q[i] \subseteq TreeNodes
      /\ \A i \in 1..Arity : CellTouches(Append(c, i), s) => IsCover(Append(c, i), s, d, Q[i])
      /\ \A i \in 1..Arity : ~CellTouches(Append(c, i), s) => Q[i] = {}
  BY <1>1, <1>4
<1>9. \A e : e \in Elems(all) <=> \E i \in 1..Arity : e \in Q[i]
  <2>1. 1..Arity = {1, 2, 3, 4}
    BY <1>1
  <2>2. Q[1] = Elems(l[1]) /\ Q[2] = Elems(l[2]) /\ Q[3] = Elems(l[3]) /\ Q[4] = Elems(l[4])
    BY <2>1
  <2> HIDE DEF Q
  <2> QED BY <1>6, <2>1, <2>2
<1> HIDE DEF Q, top
<1>10. IsCover(c, s, d, {Node(c, FALSE)} \cup Elems(all))
  BY <1>8, <1>9, ParentCovers
<1>11. AllBefore(top, all)
  <2> SUFFICES ASSUME NEW b \in Elems(all) PROVE Less(c, b.cell)
    BY <1>7 DEF AllBefore
  <2>1. PICK i \in 1..4 : b \in Elems(l[i])
    BY <1>6
  <2>2. b.cell \in Tree /\ StartsWith(b.cell, Append(c, i)) /\ i \in 1..Arity
    BY <1>1, <1>4, <2>1
  <2>3. Append(c, i) \in Tree /\ StartsWith(Append(c, i), c) /\ Len(Append(c, i)) = Len(c) + 1
    BY <1>1, <2>2, SubCellInTree
  <2>4. StartsWith(b.cell, c)
    BY <2>2, <2>3, Begins
  <2>5. Len(b.cell) \in Nat /\ Len(Append(c, i)) <= Len(b.cell)
    BY <2>2, TreeFacts DEF StartsWith
  <2> QED BY <1>1, <2>3, <2>4, <2>5 DEF Less
<1>12. /\ top \o all \in Seq(TreeNodes) /\ NodesInOrder(top \o all)
       /\ Elems(top \o all) = {Node(c, FALSE)} \cup Elems(all)
       /\ Len(top \o all) > 0 /\ (top \o all)[1] = Node(c, FALSE)
  <2>1. /\ top \o all \in Seq(TreeNodes) /\ NodesInOrder(top \o all)
        /\ Elems(top \o all) = Elems(top) \cup Elems(all)
        /\ Len(top) > 0 => Len(top \o all) > 0 /\ (top \o all)[1] = top[1]
    BY <1>6, <1>7, <1>11, ConcatLists
  <2>2. Len(top) > 0
    BY <1>7
  <2> QED BY <1>7, <2>1, <2>2, Zenon
<1>13. CoverList(c, s, d, top \o all)
  BY <1>10, <1>12 DEF CoverList
<1> QED BY <1>12, <1>13 DEF all, top

(* A cell that stands for all below it.                                    *)
LEMMA ListOfLeaf ==
  ASSUME NEW c \in Tree, NEW d \in Nat, Len(c) <= d, NEW s,
         \A x \in Tree : Len(x) = d /\ StartsWith(x, c) => CellTouches(x, s)
  PROVE  CoverList(c, s, d, << Node(c, TRUE) >>)
<1>1. IsCover(c, s, d, {Node(c, TRUE)})
  BY LeafCovers
<1> QED BY <1>1, NodeFacts DEF CoverList

LEMMA FourOnes ==
  ASSUME NEW a \in {0, 1}, NEW b \in {0, 1}, NEW c \in {0, 1}, NEW d \in {0, 1}, a + b + c + d = 4
  PROVE  a = 1 /\ b = 1 /\ c = 1 /\ d = 1
OBVIOUS

(* How many sub-cells there are that the shape touches.                    *)
LEMMA AllSubCells ==
  ASSUME NEW c \in Tree, Len(c) < MaxLevels, NEW s, IsUsed(s), ~IsPoint(s),
         Len(SubCellsOf(c, s)) = Arity
  PROVE  \A i \in 1..Arity : CellTouches(Append(c, i), s)
<1> DEFINE l(i) == IF Relate(CellShape(Append(c, i)), s) = "DISJOINT" THEN << >>
                   ELSE << Append(c, i) >>
           q == l(1) \o l(2) \o l(3) \o l(4)
<1>1. Arity = 4 /\ \A i \in 1..4 : SubCells(c)[i] = Append(c, i)
  BY QuadAssumption DEF SubCells
<1>2. SubCellsOf(c, s) = q
  <2>1. 1 \in 1..4 /\ 2 \in 1..4 /\ 3 \in 1..4 /\ 4 \in 1..4
    OBVIOUS
  <2> QED BY <1>1, <2>1 DEF SubCellsOf, ForSubCells
<1>3. ASSUME NEW i \in 1..4
      PROVE  /\ l(i) \in Seq(Cells) /\ Len(l(i)) \in {0, 1}
             /\ Len(l(i)) = 1 => CellTouches(Append(c, i), s)
  <2>1. i \in 1..Arity /\ Append(c, i) \in Cells
    BY <1>1, SubCellInTree
  <2>2. Relate(CellShape(Append(c, i)), s) = "DISJOINT" <=> ~CellTouches(Append(c, i), s)
    BY <2>1, RelateCell
  <2> QED BY <2>1, <2>2
<1>4. /\ l(1) \in Seq(Cells) /\ l(2) \in Seq(Cells) /\ l(3) \in Seq(Cells) /\ l(4) \in Seq(Cells)
      /\ Len(l(1)) \in {0, 1} /\ Len(l(2)) \in {0, 1} /\ Len(l(3)) \in {0, 1} /\ Len(l(4)) \in {0, 1}
  BY <1>3
<1> HIDE DEF l
<1>5. Len(q) = Len(l(1)) + Len(l(2)) + Len(l(3)) + Len(l(4))
  <2>1. l(1) \o l(2) \in Seq(Cells) /\ Len(l(1) \o l(2)) = Len(l(1)) + Len(l(2))
    BY <1>4, ConcatProperties
  <2>2. l(1) \o l(2) \o l(3) \in Seq(Cells)
        /\ Len(l(1) \o l(2) \o l(3)) = Len(l(1)) + Len(l(2)) + Len(l(3))
    BY <1>4, <2>1, ConcatProperties
  <2> QED BY <1>4, <2>2, ConcatProperties
<1>6. Len(l(1)) = 1 /\ Len(l(2)) = 1 /\ Len(l(3)) = 1 /\ Len(l(4)) = 1
  <2>1. Len(q) = 4
    BY <1>1, <1>2
  <2>2. Len(l(1)) + Len(l(2)) + Len(l(3)) + Len(l(4)) = 4
    BY <1>5, <2>1
  <2> QED BY <1>4, <2>2, FourOnes
<1>7. ASSUME NEW i \in 1..Arity PROVE CellTouches(Append(c, i), s)
  <2>1. i \in {1, 2, 3, 4} /\ i \in 1..4
    BY <1>1
  <2>2. Len(l(i)) = 1
    BY <1>6, <2>1
  <2> QED BY <1>3, <2>1, <2>2
<1> QED BY <1>7

-----------------------------------------------------------------------------
(* The recursion of recursiveGetNodes().                                   *)

(* One call of it; f are the calls it makes.                               *)
Visit(f, s, d, inclParents, worldLeaf, c) ==
  LET parents == IF inclParents THEN << Node(c, FALSE) >> ELSE << >> IN
  IF IF c = WorldCell THEN worldLeaf ELSE WithinShape(c, s) THEN << Node(c, TRUE) >>
  ELSE IF Len(c) = d - 1 THEN LastNodes(c, s, parents)
  ELSE parents \o Loop(c, s, f)

LEMMA VisitCovers ==
  ASSUME NEW c \in Tree, NEW d \in 1..MaxLevels, Len(c) < d,
         NEW s, IsUsed(s), ~IsPoint(s), CellTouches(c, s),
         NEW f, Len(c) < d - 1 => \A i \in 1..Arity : CellTouches(Append(c, i), s) =>
                                    CoverList(Append(c, i), s, d, f[Append(c, i)])
  PROVE  /\ CoverList(c, s, d, Visit(f, s, d, TRUE, FALSE, c))
         /\ c = WorldCell =>
              IF MakesWorldLeaf(s, d) THEN Visit(f, s, d, TRUE, FALSE, c) = << Node(WorldCell, TRUE) >>
              ELSE Len(Visit(f, s, d, TRUE, FALSE, c)) > 0 /\ Visit(f, s, d, TRUE, FALSE, c)[1] = Node(WorldCell, FALSE)
<1>1. d \in Nat /\ Len(c) \in Nat /\ Len(c) <= d /\ Len(c) < MaxLevels
  BY TreeFacts, MaxLevelsAssumption
<1>2. CASE c # WorldCell /\ WithinShape(c, s)
  <2>1. c \in Cells
    BY <1>2, TreeFacts
  <2>2. \A x \in Tree : Len(x) = d /\ StartsWith(x, c) => CellTouches(x, s)
    BY <1>2, <2>1, TouchesWithin
  <2>3. CoverList(c, s, d, << Node(c, TRUE) >>)
    BY <1>1, <2>2, ListOfLeaf
  <2> QED BY <1>2, <2>3 DEF Visit
<1>3. CASE ~(c # WorldCell /\ WithinShape(c, s)) /\ Len(c) = d - 1
  <2>1. Visit(f, s, d, TRUE, FALSE, c) = LastNodes(c, s, << Node(c, FALSE) >>)
    BY <1>3 DEF Visit
  <2>2. c = WorldCell => (MakesWorldLeaf(s, d) <=> Len(SubCellsOf(c, s)) = Arity)
    <3>1. c = WorldCell => d = 1
      BY <1>1, <1>3, TreeFacts
    <3> QED BY <3>1 DEF MakesWorldLeaf
  <2>3. \A i \in 1..Arity : Append(c, i) \in Tree /\ Len(Append(c, i)) = d
    BY <1>1, <1>3, SubCellInTree
  <2>4. CASE Len(SubCellsOf(c, s)) = Arity
    <3>1. ASSUME NEW x \in Tree, Len(x) = d, StartsWith(x, c) PROVE CellTouches(x, s)
      <4>1. PICK i \in 1..Arity : StartsWith(x, Append(c, i))
        BY <1>1, <3>1, Begins
      <4> DEFINE a == Append(c, i)
      <4>a. a \in Tree /\ Len(x) <= Len(a) /\ StartsWith(x, a)
        BY <1>1, <2>3, <3>1, <4>1
      <4> HIDE DEF a
      <4>b. x = a
        BY <4>a, Begins
      <4>2. x = Append(c, i)
        BY <4>b DEF a
      <4> QED BY <1>1, <2>4, <4>2, AllSubCells
    <3>2. CoverList(c, s, d, << Node(c, TRUE) >>)
      BY <1>1, <3>1, ListOfLeaf
    <3> QED BY <2>1, <2>2, <2>4, <3>2 DEF LastNodes
  <2>5. CASE Len(SubCellsOf(c, s)) # Arity
    <3> DEFINE g == [x \in Tree |-> << Node(x, TRUE) >>]
               q == << Node(c, FALSE) >> \o Loop(c, s, g)
    <3>1. ASSUME NEW i \in 1..Arity, CellTouches(Append(c, i), s)
          PROVE  CoverList(Append(c, i), s, d, g[Append(c, i)])
      <4> DEFINE a == Append(c, i)
      <4>1. a \in Tree /\ Len(a) = d /\ Len(a) <= d
        BY <1>1, <2>3
      <4> HIDE DEF a
      <4>2. ASSUME NEW x \in Tree, Len(x) = d, StartsWith(x, a) PROVE CellTouches(x, s)
        <5>1. x = a
          BY <4>1, <4>2, Begins
        <5> QED BY <3>1, <5>1 DEF a
      <4>3. CoverList(a, s, d, << Node(a, TRUE) >>)
        BY <1>1, <4>1, <4>2, ListOfLeaf
      <4>4. g[a] = << Node(a, TRUE) >>
        BY <4>1
      <4> QED BY <4>3, <4>4 DEF a
    <3>2. Visit(f, s, d, TRUE, FALSE, c) = q
      <4>1. Arity = 4 /\ \A i \in 1..4 : /\ SubCells(c)[i] = Append(c, i)
                                        /\ g[Append(c, i)] = << Node(Append(c, i), TRUE) >>
        BY <2>3, QuadAssumption DEF SubCells
      <4>2. 1 \in 1..4 /\ 2 \in 1..4 /\ 3 \in 1..4 /\ 4 \in 1..4
        OBVIOUS
      <4> HIDE DEF g
      <4>3. Loop(c, s, g) = ForSubCells(c, s, LAMBDA x : << Node(x, TRUE) >>)
        BY <4>1, <4>2 DEF Loop, ForSubCells
      <4>4. LastNodes(c, s, << Node(c, FALSE) >>)
            = << Node(c, FALSE) >> \o ForSubCells(c, s, LAMBDA x : << Node(x, TRUE) >>)
        BY <2>5 DEF LastNodes
      <4> QED BY <2>1, <4>3, <4>4
    <3> HIDE DEF g
    <3>3. CoverList(c, s, d, q) /\ Len(q) > 0 /\ q[1] = Node(c, FALSE)
      BY <3>1, ListsOfSubCells
    <3> QED BY <2>2, <2>5, <3>2, <3>3
  <2> QED BY <2>4, <2>5
<1>4. CASE ~(c # WorldCell /\ WithinShape(c, s)) /\ Len(c) # d - 1
  <2> DEFINE q == << Node(c, FALSE) >> \o Loop(c, s, f)
  <2>1. Visit(f, s, d, TRUE, FALSE, c) = q
    BY <1>4 DEF Visit
  <2>2. Len(c) < d - 1
    BY <1>1, <1>4
  <2>3. CoverList(c, s, d, q) /\ Len(q) > 0 /\ q[1] = Node(c, FALSE)
    BY <2>2, ListsOfSubCells
  <2>4. c = WorldCell => ~MakesWorldLeaf(s, d)
    BY <1>1, <1>4, TreeFacts DEF MakesWorldLeaf
  <2> QED BY <2>1, <2>3, <2>4
<1> QED BY <1>2, <1>3, <1>4

(* The cells that calls of it are made for.                                *)
CalledFor(d) == UNION { [1..l -> 1..Arity] : l \in 0..(d - 1) }

LEMMA VisitedCells ==
  ASSUME NEW d \in 1..MaxLevels
  PROVE  CalledFor(d) = { c \in Tree : Len(c) <= d - 1 }
<1>0. d \in Nat /\ d <= MaxLevels /\ MaxLevels \in Nat
  BY MaxLevelsAssumption
<1>1. ASSUME NEW c \in CalledFor(d) PROVE c \in Tree /\ Len(c) <= d - 1
  <2>1. PICK l \in 0..(d - 1) : c \in [1..l -> 1..Arity]
    BY DEF CalledFor
  <2>2. c \in Seq(1..Arity) /\ Len(c) = l
    <3>1. l \in Nat
      BY <1>0
    <3> QED BY <2>1, <3>1, FunctionIsSeq
  <2> QED BY <1>0, <2>2 DEF Tree
<1>2. ASSUME NEW c \in Tree, Len(c) <= d - 1 PROVE c \in CalledFor(d)
  <2>1. c \in Seq(1..Arity) /\ Len(c) \in 0..(d - 1)
    BY <1>0, <1>2, TreeFacts
  <2>2. c \in [1..Len(c) -> 1..Arity]
    BY <2>1, LenProperties
  <2> QED BY <2>1, <2>2 DEF CalledFor
<1> QED BY <1>1, <1>2

LEMMA NextCallIsMade ==
  ASSUME NEW d \in 1..MaxLevels, NEW c \in Tree, Len(c) < d - 1, NEW i \in 1..Arity
  PROVE  Append(c, i) \in CalledFor(d) /\ Len(Append(c, i)) = Len(c) + 1
<1>1. d \in Nat /\ d <= MaxLevels /\ MaxLevels \in Nat /\ Len(c) \in Nat /\ Len(c) < MaxLevels
  BY MaxLevelsAssumption, TreeFacts
<1> DEFINE a == Append(c, i)
<1>2. a \in Tree /\ Len(a) = Len(c) + 1
  BY <1>1, SubCellInTree
<1> HIDE DEF a
<1>3. a \in CalledFor(d)
  BY <1>1, <1>2, VisitedCells
<1> QED BY <1>2, <1>3 DEF a

LEMMA VisitDependsOnCalls ==
  ASSUME NEW c \in Tree, NEW d \in 1..MaxLevels, NEW s, NEW ps, NEW wl, NEW f, NEW g,
         Len(c) # d - 1 => \A i \in 1..Arity : f[Append(c, i)] = g[Append(c, i)]
  PROVE  Visit(f, s, d, ps, wl, c) = Visit(g, s, d, ps, wl, c)
<1>1. CASE Len(c) = d - 1
  BY <1>1 DEF Visit
<1>2. CASE Len(c) # d - 1
  <2>1. Arity = 4 /\ \A i \in 1..4 : SubCells(c)[i] = Append(c, i) /\ f[SubCells(c)[i]] = g[SubCells(c)[i]]
    BY <1>2, QuadAssumption DEF SubCells
  <2>2. 1 \in 1..4 /\ 2 \in 1..4 /\ 3 \in 1..4 /\ 4 \in 1..4
    OBVIOUS
  <2>3. Loop(c, s, f) = Loop(c, s, g)
    BY <2>1, <2>2 DEF Loop, ForSubCells
  <2> QED BY <1>2, <2>3 DEF Visit
<1> QED BY <1>1, <1>2

IsVisited(f, s, d, ps, wl, n) ==
  /\ f = [c \in CalledFor(d) |-> f[c]]
  /\ \A c \in CalledFor(d) : Len(c) >= d - n => f[c] = Visit(f, s, d, ps, wl, c)

AreCalls(f, s, d, ps, wl) == f = [c \in CalledFor(d) |-> Visit(f, s, d, ps, wl, c)]

LEMMA VisitsEnd ==
  ASSUME NEW d \in 1..MaxLevels, NEW s, NEW ps, NEW wl
  PROVE  \E f : AreCalls(f, s, d, ps, wl)
<1>0. d \in Nat /\ d <= MaxLevels /\ MaxLevels \in Nat
  BY MaxLevelsAssumption
<1>v. CalledFor(d) = { c \in Tree : Len(c) <= d - 1 }
  BY VisitedCells
<1>t. \A c \in CalledFor(d) : c \in Tree /\ Len(c) \in 0..(d - 1)
  BY <1>0, <1>v, TreeFacts
<1> DEFINE T == { n \in 0..d : \E f : IsVisited(f, s, d, ps, wl, n) }
<1>1. 0 \in T
  <2> DEFINE f == [c \in CalledFor(d) |-> c]
  <2>1. f = [c \in CalledFor(d) |-> f[c]]
    OBVIOUS
  <2>2. IsVisited(f, s, d, ps, wl, 0)
    <3> HIDE DEF f
    <3> QED BY <1>0, <1>t, <2>1 DEF IsVisited
  <2> QED BY <1>0, <2>2
<1>2. ASSUME NEW n \in 1..d, n - 1 \in T PROVE n \in T
  <2>1. PICK f : IsVisited(f, s, d, ps, wl, n - 1)
    BY <1>2
  <2> DEFINE g == [c \in CalledFor(d) |-> IF Len(c) = d - n THEN Visit(f, s, d, ps, wl, c) ELSE f[c]]
  <2>2. \A c \in CalledFor(d) : Len(c) = d - n => g[c] = Visit(f, s, d, ps, wl, c)
    BY Zenon
  <2>e. \A c \in CalledFor(d) : Len(c) # d - n => g[c] = f[c]
    BY Zenon
  <2>3. g = [c \in CalledFor(d) |-> g[c]]
    OBVIOUS
  <2> HIDE DEF g
  <2>4. ASSUME NEW c \in CalledFor(d), Len(c) >= d - n
        PROVE  g[c] = Visit(g, s, d, ps, wl, c)
    <3>1. g[c] = Visit(f, s, d, ps, wl, c)
      <4>1. CASE Len(c) = d - n
        BY <2>2, <4>1
      <4>2. CASE Len(c) # d - n
        <5>1. Len(c) >= d - (n - 1)
          BY <1>0, <1>t, <2>4, <4>2
        <5>2. f[c] = Visit(f, s, d, ps, wl, c)
          BY <2>1, <5>1 DEF IsVisited
        <5> QED BY <2>e, <4>2, <5>2
      <4> QED BY <4>1, <4>2
    <3>2. ASSUME Len(c) # d - 1, NEW i \in 1..Arity
          PROVE  f[Append(c, i)] = g[Append(c, i)]
      <4>1. c \in Tree /\ Len(c) \in 0..(d - 1) /\ Len(c) < MaxLevels
        BY <1>0, <1>t
      <4> DEFINE a == Append(c, i)
      <4>2. a \in Tree /\ Len(a) = Len(c) + 1
        BY <4>1, SubCellInTree
      <4> HIDE DEF a
      <4>3. a \in CalledFor(d) /\ Len(a) # d - n
        BY <1>0, <1>v, <2>4, <3>2, <4>1, <4>2
      <4>4. f[a] = g[a]
        BY <2>e, <4>3
      <4> QED BY <4>4 DEF a
    <3>3. c \in Tree
      BY <1>t
    <3>4. Len(c) # d - 1 => \A i \in 1..Arity : f[Append(c, i)] = g[Append(c, i)]
      BY <3>2
    <3>5. Visit(f, s, d, ps, wl, c) = Visit(g, s, d, ps, wl, c)
      BY <3>3, <3>4, VisitDependsOnCalls
    <3> QED BY <3>1, <3>5
  <2>5. IsVisited(g, s, d, ps, wl, n)
    BY <2>3, <2>4 DEF IsVisited
  <2> QED BY <2>5
<1> HIDE DEF T
<1>3. d \in T
  <2>1. \A k \in 0..d : k \in T
    BY <1>0, <1>1, <1>2, CountUp
  <2> QED BY <1>0, <2>1
<1>4. PICK f : IsVisited(f, s, d, ps, wl, d)
  BY <1>3 DEF T
<1>5. f = [c \in CalledFor(d) |-> f[c]] /\ \A c \in CalledFor(d) : f[c] = Visit(f, s, d, ps, wl, c)
  BY <1>0, <1>4, <1>t DEF IsVisited
<1>6. AreCalls(f, s, d, ps, wl)
  BY <1>5, Zenon DEF AreCalls
<1> QED BY <1>6

(* recursiveGetNodes() is the call for the world cell.                     *)
LEMMA CallForWorld ==
  ASSUME NEW d \in 1..MaxLevels, NEW s, NEW ps \in BOOLEAN, NEW wl \in BOOLEAN
  PROVE  \E f : /\ AreCalls(f, s, d, ps, wl)
                /\ RecursiveGetNodes(s, d, ps, wl) = f[WorldCell]
<1> DEFINE f == CHOOSE h : AreCalls(h, s, d, ps, wl)
<1>1. AreCalls(f, s, d, ps, wl)
  BY VisitsEnd
<1>2. RecursiveGetNodes(s, d, ps, wl) = f[WorldCell]
  BY DEF RecursiveGetNodes, AreCalls, CalledFor, Visit, Loop
<1> HIDE DEF f
<1> QED BY <1>1, <1>2

(* What the recursion returns for a shape that is no point.                *)
LEMMA CallsCover ==
  ASSUME NEW d \in 1..MaxLevels, NEW s, IsUsed(s), ~IsPoint(s), NEW f, AreCalls(f, s, d, TRUE, FALSE)
  PROVE  \A c \in CalledFor(d) : CellTouches(c, s) => CoverList(c, s, d, f[c])
<1>0. d \in Nat /\ d <= MaxLevels /\ MaxLevels \in Nat
  BY MaxLevelsAssumption
<1>v. CalledFor(d) = { c \in Tree : Len(c) <= d - 1 }
  BY VisitedCells
<1>t. \A c \in CalledFor(d) : c \in Tree /\ Len(c) \in 0..(d - 1)
  BY <1>0, <1>v, TreeFacts
<1>f. \A c \in CalledFor(d) : f[c] = Visit(f, s, d, TRUE, FALSE, c)
  BY Zenon DEF AreCalls
<1> DEFINE T == { n \in 0..d : \A c \in CalledFor(d) :
                    Len(c) >= d - n /\ CellTouches(c, s) => CoverList(c, s, d, f[c]) }
<1>1. 0 \in T
  BY <1>0, <1>t
<1>2. ASSUME NEW n \in 1..d, n - 1 \in T PROVE n \in T
  <2>1. ASSUME NEW c \in CalledFor(d), Len(c) >= d - n, CellTouches(c, s)
        PROVE  CoverList(c, s, d, f[c])
    <3>1. c \in Tree /\ Len(c) \in 0..(d - 1) /\ Len(c) < d /\ Len(c) < MaxLevels
      BY <1>0, <1>t
    <3>2. ASSUME Len(c) < d - 1, NEW i \in 1..Arity, CellTouches(Append(c, i), s)
          PROVE  CoverList(Append(c, i), s, d, f[Append(c, i)])
      <4> DEFINE a == Append(c, i)
      <4>1. a \in Tree /\ Len(a) = Len(c) + 1
        BY <3>1, SubCellInTree
      <4>2. CellTouches(a, s)
        BY <3>2
      <4> HIDE DEF a
      <4>3. a \in CalledFor(d) /\ Len(a) >= d - (n - 1)
        BY <1>0, <1>v, <2>1, <3>1, <3>2, <4>1
      <4>4. CoverList(a, s, d, f[a])
        BY <1>2, <4>2, <4>3
      <4> QED BY <4>4 DEF a
    <3>3. Len(c) < d - 1 => \A i \in 1..Arity : CellTouches(Append(c, i), s) =>
                              CoverList(Append(c, i), s, d, f[Append(c, i)])
      BY <3>2
    <3>4. CoverList(c, s, d, Visit(f, s, d, TRUE, FALSE, c))
      BY <2>1, <3>1, <3>3, VisitCovers
    <3> QED BY <1>f, <3>4
  <2> QED BY <2>1
<1> HIDE DEF T
<1>3. d \in T
  <2>1. \A k \in 0..d : k \in T
    BY <1>0, <1>1, <1>2, CountUp
  <2> QED BY <1>0, <2>1
<1> QED BY <1>0, <1>3, <1>t DEF T

LEMMA NodesOfShape ==
  ASSUME NEW d \in 1..MaxLevels, NEW s, IsOfWorld(s), ~IsPoint(s)
  PROVE  LET q == RecursiveGetNodes(s, d, TRUE, FALSE) IN
         /\ CoverList(WorldCell, s, d, q)
         /\ MakesWorldLeaf(s, d) => q = << Node(WorldCell, TRUE) >>
         /\ ~MakesWorldLeaf(s, d) => Len(q) > 0 /\ q[1] = Node(WorldCell, FALSE)
<1>0. d \in Nat /\ d <= MaxLevels /\ MaxLevels \in Nat
  BY MaxLevelsAssumption
<1>1. IsUsed(s) /\ CellTouches(WorldCell, s)
  BY TouchesWorld
<1>2. WorldCell \in Tree /\ Len(WorldCell) = 0 /\ Len(WorldCell) < d
  BY <1>0, CellsAreInTree, TreeFacts
<1>3. PICK f : AreCalls(f, s, d, TRUE, FALSE) /\ RecursiveGetNodes(s, d, TRUE, FALSE) = f[WorldCell]
  BY ZenonT(60), CallForWorld
<1>4. \A c \in CalledFor(d) : CellTouches(c, s) => CoverList(c, s, d, f[c])
  BY <1>1, <1>3, CallsCover
<1>5. WorldCell \in CalledFor(d)
  BY <1>0, <1>2, VisitedCells
<1>6. f[WorldCell] = Visit(f, s, d, TRUE, FALSE, WorldCell)
  BY <1>3, <1>5, Zenon DEF AreCalls
<1>7. \A i \in 1..Arity : Len(WorldCell) < d - 1 => Append(WorldCell, i) \in CalledFor(d)
  <2>1. WorldCell \in Tree /\ Len(WorldCell) \in Nat
    BY <1>2
  <2> QED BY <2>1, NextCallIsMade
<1>8. Len(WorldCell) < d - 1 => \A i \in 1..Arity : CellTouches(Append(WorldCell, i), s) =>
        CoverList(Append(WorldCell, i), s, d, f[Append(WorldCell, i)])
  BY <1>4, <1>7
<1> DEFINE q == Visit(f, s, d, TRUE, FALSE, WorldCell)
<1>9. /\ CoverList(WorldCell, s, d, q)
      /\ IF MakesWorldLeaf(s, d) THEN q = << Node(WorldCell, TRUE) >>
         ELSE Len(q) > 0 /\ q[1] = Node(WorldCell, FALSE)
  <2> HIDE DEF q
  <2>1. WorldCell = WorldCell =>
              IF MakesWorldLeaf(s, d) THEN Visit(f, s, d, TRUE, FALSE, WorldCell) = << Node(WorldCell, TRUE) >>
              ELSE Len(Visit(f, s, d, TRUE, FALSE, WorldCell)) > 0 /\ Visit(f, s, d, TRUE, FALSE, WorldCell)[1] = Node(WorldCell, FALSE)
    BY <1>1, <1>2, <1>8, VisitCovers
  <2>2. CoverList(WorldCell, s, d, Visit(f, s, d, TRUE, FALSE, WorldCell))
    BY <1>1, <1>2, <1>8, VisitCovers
  <2> QED BY <2>1, <2>2 DEF q
<1> HIDE DEF q
<1>10. RecursiveGetNodes(s, d, TRUE, FALSE) = q
  BY <1>3, <1>6 DEF q
<1> QED BY <1>9, <1>10

LEMMA NodesOfLeafWorld ==
  ASSUME NEW d \in 1..MaxLevels, NEW s
  PROVE  RecursiveGetNodes(s, d, TRUE, TRUE) = << Node(WorldCell, TRUE) >>
<1>1. PICK f : AreCalls(f, s, d, TRUE, TRUE) /\ RecursiveGetNodes(s, d, TRUE, TRUE) = f[WorldCell]
  BY ZenonT(60), CallForWorld
<1>2. WorldCell \in CalledFor(d)
  BY CellsAreInTree, TreeFacts, VisitedCells, MaxLevelsAssumption
<1>3. f[WorldCell] = Visit(f, s, d, TRUE, TRUE, WorldCell)
  BY <1>1, <1>2, Zenon DEF AreCalls
<1> QED BY <1>1, <1>3 DEF Visit

-----------------------------------------------------------------------------
(* The lists of cells that createField() makes.                            *)
FieldNode == [cell : Cells, leaf : BOOLEAN]

(* The centre alone.                                                       *)
IsCentreList(L) ==
  L \in Seq(FieldNode) /\ Len(L) = 1 /\ ~L[1].leaf /\ Len(L[1].cell) = MaxLevels

(* The cells of a shape, then its centre.                                  *)
IsShapeList(L, s, d) ==
  /\ L \in Seq(FieldNode) /\ Len(L) >= 1
  /\ ~L[Len(L)].leaf /\ Len(L[Len(L)].cell) = MaxLevels /\ CellTouches(L[Len(L)].cell, s)
  /\ \A i \in 1..(Len(L) - 1) : Len(L[i].cell) <= d
  /\ \A i, j \in 1..(Len(L) - 1) : i < j => Less(L[i].cell, L[j].cell)
  /\ \A x \in Cells : Len(x) = d =>
       (CellTouches(x, s) <=> \E i \in 1..Len(L) : L[i].leaf /\ StartsWith(x, L[i].cell))
  /\ \A i \in 1..(Len(L) - 1) : ~L[i].leaf =>
       \E j \in 1..Len(L) : L[j].cell # L[i].cell /\ StartsWith(L[j].cell, L[i].cell)
  /\ \A i \in 1..(Len(L) - 1) : \A k \in 1..Len(L[i].cell) :
       \E j \in 1..Len(L) : L[j].cell = SubSeq(L[i].cell, 1, k)
  /\ \E i \in 1..Len(L) : L[i].leaf /\ StartsWith(L[Len(L)].cell, L[i].cell)

(* The cells of a point, down to full length.                              *)
IsPointList(L, s) ==
  /\ L \in Seq(FieldNode) /\ Len(L) = MaxLevels
  /\ \A i \in 1..Len(L) : ~L[i].leaf /\ Len(L[i].cell) = i /\ CellTouches(L[i].cell, s)
  /\ \A i, j \in 1..Len(L) : i < j => Less(L[i].cell, L[j].cell) /\ StartsWith(L[j].cell, L[i].cell)
  /\ \A i \in 1..Len(L) : \A k \in 1..i : L[k].cell = SubSeq(L[i].cell, 1, k)

LEMMA CentreNode ==
  ASSUME NEW s, IsOfWorld(s)
  PROVE  /\ CenterNode(s) \in FieldNode /\ ~CenterNode(s).leaf /\ Len(CenterNode(s).cell) = MaxLevels
         /\ CellTouches(CenterNode(s).cell, s)
         /\ IsCentreList(<< CenterNode(s) >>)
         /\ \A d \in 1..MaxLevels : /\ PointCell(Center(s), d) \in Cells
                                    /\ Len(PointCell(Center(s), d)) = d
                                    /\ CellTouches(PointCell(Center(s), d), s)
                                    /\ StartsWith(CenterNode(s).cell, PointCell(Center(s), d))
<1> DEFINE p == Center(s)
<1>0. MaxLevels \in 1..MaxLevels
  BY MaxLevelsAssumption
<1>1. IsUsed(p) /\ CellTouches(WorldCell, p) /\ \A c : CellTouches(c, p) => CellTouches(c, s)
  BY CentreOfShape
<1> HIDE DEF p
<1>2. ASSUME NEW d \in 1..MaxLevels
      PROVE  /\ PointCell(p, d) \in Cells /\ Len(PointCell(p, d)) = d
             /\ CellTouches(PointCell(p, d), s)
             /\ StartsWith(PointCell(p, MaxLevels), PointCell(p, d))
  <2>1. d \in 0..MaxLevels /\ MaxLevels \in 0..MaxLevels
    BY <1>0
  <2>2. PointCell(p, d) \in Tree /\ Len(PointCell(p, d)) = d /\ CellTouches(PointCell(p, d), p)
    BY <1>1, <2>1, PointCells
  <2>3. StartsWith(PointCell(p, MaxLevels), PointCell(p, d))
    BY <1>1, <2>1, PointCells
  <2>4. PointCell(p, d) \in Cells
    BY <2>2, TreeFacts
  <2> QED BY <1>1, <2>2, <2>3, <2>4
<1> DEFINE e == CenterNode(s)
<1>3. e.cell = PointCell(p, MaxLevels) /\ e.leaf = FALSE /\ e \in FieldNode
  BY <1>0, <1>2 DEF CenterNode, Node, FieldNode, p
<1>4. Len(e.cell) = MaxLevels /\ CellTouches(e.cell, s)
  BY <1>0, <1>2, <1>3
<1> HIDE DEF e
<1>5. IsCentreList(<< e >>)
  BY <1>3, <1>4 DEF IsCentreList
<1> QED BY <1>2, <1>3, <1>4, <1>5 DEF e, p

LEMMA ListOfCover ==
  ASSUME NEW d \in 1..MaxLevels, NEW s, IsOfWorld(s), NEW q, CoverList(WorldCell, s, d, q),
         Len(q) > 0, q[1] = Node(WorldCell, FALSE)
  PROVE  IsShapeList(Append(Tail(q), CenterNode(s)), s, d)
<1> DEFINE n == Len(q)
           e == CenterNode(s)
           L == Append(Tail(q), e)
<1>e. /\ e \in FieldNode /\ ~e.leaf /\ Len(e.cell) = MaxLevels /\ CellTouches(e.cell, s)
      /\ PointCell(Center(s), d) \in Cells /\ Len(PointCell(Center(s), d)) = d
      /\ CellTouches(PointCell(Center(s), d), s) /\ StartsWith(e.cell, PointCell(Center(s), d))
      /\ e.cell \in Cells
  BY CentreNode DEF FieldNode
<1> HIDE DEF e
<1>q. /\ q \in Seq(TreeNodes) /\ NodesInOrder(q) /\ IsCover(WorldCell, s, d, Elems(q))
      /\ n \in Nat \ {0} /\ q # << >>
  BY DEF CoverList
<1>w. WorldCell \in Tree /\ Len(WorldCell) = 0 /\ q[1].cell = WorldCell /\ q[1].leaf = FALSE
  BY CellsAreInTree, NodeFacts, TreeFacts
<1>1. /\ Tail(q) \in Seq(TreeNodes) /\ Len(Tail(q)) = n - 1
      /\ \A i \in 1..(n - 1) : Tail(q)[i] = q[i + 1]
  BY <1>q, HeadTailProperties
<1>2. \A k \in 1..n : q[k] \in TreeNodes /\ q[k] \in Elems(q) /\ q[k].cell \in Tree /\ q[k].leaf \in BOOLEAN
  <2>1. \A k \in 1..n : q[k] \in TreeNodes
    BY <1>q, ElementOfSeq
  <2>2. \A k \in 1..n : q[k] \in Elems(q)
    BY DEF Elems
  <2> QED BY <2>1, <2>2 DEF TreeNodes
<1>3. ASSUME NEW k \in 2..n
      PROVE  q[k] \in FieldNode /\ q[k].cell # WorldCell
  <2>1. k \in 1..n /\ 1 \in 1..n /\ 1 < k
    BY <1>q
  <2>2. Less(WorldCell, q[k].cell)
    BY <1>q, <1>w, <2>1 DEF NodesInOrder
  <2>3. q[k].cell # WorldCell
    BY <1>2, <2>1, <2>2, TreeFacts, LessIrreflexive
  <2>4. q[k].cell \in Cells /\ q[k] \in TreeNodes
    BY <1>2, <2>1, <2>3, TreeFacts
  <2> QED BY <2>3, <2>4 DEF TreeNodes, FieldNode
<1>4. \A i \in 1..(n - 1) : Tail(q)[i] \in FieldNode
  BY <1>1, <1>3, <1>q
<1>5. Tail(q) \in Seq(FieldNode)
  <2>1. Tail(q) \in [1..(n - 1) -> FieldNode] /\ n - 1 \in Nat
    BY <1>1, <1>4, <1>q, LenProperties
  <2> QED BY <2>1, FunctionIsSeq
<1>6. /\ L \in Seq(FieldNode) /\ Len(L) = n /\ L[n] = e
      /\ \A i \in 1..(n - 1) : L[i] = q[i + 1]
  <2>1. /\ L \in Seq(FieldNode) /\ Len(L) = (n - 1) + 1 /\ L[(n - 1) + 1] = e
        /\ \A i \in 1..(n - 1) : L[i] = Tail(q)[i]
    BY <1>1, <1>5, <1>e, AppendProperties
  <2> QED BY <1>1, <1>q, <2>1
<1> HIDE DEF L
<1>7. ASSUME NEW f \in Elems(q), f.cell # WorldCell
      PROVE  \E j \in 1..(n - 1) : L[j] = f
  <2>1. PICK k \in 1..n : f = q[k]
    BY DEF Elems
  <2>2. k # 1
    BY <1>7, <1>w, <2>1
  <2>3. k - 1 \in 1..(n - 1) /\ L[k - 1] = q[k - 1 + 1] /\ k - 1 + 1 = k
    BY <1>6, <1>q, <2>2
  <2> QED BY <2>1, <2>3
<1>8. \A i \in 1..(n - 1) : /\ i + 1 \in 2..n /\ i + 1 \in 1..n /\ L[i] = q[i + 1] /\ L[i] \in Elems(q)
                            /\ L[i].cell \in Tree /\ L[i].cell # WorldCell
  BY <1>2, <1>3, <1>6, <1>q
<1>a. \A i, j \in 1..(n - 1) : i < j => Less(L[i].cell, L[j].cell)
  <2> SUFFICES ASSUME NEW i \in 1..(n - 1), NEW j \in 1..(n - 1), i < j
               PROVE  Less(L[i].cell, L[j].cell)
    OBVIOUS
  <2>1. i + 1 \in 1..Len(q) /\ j + 1 \in 1..Len(q) /\ i + 1 < j + 1
    BY <1>8
  <2> QED BY <1>8, <1>q, <2>1 DEF NodesInOrder
<1>b. ASSUME NEW x \in Cells, Len(x) = d
      PROVE  CellTouches(x, s) <=> \E i \in 1..n : L[i].leaf /\ StartsWith(x, L[i].cell)
  <2>1. x \in Tree /\ StartsWith(x, WorldCell)
    BY CellsAreInTree, Begins
  <2>2. CellTouches(x, s) <=> \E f \in Elems(q) : f.leaf /\ StartsWith(x, f.cell)
    BY <1>b, <1>q, <2>1 DEF IsCover
  <2>3. ASSUME NEW f \in Elems(q), f.leaf, StartsWith(x, f.cell)
        PROVE  \E i \in 1..n : L[i].leaf /\ StartsWith(x, L[i].cell)
    <3>1. PICK k \in 1..n : f = q[k]
      BY DEF Elems
    <3>2. k # 1
      BY <1>w, <2>3, <3>1
    <3>3. k - 1 \in 1..n /\ k - 1 \in 1..(n - 1) /\ L[k - 1] = q[k - 1 + 1] /\ k - 1 + 1 = k
      BY <1>6, <1>q, <3>2
    <3> QED BY <2>3, <3>1, <3>3
  <2>4. ASSUME NEW i \in 1..n, L[i].leaf, StartsWith(x, L[i].cell)
        PROVE  \E f \in Elems(q) : f.leaf /\ StartsWith(x, f.cell)
    <3>1. i # n
      BY <1>6, <1>e, <2>4
    <3>2. i \in 1..(n - 1)
      BY <1>q, <3>1
    <3> QED BY <1>8, <2>4, <3>2
  <2> QED BY <2>2, <2>3, <2>4
<1>c. ASSUME NEW i \in 1..(n - 1), ~L[i].leaf
      PROVE  \E j \in 1..n : L[j].cell # L[i].cell /\ StartsWith(L[j].cell, L[i].cell)
  <2>1. PICK f \in Elems(q) : f.cell # L[i].cell /\ StartsWith(f.cell, L[i].cell)
    BY <1>c, <1>8, <1>q DEF IsCover
  <2>2. f.cell # WorldCell
    <3>1. L[i].cell \in Tree /\ Len(L[i].cell) > 0
      BY <1>8, TreeFacts
    <3> QED BY <1>w, <2>1, <3>1 DEF StartsWith
  <2>3. PICK j \in 1..(n - 1) : L[j] = f
    BY <1>7, <2>2
  <2>4. j \in 1..n
    BY <1>q
  <2> QED BY <2>1, <2>3, <2>4
<1>d. ASSUME NEW i \in 1..(n - 1), NEW k \in 1..Len(L[i].cell)
      PROVE  \E j \in 1..n : L[j].cell = SubSeq(L[i].cell, 1, k)
  <2>1. k \in Len(WorldCell)..Len(L[i].cell) /\ k \in 0..Len(L[i].cell) /\ k > 0 /\ L[i].cell \in Seq(1..Arity)
    BY <1>8, <1>w, TreeFacts
  <2>2. PICK f \in Elems(q) : f.cell = SubSeq(L[i].cell, 1, k)
    BY <1>8, <1>q, <2>1 DEF IsCover
  <2>3. f.cell # WorldCell
    <3>1. Len(SubSeq(L[i].cell, 1, k)) = k
      BY <2>1, FirstOnes
    <3> QED BY <1>w, <2>1, <2>2, <3>1
  <2>4. PICK j \in 1..(n - 1) : L[j] = f
    BY <1>7, <2>3
  <2>5. j \in 1..n
    BY <1>q
  <2> QED BY <2>2, <2>4, <2>5
<1>f. \E i \in 1..n : L[i].leaf /\ StartsWith(L[n].cell, L[i].cell)
  <2> DEFINE x == PointCell(Center(s), d)
  <2>x. x \in Cells /\ Len(x) = d /\ CellTouches(x, s) /\ StartsWith(e.cell, x)
    BY <1>e
  <2> HIDE DEF x
  <2>1. PICK i \in 1..n : L[i].leaf /\ StartsWith(x, L[i].cell)
    BY <1>b, <2>x
  <2>2. L[i].cell \in Tree
    <3>1. i # n
      BY <1>6, <1>e, <2>1
    <3>2. i \in 1..(n - 1)
      BY <1>q, <3>1
    <3> QED BY <1>8, <3>2
  <2>3. x \in Tree /\ e.cell \in Tree
    BY <1>e, <2>x, CellsAreInTree
  <2>4. StartsWith(e.cell, L[i].cell)
    BY <2>x, <2>1, <2>2, <2>3, Begins
  <2> QED BY <1>6, <2>1, <2>4
<1>g. Len(L) >= 1 /\ ~L[Len(L)].leaf /\ Len(L[Len(L)].cell) = MaxLevels /\ CellTouches(L[Len(L)].cell, s)
  BY <1>6, <1>e, <1>q
<1>h. \A i \in 1..(n - 1) : Len(L[i].cell) <= d
  BY <1>8, <1>q DEF IsCover
<1> HIDE DEF n
<1> QED BY ZenonT(60), <1>6, <1>a, <1>b, <1>c, <1>d, <1>f, <1>g, <1>h DEF IsShapeList, L, e

LEMMA ListsOfShape ==
  ASSUME NEW d \in 1..MaxLevels, NEW s, IsOfWorld(s), ~IsPoint(s)
  PROVE  /\ IsCentreList(FieldNodes(s, d, TRUE))
         /\ MakesWorldLeaf(s, d) => IsCentreList(FieldNodes(s, d, FALSE))
         /\ ~MakesWorldLeaf(s, d) => IsShapeList(FieldNodes(s, d, FALSE), s, d)
<1> DEFINE q == RecursiveGetNodes(s, d, TRUE, FALSE)
           leaf == << Node(WorldCell, TRUE) >>
           e == CenterNode(s)
<1>1. /\ CoverList(WorldCell, s, d, q)
      /\ MakesWorldLeaf(s, d) => q = leaf
      /\ ~MakesWorldLeaf(s, d) => Len(q) > 0 /\ q[1] = Node(WorldCell, FALSE)
  BY NodesOfShape
<1>2. RecursiveGetNodes(s, d, TRUE, TRUE) = leaf
  BY NodesOfLeafWorld
<1>3. Tail(leaf) = << >>
  OBVIOUS
<1>4. IsCentreList(<< e >>) /\ Append(<< >>, e) = << e >>
  BY CentreNode
<1> HIDE DEF q, leaf, e
<1>5. /\ FieldNodes(s, d, TRUE) = Append(Tail(leaf), e)
      /\ FieldNodes(s, d, FALSE) = Append(Tail(q), e)
  BY <1>2 DEF FieldNodes, GetShapeNodes, q, leaf, e
<1>6. ~MakesWorldLeaf(s, d) => IsShapeList(Append(Tail(q), e), s, d)
  BY <1>1, ListOfCover DEF e
<1> QED BY <1>1, <1>3, <1>4, <1>5, <1>6

LEMMA ListOfPoint ==
  ASSUME NEW s, IsOfWorld(s), IsPoint(s)
  PROVE  IsPointList(FieldNodes(s, MaxLevels, FALSE), s)
<1> DEFINE L == FieldNodes(s, MaxLevels, FALSE)
<1>0. MaxLevels \in Nat
  BY MaxLevelsAssumption
<1>1. L = [n \in 1..MaxLevels |-> Node(PointCell(s, n), FALSE)]
  BY DEF FieldNodes, GetPointNodes
<1> HIDE DEF L
<1>2. IsUsed(s) /\ CellTouches(WorldCell, s)
  BY TouchesWorld
<1>3. ASSUME NEW l \in 1..MaxLevels
      PROVE  /\ PointCell(s, l) \in Cells /\ PointCell(s, l) \in Tree
             /\ Len(PointCell(s, l)) = l /\ CellTouches(PointCell(s, l), s)
             /\ \A k \in 1..l : /\ StartsWith(PointCell(s, l), PointCell(s, k))
                                /\ SubSeq(PointCell(s, l), 1, k) = PointCell(s, k)
  <2>1. l \in 0..MaxLevels /\ \A k \in 1..l : k \in 0..l
    BY <1>0
  <2>2. PointCell(s, l) \in Tree /\ Len(PointCell(s, l)) = l /\ CellTouches(PointCell(s, l), s)
    BY <1>2, <2>1, PointCells
  <2>3. \A k \in 0..l : /\ StartsWith(PointCell(s, l), PointCell(s, k))
                        /\ SubSeq(PointCell(s, l), 1, k) = PointCell(s, k)
    BY <1>2, <2>1, PointCells
  <2>4. PointCell(s, l) \in Cells
    BY <2>2, TreeFacts
  <2> QED BY <2>1, <2>2, <2>3, <2>4
<1>4. ASSUME NEW l \in 1..MaxLevels
      PROVE  L[l] \in FieldNode /\ L[l].cell = PointCell(s, l) /\ ~L[l].leaf
  BY <1>1, <1>3 DEF Node, FieldNode
<1>5. L \in Seq(FieldNode) /\ Len(L) = MaxLevels
  <2>1. L \in [1..MaxLevels -> FieldNode]
    BY <1>1, <1>4, Zenon
  <2> QED BY <1>0, <2>1, FunctionIsSeq
<1>6. ASSUME NEW i \in 1..MaxLevels, NEW j \in 1..MaxLevels, i < j
      PROVE  Less(L[i].cell, L[j].cell) /\ StartsWith(L[j].cell, L[i].cell)
  <2>1. i \in 1..j
    BY <1>0, <1>6
  <2>2. StartsWith(L[j].cell, L[i].cell)
    BY <1>3, <1>4, <2>1
  <2>3. Len(L[i].cell) < Len(L[j].cell)
    BY <1>3, <1>4, <1>6
  <2> QED BY <2>2, <2>3 DEF Less
<1>7. ASSUME NEW i \in 1..MaxLevels, NEW k \in 1..i
      PROVE  L[k].cell = SubSeq(L[i].cell, 1, k)
  <2>1. k \in 1..MaxLevels
    BY <1>0
  <2> QED BY <1>3, <1>4, <2>1
<1>8. \A i \in 1..MaxLevels : ~L[i].leaf /\ Len(L[i].cell) = i /\ CellTouches(L[i].cell, s)
  BY <1>3, <1>4
<1> QED BY <1>5, <1>6, <1>7, <1>8 DEF IsPointList, L

LEMMA DetailLevelsExist ==
  ASSUME NEW s, NEW d \in DetailLevels(s)
  PROVE  d \in 1..MaxLevels /\ (IsPoint(s) => d = MaxLevels)
BY MaxLevelsAssumption DEF DetailLevels


-----------------------------------------------------------------------------
(* A token stream over a list L of cells.                                  *)

(* The leaf byte sorts before every letter.                                *)
LEMMA MarkedIsBetween ==
  ASSUME NEW c \in Cells
  PROVE  /\ Less(c, Marked(c))
         /\ \A x \in Cells : Less(c, x) => Less(Marked(c), x)
<1>1. c \in Seq(Nat) /\ Len(c) \in Nat
  BY CellsAreSequences
<1> DEFINE m == Marked(c)
<1>2. m \in Seq(Nat) /\ Len(m) = Len(c) + 1 /\ m[Len(c) + 1] = 0 /\ \A j \in 1..Len(c) : m[j] = c[j]
  BY <1>1 DEF Marked, LeafByte
<1>3. Less(c, m)
  <2> HIDE DEF m
  <2> QED BY <1>1, <1>2 DEF Less, StartsWith
<1>4. ASSUME NEW x \in Cells, Less(c, x) PROVE Less(m, x)
  <2>1. x \in Seq(Nat) /\ Len(x) \in Nat /\ \A i \in 1..Len(x) : x[i] \in 1..Arity
    BY CellsAreSequences
  <2>2. CASE Before(c, x)
    <3>1. Before(m, x)
      BY <1>1, <2>1, <2>2, BeforeAppend DEF Marked, LeafByte
    <3> QED BY <3>1 DEF Less
  <2>3. CASE Len(c) < Len(x) /\ StartsWith(x, c)
    <3>1. Len(c) + 1 \in 1..Len(m) /\ Len(c) + 1 \in 1..Len(x) /\ Len(c) + 1 <= Len(x)
      BY <1>1, <1>2, <2>1, <2>3
    <3>2. m[Len(c) + 1] < x[Len(c) + 1]
      BY <1>2, <2>1, <3>1, ArityAssumption
    <3>3. \A j \in 1..(Len(c) + 1 - 1) : m[j] = x[j]
      BY <1>1, <1>2, <2>3 DEF StartsWith
    <3> HIDE DEF m
    <3>4. Before(m, x)
      BY <3>1, <3>2, <3>3 DEF Before
    <3> QED BY <3>4 DEF Less
  <2> QED BY <1>4, <2>2, <2>3 DEF Less
<1> QED BY <1>3, <1>4

LEMMA CellsAreTerms ==
  ASSUME NEW c \in Cells
  PROVE  /\ c \in Terms /\ Marked(c) \in Terms
         /\ ~IsMarked(c) /\ CellOf(c) = c
         /\ IsMarked(Marked(c)) /\ CellOf(Marked(c)) = c
         /\ Marked(c) # c /\ StartsWith(Marked(c), c)
<1>1. /\ c \in Seq(Nat) /\ Len(c) \in 1..MaxLevels /\ c \in Seq(1..Arity)
      /\ \A i \in 1..Len(c) : c[i] \in 1..Arity
  BY CellsAreSequences DEF Cells
<1>2. ArityAssumption!1 /\ MaxLevels \in Nat
  BY ArityAssumption, MaxLevelsAssumption
<1>3. c \in Seq(0..Arity)
  <2>1. 1..Arity \subseteq 0..Arity
    BY <1>2
  <2> QED BY <1>1, <2>1, SeqMonotonic
<1> DEFINE m == Marked(c)
<1>4. /\ m \in Seq(0..Arity) /\ Len(m) = Len(c) + 1 /\ m[Len(c) + 1] = 0
      /\ \A j \in 1..Len(c) : m[j] = c[j]
  BY <1>1, <1>2, <1>3 DEF Marked, LeafByte
<1>5. c \in Terms /\ ~IsMarked(c) /\ CellOf(c) = c
  BY <1>1, <1>2, <1>3 DEF Terms, IsMarked, CellOf, LeafByte
<1> HIDE DEF m
<1>6. m \in Terms
  <2>1. Len(m) \in 2..(MaxLevels + 1)
    BY <1>1, <1>2, <1>4
  <2>2. m[Len(m)] = 0 /\ \A i \in 1..(Len(m) - 1) : m[i] # 0
    BY <1>1, <1>4
  <2> QED BY <1>4, <2>1, <2>2 DEF Terms, LeafByte
<1>7. IsMarked(m)
  BY <1>1, <1>4 DEF IsMarked, LeafByte
<1>8. CellOf(m) = c
  <2>1. Len(c) \in 0..Len(m) /\ Len(m) - 1 = Len(c)
    BY <1>1, <1>4
  <2>2. SubSeq(m, 1, Len(c)) \in Seq(0..Arity) /\ Len(SubSeq(m, 1, Len(c))) = Len(c)
        /\ \A k \in 1..Len(c) : SubSeq(m, 1, Len(c))[k] = m[k]
    BY <1>4, <2>1, FirstOnes
  <2>3. SubSeq(m, 1, Len(c)) = c
    BY <1>3, <1>4, <2>2, SeqEqual
  <2> QED BY <1>7, <2>1, <2>3 DEF CellOf
<1>9. m # c /\ StartsWith(m, c)
  BY <1>1, <1>4 DEF StartsWith
<1> QED BY <1>5, <1>6, <1>7, <1>8, <1>9 DEF m

(* A token of the j-th cell.                                               *)
IsTokenOf(L, j, x) == x = L[j].cell \/ (L[j].leaf /\ x = Marked(L[j].cell))

(* What a stream has done after k cells of L, of which m are in order.     *)
Streamed(L, m, k, it, pend, toks) ==
  /\ k \in 0..Len(L)
  /\ it \in Seq(FieldNode) /\ Len(it) = Len(L) - k /\ \A i \in 1..Len(it) : it[i] = L[k + i]
  /\ \/ pend = << >>
     \/ k > 0 /\ L[k].leaf /\ pend = << L[k].cell >>
  /\ toks \in Seq(Terms)
  /\ k = 0 => Len(toks) = 0
  /\ k > 0 =>
       /\ Len(toks) > 0
       /\ L[k].leaf /\ pend = << >> => toks[Len(toks)] = Marked(L[k].cell)
       /\ ~(L[k].leaf /\ pend = << >>) => toks[Len(toks)] = L[k].cell
  /\ \A i \in 1..Len(toks) : \E j \in 1..k :
       IsTokenOf(L, j, toks[i]) /\ (i = Len(toks) \/ j < k \/ L[j].leaf)
  /\ \A j \in 1..k :
       /\ \E i \in 1..Len(toks) : toks[i] = L[j].cell
       /\ L[j].leaf /\ (j < k \/ pend = << >>) => \E i \in 1..Len(toks) : toks[i] = Marked(L[j].cell)
  /\ \A i \in 1..(Len(toks) - 1) : k <= m \/ i + 1 < Len(toks) => Less(toks[i], toks[i + 1])
  /\ (\A j \in 1..k : ~L[j].leaf) => Len(toks) = k

(* A list of which the first m cells are in order, and no other is a leaf. *)
InOrderUpTo(L, m) ==
  /\ L \in Seq(FieldNode) /\ m \in {Len(L) - 1, Len(L)}
  /\ \A i, j \in 1..m : i < j => Less(L[i].cell, L[j].cell)
  /\ m < Len(L) => ~L[Len(L)].leaf

LEMMA NodesOfList ==
  ASSUME NEW L \in Seq(FieldNode), NEW j \in 1..Len(L)
  PROVE  L[j] \in FieldNode /\ L[j].cell \in Cells /\ L[j].leaf \in BOOLEAN
<1>1. L[j] \in FieldNode
  BY ElementOfSeq
<1> QED BY <1>1 DEF FieldNode

LEMMA StreamBegins ==
  ASSUME NEW L \in Seq(FieldNode), NEW m
  PROVE  Streamed(L, m, 0, L, << >>, << >>)
<1>1. Len(L) \in Nat /\ << >> \in Seq(Terms) /\ Len(<< >>) = 0
  OBVIOUS
<1>2. \A i \in 1..Len(L) : L[i] = L[0 + i]
  OBVIOUS
<1>3. Len(L) - 0 = Len(L) /\ 0 \in 0..Len(L)
  BY <1>1
<1> DEFINE none == << >>
<1> HIDE DEF none
<1>4. none = << >> /\ none \in Seq(Terms) /\ Len(none) = 0
  BY <1>1 DEF none
<1>5. Streamed(L, m, 0, L, none, none)
  BY <1>2, <1>3, <1>4 DEF Streamed
<1> QED BY <1>5 DEF none

LEMMA StreamOfLeaf ==
  ASSUME NEW L, NEW m, InOrderUpTo(L, m), NEW k, NEW it, NEW pend, pend # << >>, NEW toks,
         Streamed(L, m, k, it, pend, toks)
  PROVE  /\ Head(pend) \in Cells
         /\ Streamed(L, m, k, it, << >>, Append(toks, Marked(Head(pend))))
<1> DEFINE c == L[k].cell
           x == Marked(c)
           n == Len(toks)
           new == Append(toks, x)
<1>1. /\ k \in 1..Len(L) /\ L[k].leaf /\ pend = << c >> /\ Head(pend) = c
      /\ k \in Nat /\ Len(L) \in Nat
  <2>1. L \in Seq(FieldNode) /\ Len(L) \in Nat
    BY DEF InOrderUpTo
  <2>2. k \in 0..Len(L) /\ k > 0 /\ L[k].leaf /\ pend = << c >>
    BY DEF Streamed
  <2>3. Head(<< c >>) = c
    OBVIOUS
  <2> QED BY <2>1, <2>2, <2>3
<1>2. c \in Cells
  <2>1. L \in Seq(FieldNode)
    BY DEF InOrderUpTo
  <2>2. L[k] \in FieldNode
    BY <1>1, <2>1, ElementOfSeq
  <2> QED BY <2>2 DEF FieldNode
<1>3. x \in Terms /\ Less(c, x)
  BY <1>2, CellsAreTerms, MarkedIsBetween
<1>4. toks \in Seq(Terms) /\ n \in Nat /\ n > 0 /\ toks[n] = c
  BY <1>1 DEF Streamed
<1>5. /\ new \in Seq(Terms) /\ Len(new) = n + 1 /\ new[n + 1] = x
      /\ \A i \in 1..n : new[i] = toks[i]
  BY <1>3, <1>4, AppendProperties
<1> HIDE DEF new
<1>6. ASSUME NEW i \in 1..Len(new)
      PROVE  \E j \in 1..k : IsTokenOf(L, j, new[i]) /\ (i = Len(new) \/ j < k \/ L[j].leaf)
  <2>1. CASE i = n + 1
    BY <1>1, <1>5, <2>1 DEF IsTokenOf
  <2>2. CASE i # n + 1
    <3>1. i \in 1..n /\ new[i] = toks[i]
      BY <1>4, <1>5, <2>2
    <3>2. PICK j \in 1..k : IsTokenOf(L, j, toks[i])
      BY <3>1 DEF Streamed
    <3>3. j < k \/ L[j].leaf
      BY <1>1
    <3> QED BY <3>1, <3>2, <3>3
  <2> QED BY <2>1, <2>2
<1>7. ASSUME NEW j \in 1..k
      PROVE  /\ \E i \in 1..Len(new) : new[i] = L[j].cell
             /\ L[j].leaf => \E i \in 1..Len(new) : new[i] = Marked(L[j].cell)
  <2>1. \A i \in 1..n : i \in 1..Len(new)
    BY <1>4, <1>5
  <2>2. \E i \in 1..Len(new) : new[i] = L[j].cell
    <3>1. PICK i \in 1..n : toks[i] = L[j].cell
      BY DEF Streamed
    <3> QED BY <1>5, <2>1, <3>1
  <2>3. ASSUME L[j].leaf PROVE \E i \in 1..Len(new) : new[i] = Marked(L[j].cell)
    <3>1. CASE j = k
      <4>1. n + 1 \in 1..Len(new)
        BY <1>4, <1>5
      <4> QED BY <1>5, <3>1, <4>1
    <3>2. CASE j # k
      <4>1. j < k
        BY <1>1, <3>2
      <4>2. PICK i \in 1..n : toks[i] = Marked(L[j].cell)
        BY <2>3, <4>1 DEF Streamed
      <4> QED BY <1>5, <2>1, <4>2
    <3> QED BY <3>1, <3>2
  <2> QED BY <2>2, <2>3
<1>8. ASSUME NEW i \in 1..(Len(new) - 1), k <= m \/ i + 1 < Len(new)
      PROVE  Less(new[i], new[i + 1])
  <2>0. k <= m
    BY <1>1 DEF InOrderUpTo
  <2>1. CASE i = n
    BY <1>3, <1>4, <1>5, <2>1
  <2>2. CASE i # n
    <3>1. i \in 1..(n - 1) /\ i \in 1..n /\ i + 1 \in 1..n
      BY <1>4, <1>5, <2>2
    <3>2. Less(toks[i], toks[i + 1])
      BY <2>0, <3>1 DEF Streamed
    <3> QED BY <1>5, <3>1, <3>2
  <2> QED BY <2>1, <2>2
<1>9. ~(\A j \in 1..k : ~L[j].leaf)
  BY <1>1
<1>10. /\ it \in Seq(FieldNode) /\ Len(it) = Len(L) - k /\ \A i \in 1..Len(it) : it[i] = L[k + i]
       /\ k \in 0..Len(L)
  BY DEF Streamed
<1>11. Len(new) > 0 /\ new[Len(new)] = Marked(L[k].cell)
  BY <1>4, <1>5
<1>12. Streamed(L, m, k, it, << >>, new)
  <2> HIDE DEF x, c
  <2> QED BY <1>1, <1>5, <1>6, <1>7, <1>8, <1>9, <1>10, <1>11 DEF Streamed
<1> QED BY <1>1, <1>2, <1>12 DEF new

LEMMA StreamOfCell ==
  ASSUME NEW L, NEW m, InOrderUpTo(L, m), NEW k, NEW it, it # << >>, NEW toks,
         Streamed(L, m, k, it, << >>, toks)
  PROVE  /\ Head(it) \in FieldNode /\ Tail(it) \in Seq(FieldNode)
         /\ Streamed(L, m, k + 1, Tail(it),
                     IF Head(it).leaf THEN << Head(it).cell >> ELSE << >>,
                     Append(toks, Head(it).cell))
<1> DEFINE e == Head(it)
           c == L[k + 1].cell
           pend == IF e.leaf THEN << e.cell >> ELSE << >>
           n == Len(toks)
           new == Append(toks, e.cell)
<1>1. /\ L \in Seq(FieldNode) /\ Len(L) \in Nat /\ k \in 0..Len(L) /\ k \in Nat
      /\ m \in {Len(L) - 1, Len(L)} /\ \A i, j \in 1..m : i < j => Less(L[i].cell, L[j].cell)
  BY DEF InOrderUpTo, Streamed
<1>2. it \in Seq(FieldNode) /\ Len(it) = Len(L) - k /\ \A i \in 1..Len(it) : it[i] = L[k + i]
  BY DEF Streamed
<1>3. /\ e \in FieldNode /\ Tail(it) \in Seq(FieldNode) /\ Len(Tail(it)) = Len(it) - 1
      /\ \A i \in 1..Len(Tail(it)) : Tail(it)[i] = it[i + 1]
  BY <1>2, HeadTailProperties
<1>4. Len(it) \in Nat /\ Len(it) > 0 /\ e = it[1]
  BY <1>2, EmptySeq
<1>5. k + 1 \in 1..Len(L) /\ e = L[k + 1] /\ c = e.cell /\ e.cell \in Cells /\ e.leaf \in BOOLEAN
  BY <1>1, <1>2, <1>3, <1>4 DEF FieldNode
<1>6. Len(Tail(it)) = Len(L) - (k + 1) /\ \A i \in 1..Len(Tail(it)) : Tail(it)[i] = L[k + 1 + i]
  <2>1. ASSUME NEW i \in 1..Len(Tail(it)) PROVE Tail(it)[i] = L[k + 1 + i]
    <3>1. i + 1 \in 1..Len(it) /\ k + (i + 1) = k + 1 + i
      BY <1>1, <1>3, <1>4
    <3> QED BY <1>2, <1>3, <3>1
  <2> QED BY <1>1, <1>2, <1>3, <2>1
<1>7. toks \in Seq(Terms) /\ n \in Nat
  BY DEF Streamed
<1>8. /\ new \in Seq(Terms) /\ Len(new) = n + 1 /\ new[n + 1] = c
      /\ \A i \in 1..n : new[i] = toks[i]
  <2>1. e.cell \in Terms
    BY <1>5, CellsAreTerms
  <2> QED BY <1>5, <1>7, <2>1, AppendProperties
<1>9. /\ e.leaf => pend = << c >>
      /\ ~e.leaf => pend = << >>
      /\ pend # << >> \/ ~e.leaf
  BY <1>5
<1> HIDE DEF new, pend
<1>10. ASSUME NEW i \in 1..Len(new)
       PROVE  \E j \in 1..(k + 1) : IsTokenOf(L, j, new[i]) /\ (i = Len(new) \/ j < k + 1 \/ L[j].leaf)
  <2>1. CASE i = n + 1
    <3>1. k + 1 \in 1..(k + 1)
      BY <1>1
    <3> QED BY <1>8, <2>1, <3>1 DEF IsTokenOf
  <2>2. CASE i # n + 1
    <3>1. i \in 1..n /\ new[i] = toks[i]
      BY <1>7, <1>8, <2>2
    <3>2. PICK j \in 1..k : IsTokenOf(L, j, toks[i])
      BY <3>1 DEF Streamed
    <3>3. j \in 1..(k + 1) /\ j < k + 1
      BY <1>1
    <3> QED BY <3>1, <3>2, <3>3
  <2> QED BY <2>1, <2>2
<1>11. ASSUME NEW j \in 1..(k + 1)
       PROVE  /\ \E i \in 1..Len(new) : new[i] = L[j].cell
              /\ L[j].leaf /\ (j < k + 1 \/ pend = << >>) =>
                   \E i \in 1..Len(new) : new[i] = Marked(L[j].cell)
  <2>1. \A i \in 1..n : i \in 1..Len(new)
    BY <1>7, <1>8
  <2>2. CASE j = k + 1
    <3>1. n + 1 \in 1..Len(new)
      BY <1>7, <1>8
    <3> QED BY <1>1, <1>5, <1>8, <1>9, <2>2, <3>1
  <2>3. CASE j # k + 1
    <3>1. j \in 1..k
      BY <1>1, <2>3
    <3>2. PICK i \in 1..n : toks[i] = L[j].cell
      BY <3>1 DEF Streamed
    <3>3. L[j].leaf => \E h \in 1..n : toks[h] = Marked(L[j].cell)
      BY <3>1 DEF Streamed
    <3> QED BY <1>8, <2>1, <3>2, <3>3
  <2> QED BY <2>2, <2>3
<1>12. ASSUME NEW i \in 1..(Len(new) - 1), k + 1 <= m \/ i + 1 < Len(new)
       PROVE  Less(new[i], new[i + 1])
  <2>1. CASE i = n
    <3>1. k + 1 <= m
      BY <1>7, <1>8, <1>12, <2>1
    <3>2. k > 0
      BY <1>1, <1>7, <1>8, <2>1 DEF Streamed
    <3>3. k \in 1..Len(L) /\ k \in 1..m /\ k + 1 \in 1..m /\ k < k + 1
      BY <1>1, <3>1, <3>2
    <3>4. Less(L[k].cell, c)
      BY <1>1, <3>3
    <3>5. L[k].cell \in Cells
      <4>1. L[k] \in FieldNode
        BY <1>1, <3>3, ElementOfSeq
      <4> QED BY <4>1 DEF FieldNode
    <3>6. toks[n] = Marked(L[k].cell) \/ toks[n] = L[k].cell
      BY <3>2 DEF Streamed
    <3>7. Less(toks[n], c)
      BY <1>5, <3>4, <3>5, <3>6, MarkedIsBetween
    <3>8. new[i] = toks[n] /\ new[i + 1] = c
      BY <1>7, <1>8, <2>1
    <3> QED BY <3>7, <3>8
  <2>2. CASE i # n
    <3>1. i \in 1..(n - 1) /\ i \in 1..n /\ i + 1 \in 1..n
      BY <1>7, <1>8, <2>2
    <3>2. k <= m
      BY <1>1, <1>5
    <3>3. Less(toks[i], toks[i + 1])
      BY <3>1, <3>2 DEF Streamed
    <3> QED BY <1>8, <3>1, <3>3
  <2> QED BY <2>1, <2>2
<1>13. ASSUME \A j \in 1..(k + 1) : ~L[j].leaf PROVE Len(new) = k + 1
  <2>1. \A j \in 1..k : ~L[j].leaf
    BY <1>1, <1>13
  <2>2. n = k
    BY <2>1 DEF Streamed
  <2> QED BY <1>8, <2>2
<1>14. /\ Len(new) > 0
       /\ L[k + 1].leaf /\ pend = << >> => new[Len(new)] = Marked(L[k + 1].cell)
       /\ ~(L[k + 1].leaf /\ pend = << >>) => new[Len(new)] = L[k + 1].cell
  BY <1>5, <1>7, <1>8, <1>9
<1>15. \/ pend = << >>
       \/ k + 1 > 0 /\ L[k + 1].leaf /\ pend = << L[k + 1].cell >>
  BY <1>1, <1>5, <1>9
<1>16. k + 1 \in 0..Len(L) /\ k + 1 # 0
  BY <1>1, <1>5
<1> HIDE DEF n, c, e
<1>17. Streamed(L, m, k + 1, Tail(it), pend, new)
  BY <1>3, <1>6, <1>8, <1>10, <1>11, <1>12, <1>13, <1>14, <1>15, <1>16 DEF Streamed
<1> QED BY <1>3, <1>17 DEF new, pend, e

-----------------------------------------------------------------------------
(* What a thread streams: the cells of its shape, or the centre alone when *)
(* its world cell was made a leaf.                                         *)
IsFieldList(L, s, d, leafWorld) ==
  IF IsPoint(s) THEN IsPointList(L, s) ELSE IsShapeList(L, s, d) \/ (IsCentreList(L) /\ leafWorld)

InOrder(L, s) == IF IsPoint(s) THEN Len(L) ELSE Len(L) - 1

LEMMA FieldListsAreInOrder ==
  ASSUME NEW L, NEW s, NEW d, NEW leafWorld, IsFieldList(L, s, d, leafWorld)
  PROVE  InOrderUpTo(L, InOrder(L, s)) /\ L \in Seq(FieldNode) /\ Len(L) \in Nat /\ Len(L) > 0
<1>0. MaxLevels \in Nat \ {0}
  BY MaxLevelsAssumption
<1>1. CASE IsPoint(s)
  BY <1>0, <1>1 DEF IsFieldList, InOrder, InOrderUpTo, IsPointList
<1>2. CASE ~IsPoint(s) /\ IsShapeList(L, s, d)
  BY <1>2 DEF InOrder, InOrderUpTo, IsShapeList
<1>3. CASE ~IsPoint(s) /\ IsCentreList(L)
  BY <1>3 DEF InOrder, InOrderUpTo, IsCentreList
<1> QED BY <1>1, <1>2, <1>3 DEF IsFieldList

IsStreaming(s, d, leafWorld, it, pend, toks) ==
  \E L : /\ IsFieldList(L, s, d, leafWorld)
         /\ \E k : Streamed(L, InOrder(L, s), k, it, pend, toks)

LEMMA StreamingBegins ==
  ASSUME NEW L, NEW s, NEW d, NEW leafWorld, IsFieldList(L, s, d, leafWorld)
  PROVE  IsStreaming(s, d, leafWorld, L, << >>, << >>)
BY FieldListsAreInOrder, StreamBegins DEF IsStreaming

LEMMA StreamingGoesOn ==
  ASSUME NEW s, NEW d, NEW leafWorld, NEW it, NEW pend, NEW toks,
         IsStreaming(s, d, leafWorld, it, pend, toks)
  PROVE  /\ it \in Seq(FieldNode)
         /\ pend # << >> =>
              IsStreaming(s, d, leafWorld, it, << >>, Append(toks, Marked(Head(pend))))
         /\ pend = << >> /\ it # << >> =>
              IsStreaming(s, d, leafWorld, Tail(it),
                          IF Head(it).leaf THEN << Head(it).cell >> ELSE << >>,
                          Append(toks, Head(it).cell))
<1>1. PICK L : /\ IsFieldList(L, s, d, leafWorld)
               /\ \E k : Streamed(L, InOrder(L, s), k, it, pend, toks)
  BY DEF IsStreaming
<1>2. PICK k : Streamed(L, InOrder(L, s), k, it, pend, toks)
  BY <1>1
<1> DEFINE m == InOrder(L, s)
<1>3. InOrderUpTo(L, m) /\ Streamed(L, m, k, it, pend, toks)
  BY <1>1, <1>2, FieldListsAreInOrder
<1>4. it \in Seq(FieldNode)
  BY <1>2 DEF Streamed
<1>5. ASSUME pend # << >>
      PROVE  IsStreaming(s, d, leafWorld, it, << >>, Append(toks, Marked(Head(pend))))
  <2> DEFINE new == Append(toks, Marked(Head(pend)))
  <2> HIDE DEF m
  <2>1. Streamed(L, m, k, it, << >>, new)
    BY <1>3, <1>5, StreamOfLeaf
  <2> HIDE DEF new
  <2>2. IsStreaming(s, d, leafWorld, it, << >>, new)
    BY <1>1, <2>1 DEF IsStreaming, m
  <2> QED BY <2>2 DEF new
<1>6. ASSUME pend = << >>, it # << >>
      PROVE  IsStreaming(s, d, leafWorld, Tail(it),
                          IF Head(it).leaf THEN << Head(it).cell >> ELSE << >>,
                          Append(toks, Head(it).cell))
  <2> DEFINE new == Append(toks, Head(it).cell)
             next == IF Head(it).leaf THEN << Head(it).cell >> ELSE << >>
             rest == Tail(it)
  <2> HIDE DEF m
  <2>0. Streamed(L, m, k, it, << >>, toks)
    BY <1>3, <1>6
  <2>1. Streamed(L, m, k + 1, rest, next, new)
    BY <1>3, <1>6, <2>0, StreamOfCell
  <2> HIDE DEF new, next, rest
  <2>2. IsStreaming(s, d, leafWorld, rest, next, new)
    BY <1>1, <2>1 DEF IsStreaming, m
  <2> QED BY <2>2 DEF new, next, rest
<1> QED BY <1>4, <1>5, <1>6

LEMMA StreamingStays ==
  ASSUME NEW s, NEW d, NEW it, NEW pend, NEW toks, IsStreaming(s, d, FALSE, it, pend, toks)
  PROVE  IsStreaming(s, d, TRUE, it, pend, toks)
<1>1. PICK L : /\ IsFieldList(L, s, d, FALSE)
               /\ \E k : Streamed(L, InOrder(L, s), k, it, pend, toks)
  BY DEF IsStreaming
<1>2. IsFieldList(L, s, d, TRUE)
  BY <1>1 DEF IsFieldList
<1> QED BY <1>1, <1>2 DEF IsStreaming

(* The lists of a job.                                                     *)
LEMMA ListsOfJob ==
  ASSUME NEW j \in Jobs
  PROVE  /\ IsOfWorld(j.shape) /\ j.detailLevel \in 1..MaxLevels
         /\ IsPoint(j.shape) => /\ j.detailLevel = MaxLevels
                                /\ \A l : IsFieldList(j.cells, j.shape, j.detailLevel, l)
         /\ ~IsPoint(j.shape) =>
              /\ IsFieldList(j.afterWorldLeaf, j.shape, j.detailLevel, TRUE)
              /\ j.makesWorldLeaf => IsFieldList(j.cells, j.shape, j.detailLevel, TRUE)
              /\ ~j.makesWorldLeaf => \A l : IsFieldList(j.cells, j.shape, j.detailLevel, l)
<1> DEFINE s == j.shape
           d == j.detailLevel
<1>1. IsOfWorld(s) /\ d \in DetailLevels(s) /\ j = JobOf(s, d)
  BY JobAssumption
<1>2. d \in 1..MaxLevels /\ (IsPoint(s) => d = MaxLevels)
  BY <1>1, DetailLevelsExist
<1> HIDE DEF s, d
<1>3. /\ j.cells = FieldNodes(s, d, FALSE) /\ j.afterWorldLeaf = FieldNodes(s, d, TRUE)
      /\ j.makesWorldLeaf = MakesWorldLeaf(s, d)
  BY <1>1 DEF JobOf
<1>4. IsPoint(s) => \A l : IsFieldList(j.cells, s, d, l)
  BY <1>1, <1>2, <1>3, ListOfPoint DEF IsFieldList
<1>5. ASSUME ~IsPoint(s)
      PROVE  /\ IsFieldList(j.afterWorldLeaf, s, d, TRUE)
             /\ j.makesWorldLeaf => IsFieldList(j.cells, s, d, TRUE)
             /\ ~j.makesWorldLeaf => \A l : IsFieldList(j.cells, s, d, l)
  <2>1. /\ IsCentreList(j.afterWorldLeaf)
        /\ j.makesWorldLeaf => IsCentreList(j.cells)
        /\ ~j.makesWorldLeaf => IsShapeList(j.cells, s, d)
    BY <1>1, <1>2, <1>3, <1>5, ListsOfShape
  <2> QED BY <1>5, <2>1 DEF IsFieldList
<1> QED BY <1>1, <1>2, <1>4, <1>5 DEF s, d

-----------------------------------------------------------------------------
(* The inductive invariant.                                                *)
States == {"create", "make", "return", "world", "descend", "stream", "done"}

InStream(t) ==
  IsStreaming(job[t].shape, job[t].detailLevel, world[t] \in worldLeafs,
              iter[t], pending[t], tokens[t])

ThreadOK(t) ==
  /\ stage[t] = "return" => worldNode # NoNode
  /\ stage[t] \in {"world", "descend"} => world[t] \in Threads
  /\ stage[t] \notin {"stream", "done"} =>
       iter[t] = << >> /\ tokens[t] = << >> /\ pending[t] = << >>
  /\ stage[t] \notin {"create", "stream", "done"} => ~IsPoint(job[t].shape)
  /\ stage[t] \in {"stream", "done"} => InStream(t)
  /\ stage[t] = "done" => iter[t] = << >> /\ pending[t] = << >>

StateOK ==
  /\ worldNode \in Threads \cup {NoNode}
  /\ worldLeafs \subseteq Threads
  /\ stage \in [Threads -> States]
  /\ job \in [Threads -> Jobs]
  /\ world \in [Threads -> Threads \cup {NoNode}]
  /\ iter = [t \in Threads |-> iter[t]]
  /\ pending = [t \in Threads |-> pending[t]]
  /\ tokens = [t \in Threads |-> tokens[t]]

FieldInv == StateOK /\ \A t \in Threads : ThreadOK(t)

LEMMA InitOK ==
  FieldInit => FieldInv
<1> SUFFICES ASSUME FieldInit PROVE FieldInv
  OBVIOUS
<1>1. StateOK
  BY DEF FieldInit, StateOK, States
<1>2. ASSUME NEW t \in Threads PROVE ThreadOK(t)
  BY DEF FieldInit, ThreadOK
<1> QED BY <1>1, <1>2 DEF FieldInv

(* The threads that do not take the step: they see at most a world cell    *)
(* that is made, and one that becomes a leaf.                              *)
LEMMA OthersOK ==
  ASSUME NEW t \in Threads, ThreadOK(t),
         stage'[t] = stage[t], job' = job, world'[t] = world[t], iter'[t] = iter[t],
         pending'[t] = pending[t], tokens'[t] = tokens[t],
         worldNode # NoNode => worldNode' # NoNode, worldLeafs \subseteq worldLeafs'
  PROVE  ThreadOK(t)'
<1>1. InStream(t) => InStream(t)'
  <2>1. world[t] \in worldLeafs => world'[t] \in worldLeafs'
    OBVIOUS
  <2> SUFFICES ASSUME InStream(t) PROVE InStream(t)'
    OBVIOUS
  <2> DEFINE old == world[t] \in worldLeafs
             new == world'[t] \in worldLeafs'
  <2>2. IsStreaming(job[t].shape, job[t].detailLevel, old, iter[t], pending[t], tokens[t])
    BY DEF InStream
  <2>3. old => new
    BY <2>1
  <2>c. old = new \/ (old = FALSE /\ new = TRUE)
    BY <2>3
  <2> HIDE DEF old, new
  <2>4. IsStreaming(job[t].shape, job[t].detailLevel, new, iter[t], pending[t], tokens[t])
    <3>1. CASE old = new
      BY <2>2, <3>1
    <3>2. CASE old = FALSE /\ new = TRUE
      <4>1. IsStreaming(job[t].shape, job[t].detailLevel, FALSE, iter[t], pending[t], tokens[t])
        BY <2>2, <3>2
      <4>2. IsStreaming(job[t].shape, job[t].detailLevel, TRUE, iter[t], pending[t], tokens[t])
        BY <4>1, StreamingStays
      <4> QED BY <3>2, <4>2
    <3> QED BY <2>c, <3>1, <3>2
  <2>5. IsStreaming(job'[t].shape, job'[t].detailLevel, new, iter'[t], pending'[t], tokens'[t])
    BY <2>4
  <2> QED BY <2>5 DEF InStream, new
<1> QED BY <1>1 DEF ThreadOK

LEMMA StepOK ==
  ASSUME FieldInv, NEW t \in Threads, Thread(t)
  PROVE  FieldInv'
<1>1. StateOK /\ ThreadOK(t) /\ \A u \in Threads : ThreadOK(u)
  BY DEF FieldInv
<1>2. \A u \in Threads : u \in Threads /\ u # NoNode
  BY NoNodeAssumption
<1>3. job[t] \in Jobs
  BY <1>1 DEF StateOK
<1> DEFINE Quiet == /\ job' = job
                    /\ worldNode # NoNode => worldNode' # NoNode
                    /\ worldLeafs \subseteq worldLeafs'
                    /\ \A u \in Threads \ {t} : /\ stage'[u] = stage[u] /\ world'[u] = world[u]
                                                /\ iter'[u] = iter[u] /\ pending'[u] = pending[u]
                                                /\ tokens'[u] = tokens[u]
<1>q. ASSUME Quiet, StateOK', ThreadOK(t)' PROVE FieldInv'
  <2>1. ASSUME NEW u \in Threads, u # t PROVE ThreadOK(u)'
    <3>1. u \in Threads \ {t}
      BY <2>1
    <3> QED BY <1>1, <1>q, <3>1, OthersOK
  <2> QED BY <1>q, <2>1 DEF FieldInv
<1>4. CASE CreatePointField(t)
  <2>1. Quiet /\ StateOK'
    BY <1>1, <1>4 DEF CreatePointField, GoTo, StateOK, States
  <2>2. /\ stage'[t] = "stream" /\ iter'[t] = job[t].cells /\ job' = job
        /\ world' = world /\ worldLeafs' = worldLeafs /\ pending'[t] = << >> /\ tokens'[t] = << >>
    BY <1>1, <1>4 DEF CreatePointField, GoTo, StateOK, ThreadOK
  <2> DEFINE l == world'[t] \in worldLeafs'
  <2>3. IsFieldList(job[t].cells, job[t].shape, job[t].detailLevel, l)
    BY <1>3, <1>4, ListsOfJob DEF CreatePointField
  <2> HIDE DEF l
  <2>4. IsStreaming(job[t].shape, job[t].detailLevel, l, job[t].cells, << >>, << >>)
    BY <2>3, StreamingBegins
  <2>5. InStream(t)'
    BY <2>2, <2>4 DEF InStream, l
  <2>6. ThreadOK(t)'
    BY <2>2, <2>5 DEF ThreadOK
  <2> QED BY <1>q, <2>1, <2>6
<1>5. CASE FindWorldNode(t)
  <2>1. Quiet /\ StateOK'
    BY <1>1, <1>5 DEF FindWorldNode, GoTo, StateOK, States
  <2>2. ThreadOK(t)'
    BY <1>1, <1>5 DEF FindWorldNode, GoTo, StateOK, ThreadOK
  <2> QED BY <1>q, <2>1, <2>2
<1>6. CASE MakeWorldNode(t)
  <2>1. Quiet /\ StateOK'
    BY <1>1, <1>2, <1>6 DEF MakeWorldNode, GoTo, StateOK, States
  <2>2. ThreadOK(t)'
    BY <1>1, <1>2, <1>6 DEF MakeWorldNode, GoTo, StateOK, ThreadOK
  <2> QED BY <1>q, <2>1, <2>2
<1>7. CASE ReturnWorldNode(t)
  <2>1. Quiet /\ StateOK'
    BY <1>1, <1>7 DEF ReturnWorldNode, GoTo, StateOK, States
  <2>2. ThreadOK(t)'
    BY <1>1, <1>7 DEF ReturnWorldNode, GoTo, StateOK, ThreadOK
  <2> QED BY <1>q, <2>1, <2>2
<1>8. CASE SkipCells(t)
  <2>1. Quiet /\ StateOK'
    BY <1>1, <1>8 DEF SkipCells, GoTo, StateOK, States
  <2>2. /\ stage'[t] = "stream" /\ iter'[t] = job[t].afterWorldLeaf /\ job' = job
        /\ world'[t] \in worldLeafs' /\ pending'[t] = << >> /\ tokens'[t] = << >>
        /\ ~IsPoint(job[t].shape)
    BY <1>1, <1>8 DEF SkipCells, GoTo, StateOK, ThreadOK
  <2>3. IsFieldList(job[t].afterWorldLeaf, job[t].shape, job[t].detailLevel, TRUE)
    BY <1>3, <2>2, ListsOfJob
  <2>4. IsStreaming(job[t].shape, job[t].detailLevel, TRUE, job[t].afterWorldLeaf, << >>, << >>)
    BY <2>3, StreamingBegins
  <2>5. (world'[t] \in worldLeafs') = TRUE
    BY <2>2
  <2>6. InStream(t)'
    BY <2>2, <2>4, <2>5 DEF InStream
  <2>7. ThreadOK(t)'
    BY <2>2, <2>6 DEF ThreadOK
  <2> QED BY <1>q, <2>1, <2>7
<1>9. CASE EnterWorld(t)
  <2>1. Quiet /\ StateOK'
    BY <1>1, <1>9 DEF EnterWorld, GoTo, StateOK, States
  <2>2. ThreadOK(t)'
    BY <1>1, <1>9 DEF EnterWorld, GoTo, StateOK, ThreadOK
  <2> QED BY <1>q, <2>1, <2>2
<1>10. CASE CreateCells(t)
  <2>0. world[t] \in Threads
    BY <1>1, <1>10 DEF CreateCells, GoTo, ThreadOK
  <2>1. Quiet /\ StateOK'
    BY <1>1, <1>10, <2>0 DEF CreateCells, GoTo, StateOK, States
  <2>2. /\ stage'[t] = "stream" /\ iter'[t] = job[t].cells /\ job' = job
        /\ world' = world /\ pending'[t] = << >> /\ tokens'[t] = << >>
        /\ ~IsPoint(job[t].shape)
        /\ job[t].makesWorldLeaf => world'[t] \in worldLeafs'
    BY <1>1, <1>10 DEF CreateCells, GoTo, StateOK, ThreadOK
  <2> DEFINE l == world'[t] \in worldLeafs'
  <2>3. IsFieldList(job[t].cells, job[t].shape, job[t].detailLevel, l)
    <3>1. CASE job[t].makesWorldLeaf
      <4>1. l = TRUE
        BY <2>2, <3>1
      <4> HIDE DEF l
      <4> QED BY <1>3, <2>2, <3>1, <4>1, ListsOfJob
    <3>2. CASE ~job[t].makesWorldLeaf
      <4> HIDE DEF l
      <4> QED BY <1>3, <2>2, <3>2, ListsOfJob
    <3> QED BY <3>1, <3>2
  <2> HIDE DEF l
  <2>4. IsStreaming(job[t].shape, job[t].detailLevel, l, job[t].cells, << >>, << >>)
    BY <2>3, StreamingBegins
  <2>5. InStream(t)'
    BY <2>2, <2>4 DEF InStream, l
  <2>6. ThreadOK(t)'
    BY <2>2, <2>5 DEF ThreadOK
  <2> QED BY <1>q, <2>1, <2>6
<1>11. CASE IncrementLeaf(t)
  <2>1. Quiet /\ StateOK'
    BY <1>1, <1>11 DEF IncrementLeaf, GoTo, StateOK, States
  <2>2. /\ stage'[t] = "stream" /\ iter' = iter /\ job' = job /\ world' = world
        /\ worldLeafs' = worldLeafs /\ pending[t] # << >> /\ pending'[t] = << >>
        /\ tokens'[t] = Append(tokens[t], Marked(Head(pending[t])))
        /\ InStream(t)
    BY <1>1, <1>11 DEF IncrementLeaf, GoTo, StateOK, ThreadOK
  <2> DEFINE l == world[t] \in worldLeafs
  <2>3. IsStreaming(job[t].shape, job[t].detailLevel, l, iter[t], pending[t], tokens[t])
    BY <2>2 DEF InStream
  <2> HIDE DEF l
  <2>4. IsStreaming(job[t].shape, job[t].detailLevel, l, iter[t], << >>,
                    Append(tokens[t], Marked(Head(pending[t]))))
    BY <2>2, <2>3, StreamingGoesOn
  <2>5. InStream(t)'
    BY <2>2, <2>4 DEF InStream, l
  <2>6. ThreadOK(t)'
    BY <2>2, <2>5 DEF ThreadOK
  <2> QED BY <1>q, <2>1, <2>6
<1>12. CASE IncrementCell(t)
  <2>1. Quiet /\ StateOK'
    BY <1>1, <1>12 DEF IncrementCell, GoTo, StateOK, States
  <2>2. /\ stage'[t] = "stream" /\ iter'[t] = Tail(iter[t]) /\ job' = job /\ world' = world
        /\ worldLeafs' = worldLeafs /\ pending[t] = << >> /\ iter[t] # << >>
        /\ pending'[t] = IF Head(iter[t]).leaf THEN << Head(iter[t]).cell >> ELSE << >>
        /\ tokens'[t] = Append(tokens[t], Head(iter[t]).cell)
        /\ InStream(t)
    BY <1>1, <1>12 DEF IncrementCell, GoTo, StateOK, ThreadOK
  <2> DEFINE l == world[t] \in worldLeafs
  <2>3. IsStreaming(job[t].shape, job[t].detailLevel, l, iter[t], pending[t], tokens[t])
    BY <2>2 DEF InStream
  <2> HIDE DEF l
  <2>4. IsStreaming(job[t].shape, job[t].detailLevel, l, Tail(iter[t]),
                    IF Head(iter[t]).leaf THEN << Head(iter[t]).cell >> ELSE << >>,
                    Append(tokens[t], Head(iter[t]).cell))
    BY <2>2, <2>3, StreamingGoesOn
  <2>5. InStream(t)'
    BY <2>2, <2>4 DEF InStream, l
  <2>6. ThreadOK(t)'
    BY <2>2, <2>5 DEF ThreadOK
  <2> QED BY <1>q, <2>1, <2>6
<1>13. CASE EndOfStream(t)
  <2>1. Quiet /\ StateOK'
    BY <1>1, <1>13 DEF EndOfStream, GoTo, StateOK, States
  <2>2. InStream(t)'
    BY <1>1, <1>13 DEF EndOfStream, GoTo, StateOK, ThreadOK, InStream
  <2>3. ThreadOK(t)'
    BY <1>1, <1>13, <2>2 DEF EndOfStream, GoTo, StateOK, ThreadOK
  <2> QED BY <1>q, <2>1, <2>3
<1> QED BY <1>4, <1>5, <1>6, <1>7, <1>8, <1>9, <1>10, <1>11, <1>12, <1>13 DEF Thread

LEMMA NextOK ==
  FieldInv /\ [FieldNext]_fieldVars => FieldInv'
<1> SUFFICES ASSUME FieldInv, [FieldNext]_fieldVars PROVE FieldInv'
  OBVIOUS
<1>1. CASE FieldNext
  BY <1>1, StepOK DEF FieldNext
<1>2. CASE UNCHANGED fieldVars
  BY <1>2 DEF fieldVars, FieldInv, StateOK, ThreadOK, InStream
<1> QED BY <1>1, <1>2

LEMMA AlwaysOK ==
  FieldSpec => []FieldInv
BY InitOK, NextOK, PTL DEF FieldSpec

-----------------------------------------------------------------------------
(* A finished field.                                                       *)
IsFinished(L, s, toks) == Streamed(L, InOrder(L, s), Len(L), << >>, << >>, toks)

LEMMA DoneIsFinished ==
  ASSUME FieldInv, NEW t \in Threads, Done(t)
  PROVE  /\ \E L : /\ IsFieldList(L, job[t].shape, job[t].detailLevel, world[t] \in worldLeafs)
                   /\ IsFinished(L, job[t].shape, tokens[t])
         /\ job[t] \in Jobs
<1>1. stage[t] = "done" /\ ThreadOK(t) /\ job[t] \in Jobs
  BY DEF FieldInv, Done, StateOK
<1>2. InStream(t) /\ iter[t] = << >> /\ pending[t] = << >>
  BY <1>1 DEF ThreadOK
<1> DEFINE s == job[t].shape
           d == job[t].detailLevel
           l == world[t] \in worldLeafs
<1>3. IsStreaming(s, d, l, << >>, << >>, tokens[t])
  BY <1>2 DEF InStream
<1> HIDE DEF s, d, l
<1>4. PICK L : IsFieldList(L, s, d, l) /\ \E k : Streamed(L, InOrder(L, s), k, << >>, << >>, tokens[t])
  BY <1>3 DEF IsStreaming
<1>5. PICK k : Streamed(L, InOrder(L, s), k, << >>, << >>, tokens[t])
  BY <1>4
<1>6. Len(L) \in Nat
  BY <1>4, FieldListsAreInOrder
<1>7. k \in 0..Len(L) /\ Len(<< >>) = Len(L) - k
  BY <1>5 DEF Streamed
<1>8. k = Len(L)
  BY <1>6, <1>7
<1>9. IsFinished(L, s, tokens[t])
  BY <1>5, <1>8 DEF IsFinished
<1> QED BY <1>1, <1>4, <1>9 DEF s, d, l

(* The tokens of a finished field are those of its cells.                  *)
LEMMA FinishedTokens ==
  ASSUME NEW L, NEW s, NEW d, NEW leafWorld, IsFieldList(L, s, d, leafWorld),
         NEW toks, IsFinished(L, s, toks)
  PROVE  /\ toks \in Seq(Terms) /\ Len(toks) \in Nat /\ Len(toks) > 0
         /\ \A j \in 1..Len(L) : L[j] \in FieldNode /\ L[j].cell \in Cells
         /\ \A j \in 1..Len(L) : /\ L[j].cell \in ToSet(toks)
                                 /\ L[j].leaf => Marked(L[j].cell) \in ToSet(toks)
         /\ \A x \in ToSet(toks) : \E j \in 1..Len(L) : IsTokenOf(L, j, x)
         /\ toks[Len(toks)] = IF L[Len(L)].leaf THEN Marked(L[Len(L)].cell) ELSE L[Len(L)].cell
<1>1. InOrderUpTo(L, InOrder(L, s)) /\ L \in Seq(FieldNode) /\ Len(L) \in Nat /\ Len(L) > 0
  BY FieldListsAreInOrder
<1> DEFINE m == InOrder(L, s)
           n == Len(toks)
<1>2. Streamed(L, m, Len(L), << >>, << >>, toks)
  BY DEF IsFinished
<1>3. /\ toks \in Seq(Terms) /\ n > 0
      /\ L[Len(L)].leaf => toks[n] = Marked(L[Len(L)].cell)
      /\ ~L[Len(L)].leaf => toks[n] = L[Len(L)].cell
      /\ \A i \in 1..n : \E j \in 1..Len(L) : IsTokenOf(L, j, toks[i])
      /\ \A j \in 1..Len(L) :
           /\ \E i \in 1..n : toks[i] = L[j].cell
           /\ L[j].leaf => \E i \in 1..n : toks[i] = Marked(L[j].cell)
  BY <1>1, <1>2 DEF Streamed
<1>4. n \in Nat /\ \A x : x \in ToSet(toks) <=> \E i \in 1..n : x = toks[i]
  BY <1>3 DEF ToSet
<1>5. \A j \in 1..Len(L) : L[j] \in FieldNode /\ L[j].cell \in Cells
  BY <1>1, NodesOfList
<1> HIDE DEF n
<1>6. \A j \in 1..Len(L) : L[j].cell \in ToSet(toks) /\ (L[j].leaf => Marked(L[j].cell) \in ToSet(toks))
  BY <1>3, <1>4
<1>7. ASSUME NEW x \in ToSet(toks) PROVE \E j \in 1..Len(L) : IsTokenOf(L, j, x)
  <2>1. PICK i \in 1..n : x = toks[i]
    BY <1>4
  <2>2. \E j \in 1..Len(L) : IsTokenOf(L, j, toks[i])
    BY <1>3
  <2> QED BY <2>1, <2>2
<1> QED BY <1>3, <1>4, <1>5, <1>6, <1>7 DEF n

LEMMA TokenOfCell ==
  ASSUME NEW L, NEW j, L[j].cell \in Cells, NEW x, IsTokenOf(L, j, x)
  PROVE  /\ CellOf(x) = L[j].cell /\ x \in Terms
         /\ IsMarked(x) => L[j].leaf /\ x = Marked(L[j].cell)
         /\ ~IsMarked(x) => x = L[j].cell
<1> DEFINE c == L[j].cell
<1>1. /\ c \in Terms /\ Marked(c) \in Terms /\ ~IsMarked(c) /\ CellOf(c) = c
      /\ IsMarked(Marked(c)) /\ CellOf(Marked(c)) = c
  BY CellsAreTerms
<1>2. x = c \/ (L[j].leaf /\ x = Marked(c))
  BY DEF IsTokenOf
<1> HIDE DEF c
<1> QED BY <1>1, <1>2 DEF c

-----------------------------------------------------------------------------
(* Whatever the threads do, the cells in their lists and tokens are cells  *)
(* of the grid.                                                            *)
LEMMA StreamedCells ==
  ASSUME NEW s, NEW d, NEW leafWorld, NEW it, NEW pend, NEW toks,
         IsStreaming(s, d, leafWorld, it, pend, toks)
  PROVE  /\ \A i \in 1..Len(it) : it[i].cell \in Cells
         /\ ToSet(pend) \subseteq Cells
         /\ \A x \in ToSet(toks) : CellOf(x) \in Cells
<1>1. PICK L : /\ IsFieldList(L, s, d, leafWorld)
               /\ \E k : Streamed(L, InOrder(L, s), k, it, pend, toks)
  BY DEF IsStreaming
<1>2. PICK k : Streamed(L, InOrder(L, s), k, it, pend, toks)
  BY <1>1
<1>3. L \in Seq(FieldNode) /\ Len(L) \in Nat /\ k \in 0..Len(L)
  BY <1>1, <1>2, FieldListsAreInOrder DEF Streamed
<1>4. \A j \in 1..k : L[j].cell \in Cells
  <2>1. \A j \in 1..k : j \in 1..Len(L)
    BY <1>3
  <2> QED BY <1>3, <2>1, NodesOfList
<1>5. ASSUME NEW i \in 1..Len(it) PROVE it[i].cell \in Cells
  <2>1. it \in Seq(FieldNode)
    BY <1>2 DEF Streamed
  <2> QED BY <2>1, NodesOfList
<1>6. ToSet(pend) \subseteq Cells
  <2>1. pend = << >> \/ (k > 0 /\ pend = << L[k].cell >>)
    BY <1>2 DEF Streamed
  <2>2. CASE pend = << >>
    BY <2>2 DEF ToSet
  <2>3. CASE k > 0 /\ pend = << L[k].cell >>
    <3>1. L[k].cell \in Cells
      BY <1>3, <1>4, <2>3
    <3> QED BY <2>3, <3>1 DEF ToSet
  <2> QED BY <2>1, <2>2, <2>3
<1>7. ASSUME NEW x \in ToSet(toks) PROVE CellOf(x) \in Cells
  <2>0. toks \in Seq(Terms)
    BY <1>2 DEF Streamed
  <2>1. PICK i \in 1..Len(toks) : x = toks[i]
    BY <2>0 DEF ToSet
  <2>2. PICK j \in 1..k : IsTokenOf(L, j, x)
    BY <1>2, <2>1 DEF Streamed
  <2> QED BY <1>4, <2>2, TokenOfCell
<1> QED BY <1>5, <1>6, <1>7

(* The threads, their world cells, and the cells they hold are those of    *)
(* the grid: no thread gets on with a world cell that is null.             *)
THEOREM FieldsAreTyped == FieldSpec => []FieldTypeOK
<1>1. ASSUME FieldInv PROVE FieldTypeOK
  <2>1. ASSUME NEW t \in Threads
        PROVE  /\ \A i \in 1..Len(iter[t]) : iter[t][i].cell \in AllCells
               /\ ToSet(pending[t]) \subseteq AllCells
               /\ \A term \in ToSet(tokens[t]) : CellOf(term) \in AllCells
    <3>0. ThreadOK(t) /\ AllCells = Cells
      BY <1>1, AllCellsAreCells DEF FieldInv
    <3>1. CASE stage[t] \in {"stream", "done"}
      <4>1. IsStreaming(job[t].shape, job[t].detailLevel, world[t] \in worldLeafs,
                        iter[t], pending[t], tokens[t])
        BY <3>0, <3>1 DEF ThreadOK, InStream
      <4> QED BY <3>0, <4>1, StreamedCells
    <3>2. CASE stage[t] \notin {"stream", "done"}
      <4>1. iter[t] = << >> /\ tokens[t] = << >> /\ pending[t] = << >>
        BY <3>0, <3>2 DEF ThreadOK
      <4> QED BY <4>1 DEF ToSet
    <3> QED BY <3>1, <3>2
  <2> QED BY <1>1, <2>1 DEF FieldInv, StateOK, FieldTypeOK, States
<1> QED BY <1>1, AlwaysOK, PTL

-----------------------------------------------------------------------------
LEMMA FinishedInOrder ==
  ASSUME NEW L, NEW s, NEW d, NEW leafWorld, IsFieldList(L, s, d, leafWorld),
         NEW toks, IsFinished(L, s, toks)
  PROVE  LET n == IF ~IsPoint(s) THEN Len(toks) - 1 ELSE Len(toks)
         IN  \A i \in 1..(n - 1) : Less(toks[i], toks[i + 1])
<1> DEFINE n == IF ~IsPoint(s) THEN Len(toks) - 1 ELSE Len(toks)
<1>1. Len(L) \in Nat /\ Len(toks) \in Nat
  BY FieldListsAreInOrder, FinishedTokens
<1> SUFFICES ASSUME NEW i \in 1..(n - 1) PROVE Less(toks[i], toks[i + 1])
  OBVIOUS
<1>2. i \in 1..(Len(toks) - 1)
  BY <1>1
<1>3. Len(L) <= InOrder(L, s) \/ i + 1 < Len(toks)
  BY <1>1 DEF InOrder
<1>4. Streamed(L, InOrder(L, s), Len(L), << >>, << >>, toks)
  BY DEF IsFinished
<1> HIDE DEF n
<1> QED BY <1>2, <1>3, <1>4 DEF Streamed

(* The terms of a finished field come in the order of the index, but for   *)
(* the centre, and none twice.                                             *)
THEOREM FieldsAreSorted == FieldSpec => []TokensSorted
<1>1. ASSUME FieldInv PROVE TokensSorted
  <2>1. ASSUME NEW t \in Threads, Done(t)
        PROVE  LET n == IF Done(t) /\ ~IsPoint(job[t].shape) THEN Len(tokens[t]) - 1 ELSE Len(tokens[t])
               IN  \A i \in 1..(n - 1) : Less(tokens[t][i], tokens[t][i + 1])
    <3>1. PICK L : /\ IsFieldList(L, job[t].shape, job[t].detailLevel, world[t] \in worldLeafs)
                   /\ IsFinished(L, job[t].shape, tokens[t])
      BY <1>1, <2>1, DoneIsFinished
    <3>2. LET n == IF ~IsPoint(job[t].shape) THEN Len(tokens[t]) - 1 ELSE Len(tokens[t])
          IN  \A i \in 1..(n - 1) : Less(tokens[t][i], tokens[t][i + 1])
      BY <3>1, FinishedInOrder
    <3> QED BY <2>1, <3>2
  <2> QED BY <2>1 DEF TokensSorted
<1> QED BY <1>1, AlwaysOK, PTL

-----------------------------------------------------------------------------
(* LeafCells of a thread, of its shape and tokens.                         *)
LeafCellsOf(s, toks) ==
  { CellOf(term) : term \in { m \in ToSet(toks) : IsMarked(m) } }
  \cup (IF IsPoint(s) THEN {Last(toks)} ELSE {})

LEMMA LeavesOfShape ==
  ASSUME NEW L, NEW s, ~IsPoint(s), NEW d, NEW leafWorld, IsFieldList(L, s, d, leafWorld),
         NEW toks, IsFinished(L, s, toks), NEW c
  PROVE  c \in LeafCellsOf(s, toks) <=> \E j \in 1..Len(L) : L[j].leaf /\ c = L[j].cell
<1>1. /\ \A j \in 1..Len(L) : L[j].cell \in Cells
      /\ \A j \in 1..Len(L) : L[j].leaf => Marked(L[j].cell) \in ToSet(toks)
      /\ \A x \in ToSet(toks) : \E j \in 1..Len(L) : IsTokenOf(L, j, x)
  BY FinishedTokens
<1>2. c \in LeafCellsOf(s, toks) <=> \E x \in ToSet(toks) : IsMarked(x) /\ c = CellOf(x)
  BY DEF LeafCellsOf
<1>3. ASSUME NEW x \in ToSet(toks), IsMarked(x), c = CellOf(x)
      PROVE  \E j \in 1..Len(L) : L[j].leaf /\ c = L[j].cell
  <2>1. PICK j \in 1..Len(L) : IsTokenOf(L, j, x)
    BY <1>1
  <2>2. L[j].cell \in Cells
    BY <1>1
  <2>3. L[j].leaf /\ CellOf(x) = L[j].cell
    BY <1>3, <2>1, <2>2, TokenOfCell
  <2> QED BY <1>3, <2>3
<1>4. ASSUME NEW j \in 1..Len(L), L[j].leaf, c = L[j].cell
      PROVE  \E x \in ToSet(toks) : IsMarked(x) /\ c = CellOf(x)
  <2>1. L[j].cell \in Cells /\ Marked(L[j].cell) \in ToSet(toks)
    BY <1>1, <1>4
  <2>2. IsMarked(Marked(L[j].cell)) /\ CellOf(Marked(L[j].cell)) = L[j].cell
    BY <2>1, CellsAreTerms
  <2> QED BY <1>4, <2>1, <2>2
<1> QED BY <1>2, <1>3, <1>4

LEMMA LeavesOfPoint ==
  ASSUME NEW L, NEW s, IsPoint(s), NEW d, NEW leafWorld, IsFieldList(L, s, d, leafWorld),
         NEW toks, IsFinished(L, s, toks)
  PROVE  /\ LeafCellsOf(s, toks) = {L[MaxLevels].cell}
         /\ L[MaxLevels].cell \in Cells /\ Len(L[MaxLevels].cell) = MaxLevels
         /\ CellTouches(L[MaxLevels].cell, s)
<1>1. IsPointList(L, s) /\ MaxLevels \in 1..Len(L) /\ Len(L) = MaxLevels
  BY MaxLevelsAssumption DEF IsFieldList, IsPointList
<1>2. /\ \A j \in 1..Len(L) : L[j].cell \in Cells /\ ~L[j].leaf
      /\ Len(L[MaxLevels].cell) = MaxLevels /\ CellTouches(L[MaxLevels].cell, s)
  <2>1. \A j \in 1..Len(L) : L[j].cell \in Cells
    BY FinishedTokens
  <2> QED BY <1>1, <2>1 DEF IsPointList
<1>3. Last(toks) = L[MaxLevels].cell
  BY <1>1, <1>2, FinishedTokens DEF Last
<1>4. ASSUME NEW x \in ToSet(toks), IsMarked(x) PROVE FALSE
  <2>1. PICK j \in 1..Len(L) : IsTokenOf(L, j, x)
    BY FinishedTokens
  <2>2. L[j].leaf
    BY <1>2, <1>4, <2>1, TokenOfCell
  <2> QED BY <1>2, <2>2
<1>5. { CellOf(term) : term \in { m \in ToSet(toks) : IsMarked(m) } } = {}
  BY <1>4
<1>6. LeafCellsOf(s, toks) = {L[MaxLevels].cell}
  BY <1>3, <1>5 DEF LeafCellsOf
<1> QED BY <1>1, <1>2, <1>6

(* Exact of a thread, of its shape and tokens.                             *)
LEMMA ExactFields ==
  ASSUME NEW L, NEW s, IsOfWorld(s), NEW d \in 1..MaxLevels, IsPoint(s) => d = MaxLevels,
         IsPoint(s) \/ IsShapeList(L, s, d), NEW leafWorld, IsFieldList(L, s, d, leafWorld),
         NEW toks, IsFinished(L, s, toks)
  PROVE  LET touched == { c \in AllCells : /\ Len(c) = d
                                           /\ Relate(CellShape(c), s) # "DISJOINT" }
             covered == { c \in AllCells : /\ Len(c) = d
                                           /\ \E l \in LeafCellsOf(s, toks) : StartsWith(c, l) }
         IN  IF IsPoint(s) THEN LeafCellsOf(s, toks) \subseteq touched /\ LeafCellsOf(s, toks) # {}
                           ELSE covered = touched
<1> DEFINE leaves == LeafCellsOf(s, toks)
           touched == { c \in AllCells : /\ Len(c) = d
                                         /\ Relate(CellShape(c), s) # "DISJOINT" }
           covered == { c \in AllCells : Len(c) = d /\ \E l \in leaves : StartsWith(c, l) }
<1>1. IsUsed(s) /\ AllCells = Cells
  BY TouchesWorld, AllCellsAreCells
<1>2. \A c : c \in touched <=> c \in Cells /\ Len(c) = d /\ CellTouches(c, s)
  BY <1>1, RelateCell
<1>3. \A c : c \in covered <=> c \in Cells /\ Len(c) = d /\ \E l \in leaves : StartsWith(c, l)
  BY <1>1
<1> HIDE DEF touched, covered
<1>4. CASE IsPoint(s)
  <2>1. leaves = {L[MaxLevels].cell} /\ L[MaxLevels].cell \in touched
    BY <1>2, <1>4, LeavesOfPoint
  <2>2. leaves \subseteq touched /\ leaves # {}
    BY <2>1
  <2> QED BY <1>4, <2>2 DEF touched
<1>5. CASE ~IsPoint(s)
  <2>1. ASSUME NEW c \in Cells, Len(c) = d
        PROVE  (\E l \in leaves : StartsWith(c, l)) <=> CellTouches(c, s)
    <3>1. CellTouches(c, s) <=> \E j \in 1..Len(L) : L[j].leaf /\ StartsWith(c, L[j].cell)
      BY <1>5, <2>1 DEF IsShapeList
    <3>2. \A l : l \in leaves <=> \E j \in 1..Len(L) : L[j].leaf /\ l = L[j].cell
      BY <1>5, LeavesOfShape
    <3> HIDE DEF leaves
    <3> QED BY <3>1, <3>2
  <2>2. covered = touched
    BY <1>2, <1>3, <2>1
  <2> QED BY <1>5, <2>2 DEF touched, covered
<1> QED BY <1>4, <1>5

LEMMA CentreAlone ==
  ASSUME NEW L, NEW s, IsCentreList(L), NEW toks, IsFinished(L, s, toks)
  PROVE  Len(toks) = 1
<1>1. Len(L) = 1 /\ \A j \in 1..1 : ~L[j].leaf
  BY DEF IsCentreList
<1>2. Streamed(L, InOrder(L, s), 1, << >>, << >>, toks)
  BY <1>1 DEF IsFinished
<1> QED BY <1>1, <1>2 DEF Streamed

(* The leaves of a finished field cover just the cells of its detail level *)
(* that the shape touches, or the field consists of its centre, for which  *)
(* another call must have made the shared world cell a leaf.               *)
THEOREM FieldsAreExact == FieldSpec => []ExactOrCentreOnly
<1>1. ASSUME FieldInv PROVE ExactOrCentreOnly
  <2>1. ASSUME NEW t \in Threads, Done(t)
        PROVE  Exact(t) \/ (world[t] \in worldLeafs /\ Len(tokens[t]) = 1)
    <3> DEFINE s == job[t].shape
               d == job[t].detailLevel
               toks == tokens[t]
    <3>1. job[t] \in Jobs
          /\ \E L : /\ IsFieldList(L, s, d, world[t] \in worldLeafs)
                    /\ IsFinished(L, s, toks)
      BY <1>1, <2>1, DoneIsFinished
    <3>2. PICK L : IsFieldList(L, s, d, world[t] \in worldLeafs) /\ IsFinished(L, s, toks)
      BY <3>1
    <3>3. IsOfWorld(s) /\ d \in 1..MaxLevels /\ (IsPoint(s) => d = MaxLevels)
      BY <3>1, ListsOfJob
    <3>4. CASE IsPoint(s) \/ IsShapeList(L, s, d)
      <4> DEFINE l == world[t] \in worldLeafs
      <4>0. IsFieldList(L, s, d, l)
        BY <3>2
      <4> HIDE DEF s, d, toks, l
      <4>1. LET touched == { c \in AllCells : /\ Len(c) = d
                                              /\ Relate(CellShape(c), s) # "DISJOINT" }
                covered == { c \in AllCells : /\ Len(c) = d
                                              /\ \E e \in LeafCellsOf(s, toks) : StartsWith(c, e) }
            IN  IF IsPoint(s) THEN LeafCellsOf(s, toks) \subseteq touched /\ LeafCellsOf(s, toks) # {}
                              ELSE covered = touched
        BY <3>2, <3>3, <3>4, <4>0, ExactFields
      <4>2. LeafCells(t) = LeafCellsOf(s, toks)
        BY DEF LeafCells, LeafCellsOf, s, toks
      <4>3. Exact(t)
        BY <4>1, <4>2, Zenon DEF Exact, s, d
      <4> QED BY <4>3
    <3>5. CASE ~(IsPoint(s) \/ IsShapeList(L, s, d))
      <4>1. IsCentreList(L) /\ world[t] \in worldLeafs
        BY <3>2, <3>5 DEF IsFieldList
      <4> QED BY <3>2, <4>1, CentreAlone
    <3> QED BY <3>4, <3>5
  <2> QED BY <2>1 DEF ExactOrCentreOnly
<1> QED BY <1>1, AlwaysOK, PTL

-----------------------------------------------------------------------------
(* The three parts of SearchableFields, of the tokens of a field.          *)
LEMMA LongerTerms ==
  ASSUME NEW L, NEW s, NEW d, NEW leafWorld, IsFieldList(L, s, d, leafWorld),
         NEW toks, IsFinished(L, s, toks),
         NEW x \in ToSet(toks), ~IsMarked(x), Len(x) < MaxLevels
  PROVE  \E u \in ToSet(toks) : u # x /\ StartsWith(u, x)
<1>1. /\ \A j \in 1..Len(L) : L[j].cell \in Cells /\ L[j].cell \in ToSet(toks)
      /\ \A j \in 1..Len(L) : L[j].leaf => Marked(L[j].cell) \in ToSet(toks)
      /\ Len(L) \in Nat
  BY FinishedTokens, FieldListsAreInOrder
<1>2. PICK j \in 1..Len(L) : IsTokenOf(L, j, x)
  BY FinishedTokens
<1>3. x = L[j].cell /\ x \in Cells
  BY <1>1, <1>2, TokenOfCell
<1>4. CASE L[j].leaf
  <2>1. Marked(x) \in ToSet(toks) /\ Marked(x) # x /\ StartsWith(Marked(x), x)
    BY <1>1, <1>3, <1>4, CellsAreTerms
  <2> QED BY <2>1
<1>5. CASE ~L[j].leaf
  <2>1. CASE IsPoint(s)
    <3>1. IsPointList(L, s) /\ MaxLevels \in Nat
      BY <2>1, MaxLevelsAssumption DEF IsFieldList
    <3>2. j + 1 \in 1..Len(L) /\ j < j + 1 /\ Len(L[j + 1].cell) = j + 1 /\ Len(x) = j
      <4>1. Len(x) = j /\ Len(L) = MaxLevels
        BY <1>3, <3>1 DEF IsPointList
      <4>2. j + 1 \in 1..Len(L) /\ j < j + 1
        BY <3>1, <4>1
      <4> QED BY <3>1, <4>1, <4>2 DEF IsPointList
    <3>3. StartsWith(L[j + 1].cell, x) /\ L[j + 1].cell # x
      BY <1>3, <3>1, <3>2 DEF IsPointList
    <3> QED BY <1>1, <3>2, <3>3
  <2>2. CASE ~IsPoint(s) /\ IsShapeList(L, s, d)
    <3>1. j \in 1..(Len(L) - 1)
      <4>1. Len(L[Len(L)].cell) = MaxLevels /\ MaxLevels \in Nat
        BY <2>2, MaxLevelsAssumption DEF IsShapeList
      <4>2. j # Len(L)
        BY <1>3, <4>1
      <4> QED BY <1>1, <4>2
    <3>2. \E k \in 1..Len(L) : L[k].cell # x /\ StartsWith(L[k].cell, x)
      BY <1>3, <1>5, <2>2, <3>1 DEF IsShapeList
    <3> QED BY <1>1, <3>2
  <2>3. CASE ~IsPoint(s) /\ IsCentreList(L)
    <3>1. Len(L) = 1 /\ Len(L[1].cell) = MaxLevels /\ MaxLevels \in Nat
      BY <2>3, MaxLevelsAssumption DEF IsCentreList
    <3>2. j = 1
      BY <3>1
    <3> QED BY <1>3, <3>1, <3>2
  <2> QED BY <2>1, <2>2, <2>3 DEF IsFieldList
<1> QED BY <1>4, <1>5

LEMMA MarkedTerms ==
  ASSUME NEW L, NEW s, NEW d, NEW leafWorld, IsFieldList(L, s, d, leafWorld),
         NEW toks, IsFinished(L, s, toks), NEW x \in ToSet(toks)
  PROVE  CellOf(x) \in ToSet(toks)
<1>1. \A j \in 1..Len(L) : L[j].cell \in Cells /\ L[j].cell \in ToSet(toks)
  BY FinishedTokens
<1>2. PICK j \in 1..Len(L) : IsTokenOf(L, j, x)
  BY FinishedTokens
<1> QED BY <1>1, <1>2, TokenOfCell

LEMMA RootedTerms ==
  ASSUME NEW L, NEW s, NEW d, NEW leafWorld, IsFieldList(L, s, d, leafWorld),
         NEW toks, IsFinished(L, s, toks), NEW i \in 1..Len(toks)
  PROVE  \/ \A n \in 1..Len(CellOf(toks[i])) : SubSeq(CellOf(toks[i]), 1, n) \in ToSet(toks)
         \/ /\ i = Len(toks)
            /\ (\E l \in LeafCellsOf(s, toks) : StartsWith(toks[i], l)) \/ leafWorld
<1>1. /\ \A j \in 1..Len(L) : L[j].cell \in Cells /\ L[j].cell \in ToSet(toks)
      /\ toks[Len(toks)] = IF L[Len(L)].leaf THEN Marked(L[Len(L)].cell) ELSE L[Len(L)].cell
      /\ Len(L) \in Nat /\ Len(L) > 0 /\ Len(toks) \in Nat /\ Len(toks) > 0
  BY FinishedTokens, FieldListsAreInOrder
<1>2. \E j \in 1..Len(L) : /\ IsTokenOf(L, j, toks[i])
                           /\ i = Len(toks) \/ j < Len(L) \/ L[j].leaf
  BY DEF IsFinished, Streamed
<1>3. PICK j \in 1..Len(L) : /\ IsTokenOf(L, j, toks[i])
                             /\ i = Len(toks) \/ j < Len(L) \/ L[j].leaf
  BY <1>2
<1>4. CellOf(toks[i]) = L[j].cell
  BY <1>1, <1>3, TokenOfCell
<1>5. CASE IsPoint(s)
  <2>1. IsPointList(L, s)
    BY <1>5 DEF IsFieldList
  <2>2. Len(L[j].cell) = j /\ \A n \in 1..j : L[n].cell = SubSeq(L[j].cell, 1, n)
    BY <2>1 DEF IsPointList
  <2>3. \A n \in 1..j : L[n].cell \in ToSet(toks)
    BY <1>1
  <2> QED BY <1>4, <2>2, <2>3
<1>6. CASE ~IsPoint(s) /\ IsShapeList(L, s, d)
  <2>0. ~L[Len(L)].leaf
    BY <1>6 DEF IsShapeList
  <2>1. CASE i # Len(toks)
    <3>1. j \in 1..(Len(L) - 1)
      BY <1>1, <1>3, <2>0, <2>1
    <3>2. \A n \in 1..Len(L[j].cell) : \E k \in 1..Len(L) : L[k].cell = SubSeq(L[j].cell, 1, n)
      BY <1>6, <3>1 DEF IsShapeList
    <3>3. \A n \in 1..Len(L[j].cell) : SubSeq(L[j].cell, 1, n) \in ToSet(toks)
      BY <1>1, <3>2
    <3> QED BY <1>4, <3>3
  <2>2. CASE i = Len(toks)
    <3>1. toks[i] = L[Len(L)].cell
      BY <1>1, <2>0, <2>2
    <3>2. PICK k \in 1..Len(L) : L[k].leaf /\ StartsWith(L[Len(L)].cell, L[k].cell)
      BY <1>6 DEF IsShapeList
    <3>3. L[k].cell \in LeafCellsOf(s, toks)
      BY <1>6, <3>2, LeavesOfShape
    <3> QED BY <2>2, <3>1, <3>2, <3>3
  <2> QED BY <2>1, <2>2
<1>7. CASE ~IsPoint(s) /\ IsCentreList(L) /\ leafWorld
  <2>1. Len(toks) = 1
    BY <1>7, CentreAlone
  <2> QED BY <1>7, <2>1
<1> QED BY <1>5, <1>6, <1>7 DEF IsFieldList

(* What RecursivePrefixTreeFilter relies on when it walks the index: no    *)
(* field leaves a cell without a longer term below it, a leaf without its  *)
(* cell, or a cell but the centre without its parents.                     *)
THEOREM FieldsAreSearchable == FieldSpec => []SearchableFields
<1>1. ASSUME FieldInv PROVE SearchableFields
  <2> SUFFICES ASSUME NEW t \in Threads, Done(t)
               PROVE  /\ \A m \in ToSet(tokens[t]) : ~IsMarked(m) /\ Len(m) < MaxLevels =>
                           \E u \in ToSet(tokens[t]) : u # m /\ StartsWith(u, m)
                      /\ \A m \in ToSet(tokens[t]) : IsMarked(m) => CellOf(m) \in ToSet(tokens[t])
                      /\ \A i \in 1..Len(tokens[t]) :
                           \/ \A n \in 1..Len(CellOf(tokens[t][i])) :
                                SubSeq(CellOf(tokens[t][i]), 1, n) \in ToSet(tokens[t])
                           \/ /\ i = Len(tokens[t])
                              /\ \/ \E l \in LeafCells(t) : StartsWith(tokens[t][i], l)
                                 \/ world[t] \in worldLeafs
    BY DEF SearchableFields
  <2> DEFINE s == job[t].shape
             d == job[t].detailLevel
             toks == tokens[t]
             leafWorld == world[t] \in worldLeafs
  <2>1. \E L : IsFieldList(L, s, d, leafWorld) /\ IsFinished(L, s, toks)
    BY <1>1, DoneIsFinished
  <2>2. PICK L : IsFieldList(L, s, d, leafWorld) /\ IsFinished(L, s, toks)
    BY <2>1
  <2>3. LeafCells(t) = LeafCellsOf(s, toks)
    BY DEF LeafCells, LeafCellsOf
  <2> HIDE DEF s, d, toks, leafWorld
  <2>4. \A m \in ToSet(toks) : ~IsMarked(m) /\ Len(m) < MaxLevels =>
          \E u \in ToSet(toks) : u # m /\ StartsWith(u, m)
    BY <2>2, LongerTerms
  <2>5. \A m \in ToSet(toks) : CellOf(m) \in ToSet(toks)
    BY <2>2, MarkedTerms
  <2>6. \A i \in 1..Len(toks) :
          \/ \A n \in 1..Len(CellOf(toks[i])) : SubSeq(CellOf(toks[i]), 1, n) \in ToSet(toks)
          \/ /\ i = Len(toks)
             /\ (\E l \in LeafCellsOf(s, toks) : StartsWith(toks[i], l)) \/ leafWorld
    BY <2>2, RootedTerms
  <2> QED BY <2>3, <2>4, <2>5, <2>6, Zenon DEF toks, leafWorld
<1> QED BY <1>1, AlwaysOK, PTL
=============================================================================
