------------------------- MODULE ShapeCaches_proofs -------------------------
(***************************************************************************)
(* ShapeCaches for any number of threads, fields, readers and terms: the   *)
(* double checked locking gives one provider per field, and every cache    *)
(* that can be found is complete and is never changed.                     *)
(*                                                                         *)
(* The inductive invariant is IInv.  What has to be added to OneProvider   *)
(* and CachesAreComplete is which locks a thread holds where (Locking),    *)
(* how far the cache under construction has come (Building), that no other *)
(* thread can reach that cache (Names), and that a thread which has found  *)
(* a cache has the one that was put (Finding).                             *)
(***************************************************************************)
EXTENDS CachedCenters, TokensAndShapes_proofs

(* Providers and caches are named by where they belong, and only providers *)
(* that were put into the map have caches.                                 *)
Names ==
  /\ \A f \in FieldNames : provider[f] # Null => provider[f][1] = f
  /\ \A o \in Providers, r \in Readers : sidx[<< o, r >>] # Null =>
       /\ \E u \in Threads : sidx[<< o, r >>] = << o, r, u >>
       /\ provider[o[1]] = o

Calling == \A t \in Threads : pc[t] # "idle" => call[t] \in Readers \X FieldNames

Locking ==
  \A t \in Threads :
    /\ pc[t] \in {"recheck", "create", "leave"} => monitor = t
    /\ pc[t] = "create" => provider[FieldOf(t)] = Null
    /\ pc[t] = "leave" => p[t] # Null /\ p[t] = provider[FieldOf(t)]
    /\ pc[t] \in {"lookup", "next", "read", "exit"} => owner[p[t]] = t

(* The cache that thread t builds is not yet put, and has the shapes of    *)
(* the terms before te.                                                    *)
BuildingBy(t) ==
  /\ idx[t] = NewCache(t)
  /\ sidx[<< p[t], ReaderOf(t) >>] = Null
  /\ te[t] <= Len(Postings(t).terms) + 1
  /\ \A d \in Docs :
       shapes[NewCache(t)][d] = ShapesUpTo(te[t] - 1, ReaderOf(t), FieldOf(t), d)
  /\ pc[t] = "read" =>
       /\ te[t] <= Len(Postings(t).terms)
       /\ scanCell[p[t]] = Postings(t).terms[te[t]]

Building == \A t \in Threads : pc[t] \in {"next", "read"} => BuildingBy(t)

Finding ==
  \A t \in Threads : pc[t] \in {"exit", "double"} =>
    idx[t] # Null /\ idx[t] = sidx[<< p[t], ReaderOf(t) >>]

PutAreComplete ==
  \A f \in FieldNames, r \in Readers :
    provider[f] # Null /\ sidx[<< provider[f], r >>] # Null =>
      \A d \in Docs : shapes[sidx[<< provider[f], r >>]][d] = ShapesOf(r, f, d)

IInv ==
  /\ TypeOK /\ Names /\ Calling /\ Locking /\ OneProvider
  /\ Building /\ Finding /\ PutAreComplete

-----------------------------------------------------------------------------

LEMMA CellOfLeafTerm ==
  ASSUME NEW t \in Terms
  PROVE  CellOf(t) \in Cells
<1>1. CASE IsMarked(t)
  <2>1. /\ t \in Seq(0..Arity) /\ Len(t) \in 2..(MaxLevels + 1)
        /\ \A i \in 1..(Len(t) - 1) : t[i] # 0
    <3>1. t \notin Cells
      BY <1>1, CellsAreSequences DEF IsMarked, LeafByte
    <3> QED BY <3>1 DEF Terms, LeafByte
  <2>2. \A i \in 1..(Len(t) - 1) : t[i] \in 1..Arity
    BY <2>1, ElementOfSeq, ArityAssumption
  <2>3. SubSeq(t, 1, Len(t) - 1) \in Seq(1..Arity)
    BY <2>1, <2>2
  <2> QED BY <1>1, <2>1, <2>3, MaxLevelsAssumption DEF CellOf, Cells
<1>2. CASE ~IsMarked(t)
  BY <1>2 DEF Terms, CellOf, IsMarked, LeafByte
<1> QED BY <1>1, <1>2

(* What the assumption says of the segment of a call.                      *)
LEMMA PostingsFacts ==
  ASSUME NEW t \in Threads, call[t] \in Readers \X FieldNames
  PROVE  /\ ReaderOf(t) \in Readers
         /\ FieldOf(t) \in FieldNames
         /\ call[t] = << ReaderOf(t), FieldOf(t) >>
         /\ Postings(t) = Segments[<< ReaderOf(t), FieldOf(t) >>]
         /\ Len(Postings(t).terms) \in Nat
         /\ \A i \in 1..Len(Postings(t).terms) : Postings(t).terms[i] \in Terms
<1>1. Segments[call[t]] \in [terms : Seq(Terms), docs : Seq(SUBSET Docs)]
  BY SegmentsAssumption
<1>2. Segments[call[t]].terms \in Seq(Terms)
  BY <1>1
<1>3. \A i \in 1..Len(Segments[call[t]].terms) : Segments[call[t]].terms[i] \in Terms
  BY <1>2, ElementOfSeq, Zenon
<1> QED BY <1>2, <1>3 DEF ReaderOf, FieldOf, Postings

LEMMA InitInv == Init => IInv
<1> SUFFICES ASSUME Init PROVE IInv
  OBVIOUS
<1>1. TypeOK
  BY NullAssumption DEF Init, TypeOK, Places
<1>2. Names /\ Calling /\ Locking /\ OneProvider /\ Building /\ Finding /\ PutAreComplete
  BY DEF Init, Names, Calling, Locking, OneProvider, Building, Finding, PutAreComplete
<1> QED BY <1>1, <1>2 DEF IInv

(* The types are preserved by every step; idle threads have no call.       *)
LEMMA NextTypes ==
  ASSUME TypeOK, Calling, Building, OneProvider, Finding, Next
  PROVE  TypeOK' /\ Calling'
<1> USE DEF TypeOK, Calling, GoTo, Places, shared
<1>1. \A t \in Threads : pc[t] # "idle" =>
        ReaderOf(t) \in Readers /\ FieldOf(t) \in FieldNames
  BY PostingsFacts
<1>2. \A t \in Threads :
        pc[t] \in {"values", "lookup", "next", "read", "exit", "double"} => p[t] \in Providers
  BY DEF OneProvider
<1>3. \A t \in Threads : pc[t] \in {"lookup", "next", "read"} => NewCache(t) \in Caches
  BY <1>1, <1>2 DEF NewCache, Caches
<1>4. ASSUME NEW t \in Threads, MakeValueSource(t) PROVE TypeOK' /\ Calling'
  BY <1>4 DEF MakeValueSource
<1>5. ASSUME NEW t \in Threads, GetProvider(t) PROVE TypeOK' /\ Calling'
  BY <1>1, <1>5 DEF GetProvider
<1>6. ASSUME NEW t \in Threads, EnterStrategy(t) PROVE TypeOK' /\ Calling'
  BY <1>6 DEF EnterStrategy
<1>7. ASSUME NEW t \in Threads, RecheckProvider(t) PROVE TypeOK' /\ Calling'
  BY <1>1, <1>7 DEF RecheckProvider
<1>8. ASSUME NEW t \in Threads, CreateProvider(t) PROVE TypeOK' /\ Calling'
  BY <1>1, <1>8 DEF CreateProvider, Providers
<1>9. ASSUME NEW t \in Threads, LeaveStrategy(t) PROVE TypeOK' /\ Calling'
  BY <1>9 DEF LeaveStrategy
<1>10. ASSUME NEW t \in Threads, EnterProvider(t) PROVE TypeOK' /\ Calling'
  BY <1>2, <1>10 DEF EnterProvider
<1>11. ASSUME NEW t \in Threads, FindCache(t) PROVE TypeOK' /\ Calling'
  BY <1>1, <1>2, <1>11 DEF FindCache
<1>12. ASSUME NEW t \in Threads, StartCache(t) PROVE TypeOK' /\ Calling'
  BY <1>3, <1>12 DEF StartCache
<1>13. ASSUME NEW t \in Threads, ReadTerm(t) PROVE TypeOK' /\ Calling'
  BY <1>2, <1>13 DEF ReadTerm
<1>14. ASSUME NEW t \in Threads, AddShape(t) PROVE TypeOK' /\ Calling'
  <2>1. pc[t] = "read" /\ call[t] \in Readers \X FieldNames /\ te[t] \in Nat \ {0}
    BY <1>14 DEF AddShape
  <2>2. BuildingBy(t)
    BY <2>1 DEF Building
  <2>3. scanCell[p[t]] = Postings(t).terms[te[t]] /\ te[t] \in 1..Len(Postings(t).terms)
    BY <2>1, <2>2, PostingsFacts DEF BuildingBy
  <2>4. scanCell[p[t]] \in Terms
    BY <2>1, <2>3, PostingsFacts
  <2>5. CellOf(scanCell[p[t]]) \in Cells
    BY <2>4, CellOfLeafTerm
  <2>6. idx[t] \in Caches
    BY <1>3, <2>1, <2>2 DEF BuildingBy
  <2> DEFINE old == shapes[idx[t]]
             new == [d \in Docs |-> IF d \in Postings(t).docs[te[t]]
                                   THEN old[d] \cup {CellOf(scanCell[p[t]])} ELSE old[d]]
  <2>7. old \in [Docs -> SUBSET Cells]
    BY <2>6
  <2>8. new \in [Docs -> SUBSET Cells]
    BY <2>5, <2>7
  <2>9. shapes' = [shapes EXCEPT ![idx[t]] = new] \/ shapes' = shapes
    BY <1>14 DEF AddShape
  <2>10. shapes' \in [Caches -> [Docs -> SUBSET Cells]]
    <3> HIDE DEF new
    <3> QED BY <2>6, <2>8, <2>9
  <2> QED BY <1>14, <2>10 DEF AddShape
<1>15. ASSUME NEW t \in Threads, PutCache(t) PROVE TypeOK' /\ Calling'
  BY <1>1, <1>2, <1>15 DEF PutCache
<1>16. ASSUME NEW t \in Threads, FailToRead(t) PROVE TypeOK' /\ Calling'
  <2>1. idx[t] \in Caches
    BY <1>3, <1>16 DEF FailToRead, Building, BuildingBy
  <2>2. shapes' \in [Caches -> [Docs -> SUBSET Cells]]
    BY <1>16, <2>1 DEF FailToRead
  <2>3. pc' = [pc EXCEPT ![t] = "idle"] /\ p[t] \in Providers
    BY <1>2, <1>16 DEF FailToRead
  <2>4. owner' \in [Providers -> Threads \cup {Null}]
    BY <1>16, <2>3 DEF FailToRead
  <2>5. /\ call' \in [Threads -> (Readers \X FieldNames) \cup {Null}]
        /\ p' \in [Threads -> Providers \cup {Null}]
        /\ idx' \in [Threads -> Caches \cup {Null}]
        /\ te' \in [Threads -> Nat \ {0}]
        /\ \A u \in Threads \ {t} : call'[u] = call[u]
    BY <1>16 DEF FailToRead, ForgetLocals
  <2> QED BY <1>16, <2>2, <2>3, <2>4, <2>5 DEF FailToRead
<1>17. ASSUME NEW t \in Threads, LeaveProvider(t) PROVE TypeOK' /\ Calling'
  BY <1>2, <1>17 DEF LeaveProvider
<1>18. ASSUME NEW t \in Threads, DoubleVal(t) PROVE TypeOK' /\ Calling'
  BY <1>18 DEF DoubleVal, ForgetLocals
<1> QED BY <1>4, <1>5, <1>6, <1>7, <1>8, <1>9, <1>10, <1>11, <1>12, <1>13, <1>14,
           <1>15, <1>16, <1>17, <1>18 DEF Next, Search

(* A thread keeps the locks it works under and the provider it has found.  *)
LEMMA NextLocking ==
  ASSUME TypeOK, Names, Calling, Locking, OneProvider, Next
  PROVE  Locking' /\ OneProvider'
<1> USE DEF TypeOK, Calling, Locking, OneProvider, GoTo, Places, shared
<1>1. \A t \in Threads : pc[t] # "idle" => FieldOf(t) \in FieldNames
  BY PostingsFacts
<1> USE DEF FieldOf
<1>2. ASSUME NEW t \in Threads, MakeValueSource(t) PROVE Locking' /\ OneProvider'
  BY <1>2 DEF MakeValueSource
<1>3. ASSUME NEW t \in Threads, GetProvider(t) PROVE Locking' /\ OneProvider'
  BY <1>3 DEF GetProvider
<1>4. ASSUME NEW t \in Threads, EnterStrategy(t) PROVE Locking' /\ OneProvider'
  BY <1>4, NullAssumption DEF EnterStrategy
<1>5. ASSUME NEW t \in Threads, RecheckProvider(t) PROVE Locking' /\ OneProvider'
  BY <1>5 DEF RecheckProvider
<1>6. ASSUME NEW t \in Threads, CreateProvider(t) PROVE Locking' /\ OneProvider'
  <2>1. << FieldOf(t), t >> # Null
    BY <1>1, <1>6, NullAssumption DEF CreateProvider, Providers
  <2>2. \A u \in Threads \ {t} : pc[u] \notin {"recheck", "create", "leave"}
    BY <1>6 DEF CreateProvider
  <2>3. \A u \in Threads \ {t} :
          pc[u] \in {"values", "lookup", "next", "read", "exit", "double"} =>
            FieldOf(u) # FieldOf(t)
    BY <1>6 DEF CreateProvider
  <2> QED BY <1>1, <1>6, <2>1, <2>2, <2>3 DEF CreateProvider
<1>7. ASSUME NEW t \in Threads, LeaveStrategy(t) PROVE Locking' /\ OneProvider'
  BY <1>7 DEF LeaveStrategy
<1>8. ASSUME NEW t \in Threads, EnterProvider(t) PROVE Locking' /\ OneProvider'
  <2>1. \A u \in Threads \ {t} :
          pc[u] \in {"lookup", "next", "read", "exit"} => p[u] # p[t]
    BY <1>8, NullAssumption DEF EnterProvider
  <2>2. p[t] \in Providers
    BY <1>8 DEF EnterProvider
  <2> QED BY <1>8, <2>1, <2>2 DEF EnterProvider
<1>9. ASSUME NEW t \in Threads, FindCache(t) PROVE Locking' /\ OneProvider'
  BY <1>9 DEF FindCache
<1>10. ASSUME NEW t \in Threads, StartCache(t) PROVE Locking' /\ OneProvider'
  BY <1>10 DEF StartCache
<1>11. ASSUME NEW t \in Threads, ReadTerm(t) PROVE Locking' /\ OneProvider'
  BY <1>11 DEF ReadTerm
<1>12. ASSUME NEW t \in Threads, AddShape(t) PROVE Locking' /\ OneProvider'
  BY <1>12 DEF AddShape
<1>13. ASSUME NEW t \in Threads, PutCache(t) PROVE Locking' /\ OneProvider'
  BY <1>13 DEF PutCache
<1>14. ASSUME NEW t \in Threads, FailToRead(t) PROVE Locking' /\ OneProvider'
  BY <1>14 DEF FailToRead, ForgetLocals
<1>15. ASSUME NEW t \in Threads, LeaveProvider(t) PROVE Locking' /\ OneProvider'
  BY <1>15 DEF LeaveProvider
<1>16. ASSUME NEW t \in Threads, DoubleVal(t) PROVE Locking' /\ OneProvider'
  BY <1>16 DEF DoubleVal, ForgetLocals
<1> QED BY <1>2, <1>3, <1>4, <1>5, <1>6, <1>7, <1>8, <1>9, <1>10,
           <1>11, <1>12, <1>13, <1>14, <1>15, <1>16 DEF Next, Search


(* A thread inside getCache() has its provider to itself, and the cache    *)
(* that it may build there is no other thread's.                           *)
LEMMA InsideGetCache ==
  ASSUME TypeOK, Names, Calling, Locking, OneProvider,
         NEW t \in Threads, pc[t] \in {"lookup", "next", "read"}
  PROVE  /\ ReaderOf(t) \in Readers
         /\ FieldOf(t) \in FieldNames
         /\ p[t] \in Providers
         /\ p[t] # Null
         /\ p[t] = provider[FieldOf(t)]
         /\ p[t][1] = FieldOf(t)
         /\ NewCache(t) \in Caches
         /\ NewCache(t) # Null
         /\ \A u \in Threads \ {t} : NewCache(u) # NewCache(t)
         /\ \A u \in Threads \ {t} :
              pc[u] \in {"lookup", "next", "read", "exit"} => p[u] # p[t]
<1>1. ReaderOf(t) \in Readers /\ FieldOf(t) \in FieldNames
  BY PostingsFacts DEF Calling
<1>2. p[t] \in Providers /\ p[t] # Null /\ p[t] = provider[FieldOf(t)]
  BY DEF OneProvider, TypeOK
<1>3. p[t][1] = FieldOf(t)
  BY <1>1, <1>2 DEF Names
<1>4. NewCache(t) \in Caches /\ NewCache(t) # Null
  BY <1>1, <1>2, NullAssumption DEF NewCache, Caches
<1>5. \A u \in Threads \ {t} : NewCache(u) # NewCache(t)
  BY DEF NewCache
<1>6. \A u \in Threads \ {t} :
        pc[u] \in {"lookup", "next", "read", "exit"} => p[u] # p[t]
  BY DEF Locking
<1> QED BY <1>1, <1>2, <1>3, <1>4, <1>5, <1>6

(* The names stay right: only a provider in the map is given a cache.      *)
LEMMA NextNames ==
  ASSUME TypeOK, Names, Calling, Locking, OneProvider, Building, Next
  PROVE  Names'
<1> USE DEF Names, GoTo, shared
<1>1. ASSUME NEW t \in Threads, MakeValueSource(t) PROVE Names'
  BY <1>1 DEF MakeValueSource
<1>2. ASSUME NEW t \in Threads, GetProvider(t) PROVE Names'
  BY <1>2 DEF GetProvider
<1>3. ASSUME NEW t \in Threads, EnterStrategy(t) PROVE Names'
  BY <1>3 DEF EnterStrategy
<1>4. ASSUME NEW t \in Threads, RecheckProvider(t) PROVE Names'
  BY <1>4 DEF RecheckProvider
<1>5. ASSUME NEW t \in Threads, CreateProvider(t) PROVE Names'
  <2>1. pc[t] = "create" /\ FieldOf(t) \in FieldNames
    BY <1>5, PostingsFacts DEF CreateProvider, Calling
  <2>2. provider' = [provider EXCEPT ![FieldOf(t)] = << FieldOf(t), t >>] /\ sidx' = sidx
    BY <1>5 DEF CreateProvider
  <2>3. ASSUME NEW o \in Providers, NEW r \in Readers, sidx[<< o, r >>] # Null
        PROVE  o[1] # FieldOf(t) /\ o[1] \in FieldNames
    BY <2>1, <2>3, NullAssumption DEF Locking, Providers
  <2> QED BY <2>1, <2>2, <2>3 DEF TypeOK
<1>6. ASSUME NEW t \in Threads, LeaveStrategy(t) PROVE Names'
  BY <1>6 DEF LeaveStrategy
<1>7. ASSUME NEW t \in Threads, EnterProvider(t) PROVE Names'
  BY <1>7 DEF EnterProvider
<1>8. ASSUME NEW t \in Threads, FindCache(t) PROVE Names'
  BY <1>8 DEF FindCache
<1>9. ASSUME NEW t \in Threads, StartCache(t) PROVE Names'
  BY <1>9 DEF StartCache
<1>10. ASSUME NEW t \in Threads, ReadTerm(t) PROVE Names'
  BY <1>10 DEF ReadTerm
<1>11. ASSUME NEW t \in Threads, AddShape(t) PROVE Names'
  BY <1>11 DEF AddShape
<1>12. ASSUME NEW t \in Threads, PutCache(t) PROVE Names'
  <2>1. pc[t] = "next"
    BY <1>12 DEF PutCache
  <2>2. sidx' = [sidx EXCEPT ![<< p[t], ReaderOf(t) >>] = NewCache(t)] /\ provider' = provider
    BY <1>12, <2>1 DEF PutCache, Building, BuildingBy
  <2> QED BY <2>1, <2>2, InsideGetCache DEF NewCache, TypeOK
<1>13. ASSUME NEW t \in Threads, FailToRead(t) PROVE Names'
  BY <1>13 DEF FailToRead, ForgetLocals
<1>14. ASSUME NEW t \in Threads, LeaveProvider(t) PROVE Names'
  BY <1>14 DEF LeaveProvider
<1>15. ASSUME NEW t \in Threads, DoubleVal(t) PROVE Names'
  BY <1>15 DEF DoubleVal, ForgetLocals
<1> QED BY <1>1, <1>2, <1>3, <1>4, <1>5, <1>6, <1>7, <1>8, <1>9,
           <1>10, <1>11, <1>12, <1>13, <1>14, <1>15 DEF Next, Search

(* What a thread has found stays what was put.                             *)
LEMMA NextFinding ==
  ASSUME TypeOK, Names, Calling, Locking, OneProvider, Building, Finding, Next
  PROVE  Finding'
<1> USE DEF TypeOK, Finding, GoTo, ReaderOf, shared
<1>1. ASSUME NEW t \in Threads, MakeValueSource(t) PROVE Finding'
  BY <1>1 DEF MakeValueSource
<1>2. ASSUME NEW t \in Threads, GetProvider(t) PROVE Finding'
  BY <1>2 DEF GetProvider
<1>3. ASSUME NEW t \in Threads, EnterStrategy(t) PROVE Finding'
  BY <1>3 DEF EnterStrategy
<1>4. ASSUME NEW t \in Threads, RecheckProvider(t) PROVE Finding'
  BY <1>4 DEF RecheckProvider
<1>5. ASSUME NEW t \in Threads, CreateProvider(t) PROVE Finding'
  BY <1>5 DEF CreateProvider
<1>6. ASSUME NEW t \in Threads, LeaveStrategy(t) PROVE Finding'
  BY <1>6 DEF LeaveStrategy
<1>7. ASSUME NEW t \in Threads, EnterProvider(t) PROVE Finding'
  BY <1>7 DEF EnterProvider
<1>8. ASSUME NEW t \in Threads, FindCache(t) PROVE Finding'
  BY <1>8 DEF FindCache
<1>9. ASSUME NEW t \in Threads, StartCache(t) PROVE Finding'
  BY <1>9 DEF StartCache
<1>10. ASSUME NEW t \in Threads, ReadTerm(t) PROVE Finding'
  BY <1>10 DEF ReadTerm
<1>11. ASSUME NEW t \in Threads, AddShape(t) PROVE Finding'
  BY <1>11 DEF AddShape
<1>12. ASSUME NEW t \in Threads, PutCache(t) PROVE Finding'
  <2>1. pc[t] = "next"
    BY <1>12 DEF PutCache
  <2>2. BuildingBy(t)
    BY <2>1 DEF Building
  <2>3. \A u \in Threads \ {t} : pc[u] \in {"exit", "double"} =>
          << p[u], ReaderOf(u) >> # << p[t], ReaderOf(t) >>
    BY <2>2 DEF BuildingBy
  <2>4. idx[t] # Null /\ << p[t], ReaderOf(t) >> \in Providers \X Readers
    BY <2>1, <2>2, InsideGetCache DEF BuildingBy
  <2> QED BY <1>12, <2>3, <2>4 DEF PutCache
<1>13. ASSUME NEW t \in Threads, FailToRead(t) PROVE Finding'
  BY <1>13 DEF FailToRead, ForgetLocals
<1>14. ASSUME NEW t \in Threads, LeaveProvider(t) PROVE Finding'
  BY <1>14 DEF LeaveProvider
<1>15. ASSUME NEW t \in Threads, DoubleVal(t) PROVE Finding'
  BY <1>15 DEF DoubleVal, ForgetLocals
<1> QED BY <1>1, <1>2, <1>3, <1>4, <1>5, <1>6, <1>7, <1>8, <1>9,
           <1>10, <1>11, <1>12, <1>13, <1>14, <1>15 DEF Next, Search


(* One more term adds its shape to its documents, if it is a leaf.         *)
LEMMA ShapesOfNextTerm ==
  ASSUME NEW r, NEW f, NEW d, NEW n \in Nat \ {0}
  PROVE  ShapesUpTo(n, r, f, d) =
           IF IsLeafTerm(Segments[<< r, f >>].terms[n]) /\ d \in Segments[<< r, f >>].docs[n]
           THEN ShapesUpTo(n - 1, r, f, d) \cup {CellOf(Segments[<< r, f >>].terms[n])}
           ELSE ShapesUpTo(n - 1, r, f, d)
<1> DEFINE S == Segments[<< r, f >>]
           Shape(j) == IsLeafTerm(S.terms[j]) /\ d \in S.docs[j]
           Chosen(m) == { j \in 1..m : Shape(j) }
<1>1. \A m : ShapesUpTo(m, r, f, d) = { CellOf(S.terms[j]) : j \in Chosen(m) }
  BY DEF ShapesUpTo
<1>2. Chosen(n) = IF Shape(n) THEN Chosen(n - 1) \cup {n} ELSE Chosen(n - 1)
  <2> HIDE DEF Shape
  <2>1. 1..n = (1..(n - 1)) \cup {n}
    OBVIOUS
  <2> QED BY <2>1
<1>3. { CellOf(S.terms[j]) : j \in Chosen(n) } =
        IF Shape(n) THEN { CellOf(S.terms[j]) : j \in Chosen(n - 1) } \cup {CellOf(S.terms[n])}
                    ELSE { CellOf(S.terms[j]) : j \in Chosen(n - 1) }
  <2> HIDE DEF Chosen, Shape, S
  <2> QED BY <1>2
<1> QED BY <1>1, <1>3

(* What a build depends on.                                                *)
LEMMA BuildGoesOn ==
  ASSUME NEW u, BuildingBy(u),
         call'[u] = call[u], p'[u] = p[u], te'[u] = te[u], idx'[u] = idx[u],
         sidx'[<< p[u], ReaderOf(u) >>] = sidx[<< p[u], ReaderOf(u) >>],
         shapes'[NewCache(u)] = shapes[NewCache(u)],
         pc'[u] = "read" => /\ te[u] <= Len(Postings(u).terms)
                            /\ scanCell'[p[u]] = Postings(u).terms[te[u]]
  PROVE  BuildingBy(u)'
BY DEF BuildingBy, NewCache, Postings, ReaderOf, FieldOf

(* A build goes on undisturbed: no other thread changes the provider's     *)
(* node, or the cache that is being built.                                 *)
LEMMA NextBuilding ==
  ASSUME TypeOK, Names, Calling, Locking, OneProvider, Building, Next
  PROVE  Building'
<1> USE DEF Building, GoTo, shared
<1>1. ASSUME NEW t \in Threads, StartCache(t) PROVE Building'
  <2>1. /\ pc[t] = "lookup" /\ sidx[<< p[t], ReaderOf(t) >>] = Null
        /\ shapes' = [shapes EXCEPT ![NewCache(t)] = [d \in Docs |-> {}]]
        /\ te' = [te EXCEPT ![t] = 1] /\ idx' = [idx EXCEPT ![t] = NewCache(t)]
        /\ pc' = [pc EXCEPT ![t] = "next"]
        /\ UNCHANGED << call, p, sidx, scanCell >>
    BY <1>1 DEF StartCache
  <2>2. /\ NewCache(t)' = NewCache(t) /\ ReaderOf(t)' = ReaderOf(t)
        /\ FieldOf(t)' = FieldOf(t) /\ Postings(t)' = Postings(t)
    BY <2>1 DEF NewCache, ReaderOf, FieldOf, Postings
  <2>3. NewCache(t) \in Caches /\ \A u \in Threads \ {t} : NewCache(u) # NewCache(t)
    BY <2>1, InsideGetCache
  <2>4. pc'[t] = "next" /\ idx'[t] = NewCache(t) /\ te'[t] = 1
        /\ shapes'[NewCache(t)] = [d \in Docs |-> {}]
    BY <2>1, <2>3 DEF TypeOK
  <2>5. BuildingBy(t)'
    <3>1. \A d \in Docs : ShapesUpTo(1 - 1, ReaderOf(t), FieldOf(t), d) = {}
      BY DEF ShapesUpTo
    <3>2. Len(Postings(t).terms) \in Nat
      BY <2>1, PostingsFacts DEF Calling
    <3>3. te'[t] - 1 = 1 - 1 /\ te'[t] <= Len(Postings(t).terms) + 1
      BY <2>4, <3>2
    <3>4. \A d \in Docs :
            shapes'[NewCache(t)][d] = ShapesUpTo(te'[t] - 1, ReaderOf(t), FieldOf(t), d)
      BY <2>4, <3>1, <3>3
    <3> QED BY <2>1, <2>2, <2>4, <3>3, <3>4 DEF BuildingBy
  <2>6. ASSUME NEW u \in Threads \ {t}, pc'[u] \in {"next", "read"} PROVE BuildingBy(u)'
    <3>1. pc'[u] = pc[u] /\ te'[u] = te[u] /\ idx'[u] = idx[u]
          /\ shapes'[NewCache(u)] = shapes[NewCache(u)]
      BY <2>1, <2>3 DEF TypeOK
    <3>2. BuildingBy(u)
      BY <2>6, <3>1
    <3> QED BY <2>1, <2>6, <3>1, <3>2, BuildGoesOn DEF BuildingBy
  <2> QED BY <2>5, <2>6
<1>2. ASSUME NEW t \in Threads, ReadTerm(t) PROVE Building'
  <2>1. /\ pc[t] = "next" /\ te[t] <= Len(Postings(t).terms)
        /\ scanCell' = [scanCell EXCEPT ![p[t]] = Postings(t).terms[te[t]]]
        /\ pc' = [pc EXCEPT ![t] = "read"]
        /\ UNCHANGED << call, p, sidx, shapes, te, idx >>
    BY <1>2 DEF ReadTerm
  <2>2. \A u \in Threads \ {t} :
          pc[u] = "read" => p[u] # p[t] /\ scanCell'[p[u]] = scanCell[p[u]]
    BY <2>1, InsideGetCache
  <2>3. scanCell'[p[t]] = Postings(t).terms[te[t]]
    BY <2>1, InsideGetCache DEF TypeOK
  <2>4. \A u \in Threads : pc'[u] \in {"next", "read"} =>
          /\ BuildingBy(u)
          /\ pc'[u] = "read" => /\ te[u] <= Len(Postings(u).terms)
                                /\ scanCell'[p[u]] = Postings(u).terms[te[u]]
    BY <2>1, <2>2, <2>3 DEF TypeOK, BuildingBy
  <2> QED BY <2>1, <2>4, BuildGoesOn
<1>3. ASSUME NEW t \in Threads, AddShape(t) PROVE Building'
  <2>1. /\ pc[t] = "read" /\ BuildingBy(t)
        /\ pc' = [pc EXCEPT ![t] = "next"] /\ te' = [te EXCEPT ![t] = @ + 1]
        /\ UNCHANGED << call, p, sidx, scanCell, idx >>
    BY <1>3 DEF AddShape
  <2>2. /\ Len(Postings(t).terms) \in Nat /\ te[t] \in Nat \ {0}
        /\ te[t] <= Len(Postings(t).terms)
        /\ scanCell[p[t]] = Postings(t).terms[te[t]]
        /\ Postings(t) = Segments[<< ReaderOf(t), FieldOf(t) >>]
    BY <2>1, PostingsFacts DEF Calling, TypeOK, BuildingBy
  <2>3. NewCache(t) \in Caches /\ \A u \in Threads \ {t} : NewCache(u) # NewCache(t)
    BY <2>1, InsideGetCache
  <2>4. idx[t] = NewCache(t) /\ sidx[<< p[t], ReaderOf(t) >>] = Null
    BY <2>1 DEF BuildingBy
  <2>5. pc'[t] = "next" /\ te'[t] = te[t] + 1
    BY <2>1 DEF TypeOK
  <2> DEFINE grown == [d \in Docs |->
               IF d \in Postings(t).docs[te[t]]
               THEN shapes[NewCache(t)][d] \cup {CellOf(scanCell[p[t]])}
               ELSE shapes[NewCache(t)][d]]
  <2>6. shapes' = [shapes EXCEPT ![NewCache(t)] =
                     IF IsLeafTerm(scanCell[p[t]]) THEN grown ELSE shapes[NewCache(t)]]
    BY <1>3, <2>3, <2>4 DEF AddShape, TypeOK
  <2>7. shapes'[NewCache(t)] =
           (IF IsLeafTerm(scanCell[p[t]]) THEN grown ELSE shapes[NewCache(t)])
         /\ \A c \in Caches \ {NewCache(t)} : shapes'[c] = shapes[c]
    <3> HIDE DEF grown
    <3> QED BY <2>3, <2>6 DEF TypeOK
  <2>8. ASSUME NEW d \in Docs
        PROVE  shapes'[NewCache(t)][d] = ShapesUpTo(te[t], ReaderOf(t), FieldOf(t), d)
    <3>1. shapes'[NewCache(t)][d] =
            IF IsLeafTerm(scanCell[p[t]]) /\ d \in Postings(t).docs[te[t]]
            THEN shapes[NewCache(t)][d] \cup {CellOf(scanCell[p[t]])}
            ELSE shapes[NewCache(t)][d]
      BY <2>7
    <3>2. shapes[NewCache(t)][d] = ShapesUpTo(te[t] - 1, ReaderOf(t), FieldOf(t), d)
      BY <2>1 DEF BuildingBy
    <3>3. ShapesUpTo(te[t], ReaderOf(t), FieldOf(t), d) =
            IF IsLeafTerm(scanCell[p[t]]) /\ d \in Postings(t).docs[te[t]]
            THEN ShapesUpTo(te[t] - 1, ReaderOf(t), FieldOf(t), d) \cup {CellOf(scanCell[p[t]])}
            ELSE ShapesUpTo(te[t] - 1, ReaderOf(t), FieldOf(t), d)
      <4> DEFINE S == Segments[<< ReaderOf(t), FieldOf(t) >>]
      <4>1. te[t] \in Nat \ {0}
        BY <2>2
      <4>2. ShapesUpTo(te[t], ReaderOf(t), FieldOf(t), d) =
              IF IsLeafTerm(S.terms[te[t]]) /\ d \in S.docs[te[t]]
              THEN ShapesUpTo(te[t] - 1, ReaderOf(t), FieldOf(t), d) \cup {CellOf(S.terms[te[t]])}
              ELSE ShapesUpTo(te[t] - 1, ReaderOf(t), FieldOf(t), d)
        BY <4>1, ShapesOfNextTerm
      <4>3. S = Postings(t) /\ S.terms[te[t]] = scanCell[p[t]]
        BY <2>2
      <4> QED BY <4>2, <4>3, Zenon
    <3> QED BY <3>1, <3>2, <3>3
  <2>9. BuildingBy(t)'
    <3>1. /\ NewCache(t)' = NewCache(t) /\ ReaderOf(t)' = ReaderOf(t)
          /\ FieldOf(t)' = FieldOf(t) /\ Postings(t)' = Postings(t)
      BY <2>1 DEF NewCache, ReaderOf, FieldOf, Postings
    <3>2. (te[t] + 1) - 1 = te[t] /\ te[t] + 1 <= Len(Postings(t).terms) + 1
      BY <2>2
    <3>3. \A d \in Docs :
            shapes'[NewCache(t)][d] = ShapesUpTo(te'[t] - 1, ReaderOf(t), FieldOf(t), d)
      BY <2>5, <2>8, <3>2
    <3> QED BY <2>1, <2>4, <2>5, <3>1, <3>2, <3>3 DEF BuildingBy
  <2>10. ASSUME NEW u \in Threads \ {t}, pc'[u] \in {"next", "read"} PROVE BuildingBy(u)'
    <3>1. pc'[u] = pc[u] /\ te'[u] = te[u]
      BY <2>1 DEF TypeOK
    <3>2. shapes'[NewCache(u)] = shapes[NewCache(u)]
      BY <2>1, <2>3, <2>10, <2>7, <3>1, InsideGetCache
    <3>3. BuildingBy(u)
      BY <2>10, <3>1
    <3> QED BY <2>1, <2>10, <3>1, <3>2, <3>3, BuildGoesOn DEF BuildingBy
  <2> QED BY <2>9, <2>10
<1>4. ASSUME NEW t \in Threads, FailToRead(t) PROVE Building'
  <2>1. /\ pc[t] \in {"next", "read"} /\ idx[t] = NewCache(t)
        /\ pc' = [pc EXCEPT ![t] = "idle"]
        /\ shapes' = [shapes EXCEPT ![idx[t]] = [d \in Docs |-> {}]]
        /\ UNCHANGED << sidx, scanCell >>
    BY <1>4 DEF FailToRead, BuildingBy
  <2>2. \A u \in Threads \ {t} :
          call'[u] = call[u] /\ p'[u] = p[u] /\ te'[u] = te[u] /\ idx'[u] = idx[u]
    BY <1>4 DEF FailToRead, ForgetLocals, TypeOK
  <2>3. \A u \in Threads \ {t} : NewCache(u) # NewCache(t)
    BY <2>1, InsideGetCache
  <2>4. ASSUME NEW u \in Threads, pc'[u] \in {"next", "read"} PROVE BuildingBy(u)'
    <3>1. u # t /\ pc'[u] = pc[u]
      BY <2>1, <2>4 DEF TypeOK
    <3>2. shapes'[NewCache(u)] = shapes[NewCache(u)]
      BY <2>1, <2>3, <3>1 DEF TypeOK
    <3>3. BuildingBy(u)
      BY <2>4, <3>1
    <3> QED BY <2>1, <2>2, <2>4, <3>1, <3>2, <3>3, BuildGoesOn DEF BuildingBy
  <2> QED BY <2>4
<1>5. ASSUME NEW t \in Threads, PutCache(t) PROVE Building'
  <2>1. /\ pc[t] = "next" /\ pc' = [pc EXCEPT ![t] = "exit"]
        /\ sidx' = [sidx EXCEPT ![<< p[t], ReaderOf(t) >>] = idx[t]]
        /\ UNCHANGED << call, p, scanCell, shapes, te, idx >>
    BY <1>5 DEF PutCache
  <2>2. \A u \in Threads \ {t} : pc[u] \in {"next", "read"} => p[u] # p[t]
    BY <2>1, InsideGetCache
  <2>3. ASSUME NEW u \in Threads, pc'[u] \in {"next", "read"} PROVE BuildingBy(u)'
    <3>1. u # t /\ pc'[u] = pc[u]
      BY <2>1, <2>3 DEF TypeOK
    <3>2. sidx'[<< p[u], ReaderOf(u) >>] = sidx[<< p[u], ReaderOf(u) >>]
      BY <2>1, <2>2, <2>3, <3>1
    <3>3. BuildingBy(u)
      BY <2>3, <3>1
    <3> QED BY <2>1, <2>3, <3>1, <3>2, <3>3, BuildGoesOn DEF BuildingBy
  <2> QED BY <2>3
<1>6. ASSUME NEW t \in Threads, MakeValueSource(t) PROVE Building'
  <2>1. \A u \in Threads : pc'[u] \in {"next", "read"} =>
          pc[u] = pc'[u] /\ call'[u] = call[u]
    BY <1>6 DEF MakeValueSource, TypeOK
  <2>2. UNCHANGED << shared, p, idx, te >>
    BY <1>6 DEF MakeValueSource
  <2>3. \A u \in Threads : pc'[u] \in {"next", "read"} => BuildingBy(u)
    BY <2>1
  <2> QED BY <2>1, <2>2, <2>3, BuildGoesOn DEF BuildingBy
<1> USE DEF BuildingBy, Postings, NewCache, ReaderOf, FieldOf, TypeOK
<1>7. ASSUME NEW t \in Threads, GetProvider(t) PROVE Building'
  BY <1>7 DEF GetProvider
<1>8. ASSUME NEW t \in Threads, EnterStrategy(t) PROVE Building'
  BY <1>8 DEF EnterStrategy
<1>9. ASSUME NEW t \in Threads, RecheckProvider(t) PROVE Building'
  BY <1>9 DEF RecheckProvider
<1>10. ASSUME NEW t \in Threads, CreateProvider(t) PROVE Building'
  BY <1>10 DEF CreateProvider
<1>11. ASSUME NEW t \in Threads, LeaveStrategy(t) PROVE Building'
  BY <1>11 DEF LeaveStrategy
<1>12. ASSUME NEW t \in Threads, EnterProvider(t) PROVE Building'
  BY <1>12 DEF EnterProvider
<1>13. ASSUME NEW t \in Threads, FindCache(t) PROVE Building'
  BY <1>13 DEF FindCache
<1>14. ASSUME NEW t \in Threads, LeaveProvider(t) PROVE Building'
  BY <1>14 DEF LeaveProvider
<1>15. ASSUME NEW t \in Threads, DoubleVal(t) PROVE Building'
  BY <1>15 DEF DoubleVal, ForgetLocals
<1> QED BY <1>1, <1>2, <1>3, <1>4, <1>5, <1>6, <1>7, <1>8,
           <1>9, <1>10, <1>11, <1>12, <1>13, <1>14, <1>15 DEF Next, Search

(* A cache whose place is free is not to be found anywhere.                *)
LEMMA FreePlace ==
  ASSUME Names, NEW t \in Threads, sidx[<< p[t], ReaderOf(t) >>] = Null
  PROVE  \A s \in Providers \X Readers : sidx[s] # Null => sidx[s] # NewCache(t)
<1> SUFFICES ASSUME NEW s \in Providers \X Readers, sidx[s] # Null, sidx[s] = NewCache(t)
             PROVE  FALSE
  OBVIOUS
<1>1. PICK u \in Threads : sidx[s] = << s[1], s[2], u >>
  BY DEF Names
<1>2. s = << p[t], ReaderOf(t) >>
  BY <1>1 DEF NewCache
<1> QED BY <1>2

(* What the map of the providers and the maps of the caches have, they     *)
(* keep, and a cache in them stays as it is.                               *)
KeepsCaches ==
  /\ \A f \in FieldNames : provider[f] # Null => provider'[f] = provider[f]
  /\ \A s \in Providers \X Readers : sidx[s] # Null =>
       sidx'[s] = sidx[s] /\ shapes'[sidx[s]] = shapes[sidx[s]]

(* No step takes a cache away or changes it.                               *)
LEMMA NextKeepsCaches ==
  ASSUME TypeOK, Names, Calling, Locking, OneProvider, Building, Next
  PROVE  KeepsCaches
<1> USE DEF KeepsCaches, GoTo, shared
<1>1. ASSUME NEW t \in Threads, MakeValueSource(t) PROVE KeepsCaches
  BY <1>1 DEF MakeValueSource
<1>2. ASSUME NEW t \in Threads, GetProvider(t) PROVE KeepsCaches
  BY <1>2 DEF GetProvider
<1>3. ASSUME NEW t \in Threads, EnterStrategy(t) PROVE KeepsCaches
  BY <1>3 DEF EnterStrategy
<1>4. ASSUME NEW t \in Threads, RecheckProvider(t) PROVE KeepsCaches
  BY <1>4 DEF RecheckProvider
<1>5. ASSUME NEW t \in Threads, CreateProvider(t) PROVE KeepsCaches
  <2>1. pc[t] = "create" /\ FieldOf(t) \in FieldNames
    BY <1>5, PostingsFacts DEF CreateProvider, Calling
  <2>2. provider[FieldOf(t)] = Null
    BY <2>1 DEF Locking
  <2> QED BY <1>5, <2>2 DEF CreateProvider, TypeOK
<1>6. ASSUME NEW t \in Threads, LeaveStrategy(t) PROVE KeepsCaches
  BY <1>6 DEF LeaveStrategy
<1>7. ASSUME NEW t \in Threads, EnterProvider(t) PROVE KeepsCaches
  BY <1>7 DEF EnterProvider
<1>8. ASSUME NEW t \in Threads, FindCache(t) PROVE KeepsCaches
  BY <1>8 DEF FindCache
<1>9. ASSUME NEW t \in Threads, StartCache(t) PROVE KeepsCaches
  <2>1. \A s \in Providers \X Readers : sidx[s] # Null => sidx[s] # NewCache(t)
    BY <1>9, FreePlace DEF StartCache
  <2> QED BY <1>9, <2>1 DEF StartCache, TypeOK
<1>10. ASSUME NEW t \in Threads, ReadTerm(t) PROVE KeepsCaches
  BY <1>10 DEF ReadTerm
<1>11. ASSUME NEW t \in Threads, AddShape(t) PROVE KeepsCaches
  <2>1. BuildingBy(t)
    BY <1>11 DEF AddShape, Building
  <2>2. \A s \in Providers \X Readers : sidx[s] # Null => sidx[s] # idx[t]
    BY <2>1, FreePlace DEF BuildingBy
  <2>3. \A c \in Caches \ {idx[t]} : shapes'[c] = shapes[c]
    BY <1>11 DEF AddShape, TypeOK
  <2> QED BY <1>11, <2>2, <2>3 DEF AddShape, TypeOK
<1>12. ASSUME NEW t \in Threads, PutCache(t) PROVE KeepsCaches
  <2>1. sidx[<< p[t], ReaderOf(t) >>] = Null
    BY <1>12 DEF PutCache, Building, BuildingBy
  <2> QED BY <1>12, <2>1 DEF PutCache, TypeOK
<1>13. ASSUME NEW t \in Threads, FailToRead(t) PROVE KeepsCaches
  <2>1. BuildingBy(t)
    BY <1>13 DEF FailToRead, Building
  <2>2. \A s \in Providers \X Readers : sidx[s] # Null => sidx[s] # idx[t]
    BY <2>1, FreePlace DEF BuildingBy
  <2> QED BY <1>13, <2>2 DEF FailToRead, ForgetLocals, TypeOK
<1>14. ASSUME NEW t \in Threads, LeaveProvider(t) PROVE KeepsCaches
  BY <1>14 DEF LeaveProvider
<1>15. ASSUME NEW t \in Threads, DoubleVal(t) PROVE KeepsCaches
  BY <1>15 DEF DoubleVal, ForgetLocals
<1> QED BY <1>1, <1>2, <1>3, <1>4, <1>5, <1>6, <1>7, <1>8, <1>9,
           <1>10, <1>11, <1>12, <1>13, <1>14, <1>15 DEF Next, Search

(* A cache is complete when it is put.                                     *)
LEMMA PutWhenComplete ==
  ASSUME TypeOK, Calling, Building, NEW t \in Threads, PutCache(t)
  PROVE  /\ idx[t] = NewCache(t)
         /\ \A d \in Docs : shapes[idx[t]][d] = ShapesOf(ReaderOf(t), FieldOf(t), d)
<1>1. pc[t] = "next" /\ BuildingBy(t) /\ te[t] > Len(Postings(t).terms) /\ te[t] \in Nat \ {0}
  BY DEF PutCache, GoTo, Building, TypeOK
<1>2. Len(Postings(t).terms) \in Nat /\ Postings(t) = Segments[<< ReaderOf(t), FieldOf(t) >>]
  BY <1>1, PostingsFacts DEF Calling
<1>3. te[t] - 1 = Len(Segments[<< ReaderOf(t), FieldOf(t) >>].terms)
  BY <1>1, <1>2 DEF BuildingBy
<1> QED BY <1>1, <1>3 DEF BuildingBy, ShapesOf

LEMMA NextPutAreComplete ==
  ASSUME TypeOK, Names, Calling, Locking, OneProvider, Building, Finding, PutAreComplete, Next
  PROVE  PutAreComplete'
<1> SUFFICES ASSUME NEW f \in FieldNames, NEW r \in Readers, NEW d \in Docs,
                    provider'[f] # Null, sidx'[<< provider'[f], r >>] # Null
             PROVE  shapes'[sidx'[<< provider'[f], r >>]][d] = ShapesOf(r, f, d)
  BY DEF PutAreComplete
<1> DEFINE s == << provider'[f], r >>
<1>1. provider'[f] \in Providers /\ s \in Providers \X Readers
  <2>1. TypeOK'
    BY NextTypes, Zenon
  <2>2. provider'[f] \in Providers \cup {Null}
    BY <2>1 DEF TypeOK
  <2> QED BY <2>2
<1>2. CASE provider[f] # Null /\ sidx[s] # Null
  <2>1. provider'[f] = provider[f] /\ sidx'[s] = sidx[s] /\ shapes'[sidx[s]] = shapes[sidx[s]]
    BY <1>1, <1>2, NextKeepsCaches DEF KeepsCaches
  <2> QED BY <1>2, <2>1 DEF PutAreComplete
<1>3. CASE sidx[s] = Null
  <2>1. PICK t \in Threads : PutCache(t)
    BY <1>3 DEF Next, Search, MakeValueSource, GetProvider, EnterStrategy, RecheckProvider,
       CreateProvider, LeaveStrategy, EnterProvider, FindCache, StartCache, ReadTerm, AddShape,
       FailToRead, LeaveProvider, DoubleVal, shared
  <2>2. /\ pc[t] = "next" /\ provider' = provider /\ shapes' = shapes
        /\ sidx' = [sidx EXCEPT ![<< p[t], ReaderOf(t) >>] = idx[t]]
    BY <2>1 DEF PutCache, GoTo
  <2>3. s = << p[t], ReaderOf(t) >>
    BY <1>1, <1>3, <2>2 DEF TypeOK
  <2>4. sidx'[s] = idx[t] /\ r = ReaderOf(t) /\ provider[f] = p[t]
    BY <1>1, <2>2, <2>3 DEF TypeOK
  <2>5. f = FieldOf(t)
    BY <2>2, <2>4, InsideGetCache DEF Names
  <2> QED BY <2>1, <2>2, <2>4, <2>5, PutWhenComplete
<1>4. CASE provider[f] = Null /\ sidx[s] # Null
  <2>1. provider'[f][1] = f
    BY NextNames DEF Names
  <2>2. provider[provider'[f][1]] = provider'[f]
    BY <1>1, <1>4 DEF Names
  <2> QED BY <1>4, <2>1, <2>2
<1> QED BY <1>2, <1>3, <1>4

-----------------------------------------------------------------------------

LEMMA NextInv == IInv /\ [Next]_vars => IInv'
<1> SUFFICES ASSUME IInv, [Next]_vars PROVE IInv'
  OBVIOUS
<1>1. CASE Next
  <2>1. TypeOK' /\ Calling'
    BY <1>1, NextTypes DEF IInv
  <2>2. Locking' /\ OneProvider' /\ Names'
    BY <1>1, NextLocking, NextNames DEF IInv
  <2>3. Building' /\ Finding' /\ PutAreComplete'
    BY <1>1, NextBuilding, NextFinding, NextPutAreComplete DEF IInv
  <2> QED BY <2>1, <2>2, <2>3 DEF IInv
<1>2. CASE UNCHANGED vars
  <2>1. \A t : /\ ReaderOf(t)' = ReaderOf(t) /\ FieldOf(t)' = FieldOf(t)
               /\ NewCache(t)' = NewCache(t) /\ Postings(t)' = Postings(t)
    BY <1>2 DEF vars, shared, ReaderOf, FieldOf, NewCache, Postings
  <2>2. TypeOK' /\ Calling' /\ Names'
    BY <1>2 DEF vars, shared, IInv, TypeOK, Calling, Names
  <2>3. Locking' /\ OneProvider' /\ Finding' /\ PutAreComplete'
    BY <1>2, <2>1 DEF vars, shared, IInv, Locking, OneProvider, Finding, PutAreComplete
  <2>4. Building'
    BY <1>2, <2>1, BuildGoesOn DEF vars, shared, IInv, Building, BuildingBy
  <2> QED BY <2>2, <2>3, <2>4 DEF IInv
<1> QED BY <1>1, <1>2

LEMMA Invariant == Spec => []IInv
BY InitInv, NextInv, PTL DEF Spec

(* Whatever the threads do, the maps, locks, caches and calls are those of *)
(* the code's types.                                                       *)
THEOREM TypeCorrect == Spec => []TypeOK
<1>1. IInv => TypeOK
  BY DEF IInv
<1> QED BY <1>1, Invariant, PTL

(* The double checked locking of makeValueSource() gives every search on a *)
(* field the same provider.                                                *)
THEOREM ProvidersAreOne == Spec => []OneProvider
<1>1. IInv => OneProvider
  BY DEF IInv
<1> QED BY <1>1, Invariant, PTL

(* A cache that a search can find, or computes a distance from, has all    *)
(* shapes of the segment, whatever builds failed or ran beside it.         *)
THEOREM PutCachesAreComplete == Spec => []CachesAreComplete
<1>1. IInv => CachesAreComplete
  <2> SUFFICES ASSUME IInv, NEW t \in Threads, pc[t] = "double", NEW d \in Docs
               PROVE  shapes[idx[t]][d] = ShapesOf(ReaderOf(t), FieldOf(t), d)
    BY DEF IInv, PutAreComplete, CachesAreComplete
  <2>1. ReaderOf(t) \in Readers /\ FieldOf(t) \in FieldNames
    BY PostingsFacts DEF IInv, Calling
  <2>2. p[t] # Null /\ p[t] = provider[FieldOf(t)]
    BY DEF IInv, OneProvider
  <2>3. idx[t] # Null /\ idx[t] = sidx[<< p[t], ReaderOf(t) >>]
    BY DEF IInv, Finding
  <2> QED BY <2>1, <2>2, <2>3 DEF IInv, PutAreComplete
<1> QED BY <1>1, Invariant, PTL

(* A search that computes distances finds the centre of every shape among  *)
(* its cached shapes, and of a point nothing else: the cache has the cells *)
(* of the leaf terms, and a term of full length is one and is its cell.    *)
THEOREM CentersAreFound == Spec => []CentersAreCached
<1>1. ASSUME TypeOK, Calling, CachesAreComplete PROVE CentersAreCached
  <2> SUFFICES ASSUME NEW t \in Threads, pc[t] = "double", NEW d \in DOMAIN Centers[call[t]]
               PROVE  /\ Centers[call[t]][d].cell \in shapes[idx[t]][d]
                      /\ Centers[call[t]][d].isPoint => shapes[idx[t]][d] = {Centers[call[t]][d].cell}
    BY DEF CentersAreCached
  <2> DEFINE segment == Segments[call[t]]
             c == Centers[call[t]][d]
  <2>1. /\ call[t] \in Readers \X FieldNames /\ call[t] = << ReaderOf(t), FieldOf(t) >>
        /\ ReaderOf(t) \in Readers /\ FieldOf(t) \in FieldNames
    BY <1>1 DEF Calling, ReaderOf, FieldOf
  <2>2. d \in Docs /\ HoldsCenters(segment, Centers[call[t]])
    BY <2>1, CentersAssumption
  <2>3. shapes[idx[t]][d] = ShapesOf(ReaderOf(t), FieldOf(t), d)
    BY <1>1, <2>2 DEF CachesAreComplete
  <2>4. shapes[idx[t]][d] = { CellOf(segment.terms[i]) :
          i \in { j \in 1..Len(segment.terms) : IsLeafTerm(segment.terms[j]) /\ d \in segment.docs[j] } }
    BY <2>1, <2>3 DEF ShapesOf, ShapesUpTo
  <2>5. PICK i \in 1..Len(segment.terms) : segment.terms[i] = c.cell /\ d \in segment.docs[i]
    BY <2>2 DEF HoldsCenters
  <2>6. c.cell \in Cells /\ Len(c.cell) = MaxLevels
    BY <2>2 DEF HoldsCenters
  <2>7. ~IsMarked(c.cell)
    BY <2>6, ArityAssumption DEF Cells, IsMarked, LeafByte
  <2>8. IsLeafTerm(c.cell)
    BY <2>6 DEF IsLeafTerm
  <2>9. CellOf(c.cell) = c.cell
    BY <2>7 DEF CellOf
  <2> HIDE DEF segment, c
  <2>10. c.cell \in shapes[idx[t]][d]
    BY <2>4, <2>5, <2>8, <2>9
  <2>11. ASSUME c.isPoint PROVE shapes[idx[t]][d] = {c.cell}
    <3>1. \A j \in 1..Len(segment.terms) : IsLeafTerm(segment.terms[j]) /\ d \in segment.docs[j] =>
             CellOf(segment.terms[j]) = c.cell
      BY <2>2, <2>11 DEF HoldsCenters, c
    <3> QED BY <2>4, <2>10, <3>1
  <2> QED BY <2>10, <2>11 DEF c
<1>2. IInv => TypeOK /\ Calling
  BY DEF IInv
<1> QED BY <1>1, <1>2, Invariant, PutCachesAreComplete, PTL

(* A cache that was put stays, and stays as it is: doubleVal() may read it *)
(* without a lock.                                                         *)
THEOREM PutCachesAreKept == Spec => CachesAreKept
<1>1. IInv /\ [Next]_vars => [KeepsCaches]_vars
  BY NextKeepsCaches DEF IInv
<1>2. IInv /\ [Next]_vars => [ /\ \A f \in FieldNames : provider[f] # Null => provider'[f] = provider[f]
      /\ \A s \in Providers \X Readers : sidx[s] # Null =>
           sidx'[s] = sidx[s] /\ shapes'[sidx[s]] = shapes[sidx[s]] ]_vars
  BY <1>1 DEF KeepsCaches
<1> QED BY <1>2, Invariant, PTL DEF Spec, CachesAreKept

(* The readers and fields that have been read, as the contract has them.   *)
Cached == { s \in Readers \X FieldNames :
              /\ provider[s[2]] # Null
              /\ sidx[<< provider[s[2]], s[1] >>] # Null }

(* The contract speaks of the same distances.                              *)
LEMMA SameNearest == \A r, f, d : Contract!Nearest(r, f, d) = Nearest(r, f, d)
BY DEF Nearest, Contract!Nearest, ShapesOf, Contract!ShapesOf,
   ShapesUpTo, Contract!ShapesUpTo, CellOf, Contract!CellOf,
   IsLeafTerm, Contract!IsLeafTerm, IsMarked, Contract!IsMarked,
   LeafByte, Contract!LeafByte, Min, Contract!Min

LEMMA DoubleValAnswers ==
  ASSUME IInv, NEW t \in Threads, DoubleVal(t)
  PROVE  Contract!Next
<1>1. pc[t] = "double"
  BY DEF DoubleVal, GoTo
<1>2. ReaderOf(t) \in Readers /\ FieldOf(t) \in FieldNames
  BY <1>1, PostingsFacts DEF IInv, Calling
<1>3. p[t] # Null /\ p[t] = provider[FieldOf(t)]
  BY <1>1 DEF IInv, OneProvider
<1>4. idx[t] # Null /\ idx[t] = sidx[<< p[t], ReaderOf(t) >>]
  BY <1>1 DEF IInv, Finding
<1>5. << ReaderOf(t), FieldOf(t) >> \in Cached
  BY <1>2, <1>3, <1>4 DEF Cached
<1>6. PICK d \in Docs : answers' = [answers EXCEPT ![t] = << ReaderOf(t), FieldOf(t), d,
        IF shapes[idx[t]][d] = {} THEN NaN
        ELSE Min({ Distance[c] : c \in shapes[idx[t]][d] }) >>]
  BY DEF DoubleVal
<1>7. shapes[idx[t]][d] = ShapesOf(ReaderOf(t), FieldOf(t), d)
  BY <1>2, <1>3, <1>4 DEF IInv, PutAreComplete
<1>8. answers' = [answers EXCEPT ![t] =
        << ReaderOf(t), FieldOf(t), d, Nearest(ReaderOf(t), FieldOf(t), d) >>]
  BY <1>6, <1>7 DEF Nearest
<1>9. Cached' = Cached
  BY DEF DoubleVal, shared, Cached
<1>10. Contract!Answer(t, ReaderOf(t), FieldOf(t), d)
  BY <1>5, <1>8, <1>9, SameNearest DEF Contract!Answer, Cached
<1> QED BY <1>2, <1>10 DEF Contract!Next

LEMMA PutCacheReads ==
  ASSUME IInv, NEW t \in Threads, PutCache(t)
  PROVE  Contract!Next
<1>1. pc[t] = "next" /\ BuildingBy(t)
  BY DEF PutCache, GoTo, IInv, Building
<1>2. /\ ReaderOf(t) \in Readers /\ FieldOf(t) \in FieldNames
      /\ p[t] \in Providers /\ p[t] # Null /\ p[t] = provider[FieldOf(t)]
      /\ p[t][1] = FieldOf(t) /\ NewCache(t) # Null
  BY <1>1, InsideGetCache DEF IInv
<1>3. /\ provider' = provider /\ answers' = answers
      /\ sidx' = [sidx EXCEPT ![<< p[t], ReaderOf(t) >>] = NewCache(t)]
      /\ sidx[<< p[t], ReaderOf(t) >>] = Null
  BY <1>1 DEF PutCache, BuildingBy
<1>4. << ReaderOf(t), FieldOf(t) >> \notin Cached
  BY <1>2, <1>3 DEF Cached
<1>5. sidx'[<< p[t], ReaderOf(t) >>] = NewCache(t)
  BY <1>2, <1>3 DEF IInv, TypeOK
<1>6. ASSUME NEW r \in Readers, NEW f \in FieldNames
      PROVE  << r, f >> \in Cached' <=>
               << r, f >> \in Cached \/ << r, f >> = << ReaderOf(t), FieldOf(t) >>
  <2>1. CASE r = ReaderOf(t) /\ f = FieldOf(t)
    BY <1>2, <1>3, <1>5, <2>1 DEF Cached
  <2>2. CASE ~(r = ReaderOf(t) /\ f = FieldOf(t))
    <3>1. provider[f] # Null => << provider[f], r >> # << p[t], ReaderOf(t) >>
      BY <1>2, <2>2 DEF IInv, Names
    <3>2. provider[f] # Null => sidx'[<< provider[f], r >>] = sidx[<< provider[f], r >>]
      BY <1>3, <3>1 DEF IInv, TypeOK
    <3> QED BY <1>3, <2>2, <3>2 DEF Cached
  <2> QED BY <2>1, <2>2
<1>7. Cached' = Cached \cup {<< ReaderOf(t), FieldOf(t) >>}
  <2>1. Cached \subseteq Readers \X FieldNames /\ Cached' \subseteq Readers \X FieldNames
    BY DEF Cached
  <2>2. << ReaderOf(t), FieldOf(t) >> \in Readers \X FieldNames
    BY <1>2
  <2> QED BY <1>6, <2>1, <2>2
<1>8. Contract!Read(ReaderOf(t), FieldOf(t))
  BY <1>3, <1>4, <1>7 DEF Contract!Read, Cached
<1>9. \E r \in Readers, f \in FieldNames : Contract!Read(r, f)
  BY <1>2, <1>8 DEF Contract!Read
<1> QED BY <1>9 DEF Contract!Next

(* A new provider has no caches yet.                                       *)
LEMMA CreateProviderStutters ==
  ASSUME IInv, NEW t \in Threads, CreateProvider(t)
  PROVE  UNCHANGED << Cached, answers >>
<1>1. pc[t] = "create" /\ FieldOf(t) \in FieldNames /\ provider[FieldOf(t)] = Null
  BY PostingsFacts DEF CreateProvider, GoTo, IInv, Calling, Locking
<1>2. /\ provider' = [provider EXCEPT ![FieldOf(t)] = << FieldOf(t), t >>]
      /\ sidx' = sidx /\ answers' = answers
  BY DEF CreateProvider
<1>3. \A r \in Readers : sidx[<< << FieldOf(t), t >>, r >>] = Null
  <2>1. << FieldOf(t), t >> \in Providers /\ << FieldOf(t), t >>[1] = FieldOf(t)
    BY <1>1 DEF Providers
  <2>2. << FieldOf(t), t >> # Null
    BY <2>1, NullAssumption
  <2> QED BY <1>1, <2>1, <2>2 DEF IInv, Names
<1>4. ASSUME NEW s \in Readers \X FieldNames
      PROVE  (provider'[s[2]] # Null /\ sidx'[<< provider'[s[2]], s[1] >>] # Null) <=>
             (provider[s[2]] # Null /\ sidx[<< provider[s[2]], s[1] >>] # Null)
  BY <1>1, <1>2, <1>3 DEF IInv, TypeOK
<1> QED BY <1>2, <1>4 DEF Cached

LEMMA StepsOfTheContract == IInv /\ [Next]_vars => [Contract!Next]_<< Cached, answers >>
<1> SUFFICES ASSUME IInv, [Next]_vars, ~UNCHANGED << Cached, answers >>
             PROVE  Contract!Next
  OBVIOUS
<1>1. ASSUME NEW t \in Threads, MakeValueSource(t) PROVE Contract!Next
  <2>1. Cached' = Cached /\ answers' = [answers EXCEPT ![t] = NoAnswer]
    BY <1>1 DEF MakeValueSource, shared, Cached
  <2>2. Contract!Ask(t)
    BY <2>1 DEF Contract!Ask, Contract!NoAnswer, NoAnswer, Cached
  <2> QED BY <2>2 DEF Contract!Next
<1>2. PICK t \in Threads : MakeValueSource(t) \/ CreateProvider(t) \/ PutCache(t) \/ DoubleVal(t)
  BY DEF Next, Search, GetProvider, EnterStrategy, RecheckProvider, LeaveStrategy, EnterProvider,
     FindCache, StartCache, ReadTerm, AddShape, FailToRead, LeaveProvider, shared, vars, Cached
<1> QED BY <1>1, <1>2, CreateProviderStutters, PutCacheReads, DoubleValAnswers

(* The threads, caches and locks give every search the distance of the     *)
(* nearest shape, and read a segment once for each field.                  *)
THEOREM Refinement == Spec => ImplementsDistanceSources
<1>1. Init => Contract!Init
  BY DEF Init, Contract!Init, NoAnswer, Contract!NoAnswer
<1>2. IInv /\ [Next]_vars => [Contract!Next]_(Contract!vars)
  BY StepsOfTheContract DEF Contract!vars, Cached
<1> QED BY <1>1, <1>2, Invariant, PTL DEF Spec, ImplementsDistanceSources, Contract!Spec
=============================================================================
