----------------------------- MODULE ShapeCaches -----------------------------
(***************************************************************************)
(* The shapes that PrefixTreeStrategy keeps in memory for distances.       *)
(* Search threads call makeValueSource() for a field, which finds or makes *)
(* the field's PointPrefixTreeFieldCacheProvider, then getValues() for the *)
(* reader of a segment, which finds or builds the reader's ShapeFieldCache,*)
(* and at last doubleVal() for a document.                                 *)
(*                                                                         *)
(* A provider is named by its field and the thread that made it, a cache   *)
(* by its provider, its reader and the thread that built it; a cache that  *)
(* a failed build leaves behind is reachable from nowhere, and its name is *)
(* used again.  A list of shapes is the set of their cells.  Readers stay  *)
(* in use, so that no entry leaves the WeakHashMap sidx.                   *)
(***************************************************************************)
EXTENDS IndexedShapes

CONSTANTS
  Null,
  MaxCalls      \* bound: how many distances are asked for

Providers == FieldNames \X Threads
Caches    == Providers \X Readers \X Threads

ASSUME NullAssumption ==
  Null \notin Threads /\ Null \notin Providers /\ Null \notin Caches
  /\ Null \notin Readers \X FieldNames

VARIABLES
  provider,     \* PrefixTreeStrategy.provider: of each field, or Null
  monitor,      \* the thread that is synchronized on the strategy, or Null
  sidx,         \* ShapeFieldCacheProvider.sidx: of each provider and reader
  owner,        \* the thread that is synchronized on the provider, or Null
  scanCell,     \* PointPrefixTreeFieldCacheProvider.scanCell: its term
  shapes,       \* ShapeFieldCache.cache: of each document
  pc,           \* where each thread is
  call,         \* << reader, field >> of its call, or Null
  p,            \* the provider it has found
  idx,          \* the cache it builds or has found
  te,           \* TermsEnum: the position of the next term
  calls,        \* the calls made by all threads
  answers       \* << reader, field, doc, distance >> of its call's doubleVal()

shared == << provider, monitor, sidx, owner, scanCell, shapes >>
vars   == << shared, pc, call, p, idx, te, calls, answers >>

NoAnswer == << >>

Contract == INSTANCE DistanceSources
  WITH cached <- { s \in Readers \X FieldNames :
                     /\ provider[s[2]] # Null
                     /\ sidx[<< provider[s[2]], s[1] >>] # Null }

Init ==
  /\ provider = [f \in FieldNames |-> Null]
  /\ monitor = Null
  /\ sidx = [s \in Providers \X Readers |-> Null]
  /\ owner = [o \in Providers |-> Null]
  /\ scanCell = [o \in Providers |-> WorldCell]
  /\ shapes = [c \in Caches |-> [d \in Docs |-> {}]]
  /\ pc = [t \in Threads |-> "idle"]
  /\ call = [t \in Threads |-> Null]
  /\ p = [t \in Threads |-> Null]
  /\ idx = [t \in Threads |-> Null]
  /\ te = [t \in Threads |-> 1]
  /\ calls = 0
  /\ answers = [t \in Threads |-> NoAnswer]

ReaderOf(t) == call[t][1]
FieldOf(t)  == call[t][2]

(* The postings that the thread's TermsEnum goes through.                  *)
Postings(t) == Segments[call[t]]

GoTo(t, from, to) == pc[t] = from /\ pc' = [pc EXCEPT ![t] = to]

(* A search on a field begins, and comes to a segment.                     *)
MakeValueSource(t) ==
  /\ GoTo(t, "idle", "get")
  /\ calls < MaxCalls
  /\ calls' = calls + 1
  /\ \E s \in Readers \X FieldNames : call' = [call EXCEPT ![t] = s]
  /\ answers' = [answers EXCEPT ![t] = NoAnswer]
  /\ UNCHANGED << shared, p, idx, te >>

(* The local variables of a call that has ended.                           *)
ForgetLocals(t) ==
  /\ call' = [call EXCEPT ![t] = Null]
  /\ p' = [p EXCEPT ![t] = Null]
  /\ idx' = [idx EXCEPT ![t] = Null]
  /\ te' = [te EXCEPT ![t] = 1]

(* makeValueSource(): the look-up without the lock.                        *)
GetProvider(t) ==
  /\ GoTo(t, "get", IF provider[FieldOf(t)] = Null THEN "synchronize" ELSE "values")
  /\ p' = [p EXCEPT ![t] = provider[FieldOf(t)]]
  /\ UNCHANGED << shared, call, idx, te, calls, answers >>

EnterStrategy(t) ==
  /\ GoTo(t, "synchronize", "recheck")
  /\ monitor = Null
  /\ monitor' = t
  /\ UNCHANGED << provider, sidx, owner, scanCell, shapes, call, p, idx, te, calls, answers >>

(* Mutant of RecheckProvider: the lock is taken, but nothing looked up.    *)
RecheckNothing(t) ==
  /\ GoTo(t, "recheck", "create")
  /\ UNCHANGED << shared, call, p, idx, te, calls, answers >>

(* The second look-up, with the lock.                                      *)
RecheckProvider(t) ==
  /\ GoTo(t, "recheck", IF provider[FieldOf(t)] = Null THEN "create" ELSE "leave")
  /\ p' = [p EXCEPT ![t] = provider[FieldOf(t)]]
  /\ UNCHANGED << shared, call, idx, te, calls, answers >>

CreateProvider(t) ==
  /\ GoTo(t, "create", "leave")
  /\ provider' = [provider EXCEPT ![FieldOf(t)] = << FieldOf(t), t >>]
  /\ p' = [p EXCEPT ![t] = << FieldOf(t), t >>]
  /\ UNCHANGED << monitor, sidx, owner, scanCell, shapes, call, idx, te, calls, answers >>

LeaveStrategy(t) ==
  /\ GoTo(t, "leave", "values")
  /\ monitor' = Null
  /\ UNCHANGED << provider, sidx, owner, scanCell, shapes, call, p, idx, te, calls, answers >>

(* Mutant of EnterProvider: getCache() is not synchronized.                *)
EnterProviderFreely(t) ==
  /\ GoTo(t, "values", "lookup")
  /\ owner' = [owner EXCEPT ![p[t]] = t]
  /\ UNCHANGED << provider, monitor, sidx, scanCell, shapes, call, p, idx, te, calls, answers >>

(* getValues() calls getCache(), which is synchronized.                    *)
EnterProvider(t) ==
  /\ GoTo(t, "values", "lookup")
  /\ owner[p[t]] = Null
  /\ owner' = [owner EXCEPT ![p[t]] = t]
  /\ UNCHANGED << provider, monitor, sidx, scanCell, shapes, call, p, idx, te, calls, answers >>

FindCache(t) ==
  /\ GoTo(t, "lookup", "exit")
  /\ sidx[<< p[t], ReaderOf(t) >>] # Null
  /\ idx' = [idx EXCEPT ![t] = sidx[<< p[t], ReaderOf(t) >>]]
  /\ UNCHANGED << shared, call, p, te, calls, answers >>

NewCache(t) == << p[t], ReaderOf(t), t >>

(* Mutant of StartCache: the cache is put before it is built.              *)
StartAndPutCache(t) ==
  /\ GoTo(t, "lookup", "next")
  /\ sidx[<< p[t], ReaderOf(t) >>] = Null
  /\ sidx' = [sidx EXCEPT ![<< p[t], ReaderOf(t) >>] = NewCache(t)]
  /\ idx' = [idx EXCEPT ![t] = NewCache(t)]
  /\ shapes' = [shapes EXCEPT ![NewCache(t)] = [d \in Docs |-> {}]]
  /\ te' = [te EXCEPT ![t] = 1]
  /\ UNCHANGED << provider, monitor, owner, scanCell, call, p, calls, answers >>

StartCache(t) ==
  /\ GoTo(t, "lookup", "next")
  /\ sidx[<< p[t], ReaderOf(t) >>] = Null
  /\ idx' = [idx EXCEPT ![t] = NewCache(t)]
  /\ shapes' = [shapes EXCEPT ![NewCache(t)] = [d \in Docs |-> {}]]
  /\ te' = [te EXCEPT ![t] = 1]
  /\ UNCHANGED << provider, monitor, sidx, owner, scanCell, call, p, calls, answers >>

(* readShape(): the one node of the provider is set to the term, ...       *)
ReadTerm(t) ==
  /\ GoTo(t, "next", "read")
  /\ te[t] <= Len(Postings(t).terms)
  /\ scanCell' = [scanCell EXCEPT ![p[t]] = Postings(t).terms[te[t]]]
  /\ UNCHANGED << provider, monitor, sidx, owner, shapes, call, p, idx, te, calls, answers >>

(* Mutant of AddShape: a cell of full length must have the leaf byte too.  *)
AddMarkedShape(t) ==
  /\ GoTo(t, "read", "next")
  /\ IF IsMarked(scanCell[p[t]])
     THEN shapes' = [shapes EXCEPT ![idx[t]] =
            [d \in Docs |-> IF d \in Postings(t).docs[te[t]]
                            THEN @[d] \cup {CellOf(scanCell[p[t]])} ELSE @[d]]]
     ELSE UNCHANGED shapes
  /\ te' = [te EXCEPT ![t] = @ + 1]
  /\ UNCHANGED << provider, monitor, sidx, owner, scanCell, call, p, idx, calls, answers >>

(* ... and if it is a leaf then its shape is added to the documents of the *)
(* term, the deleted ones included.                                        *)
AddShape(t) ==
  /\ GoTo(t, "read", "next")
  /\ IF IsLeafTerm(scanCell[p[t]])
     THEN shapes' = [shapes EXCEPT ![idx[t]] =
            [d \in Docs |-> IF d \in Postings(t).docs[te[t]]
                            THEN @[d] \cup {CellOf(scanCell[p[t]])} ELSE @[d]]]
     ELSE UNCHANGED shapes
  /\ te' = [te EXCEPT ![t] = @ + 1]
  /\ UNCHANGED << provider, monitor, sidx, owner, scanCell, call, p, idx, calls, answers >>

PutCache(t) ==
  /\ GoTo(t, "next", "exit")
  /\ te[t] > Len(Postings(t).terms)
  /\ sidx' = [sidx EXCEPT ![<< p[t], ReaderOf(t) >>] = idx[t]]
  /\ UNCHANGED << provider, monitor, owner, scanCell, shapes, call, p, idx, te, calls, answers >>

(* Mutant of FailToRead: the exception leaves the provider locked.         *)
FailLocked(t) ==
  /\ GoTo(t, "next", "idle")
  /\ ForgetLocals(t)
  /\ UNCHANGED << shared, calls, answers >>

(* The segment cannot be read: the IOException ends the search, leaves the *)
(* synchronized method and the cache to the garbage collector.             *)
FailToRead(t) ==
  /\ GoTo(t, "next", "idle") \/ GoTo(t, "read", "idle")
  /\ owner' = [owner EXCEPT ![p[t]] = Null]
  /\ shapes' = [shapes EXCEPT ![idx[t]] = [d \in Docs |-> {}]]
  /\ ForgetLocals(t)
  /\ UNCHANGED << provider, monitor, sidx, scanCell, calls, answers >>

LeaveProvider(t) ==
  /\ GoTo(t, "exit", "double")
  /\ owner' = [owner EXCEPT ![p[t]] = Null]
  /\ UNCHANGED << provider, monitor, sidx, scanCell, shapes, call, p, idx, te, calls, answers >>

(* Mutant of DoubleVal: the distance of any of the shapes.                 *)
DoubleValOfAny(t) ==
  /\ GoTo(t, "double", "idle")
  /\ \E d \in Docs :
       LET found == shapes[idx[t]][d]
       IN  answers' = [answers EXCEPT ![t] = << ReaderOf(t), FieldOf(t), d,
             IF found = {} THEN NaN ELSE Distance[CHOOSE c \in found : TRUE] >>]
  /\ ForgetLocals(t)
  /\ UNCHANGED << shared, calls >>

(* doubleVal(), which holds no lock: the least distance, NaN without any.  *)
DoubleVal(t) ==
  /\ GoTo(t, "double", "idle")
  /\ \E d \in Docs :
       LET found == shapes[idx[t]][d]
       IN  answers' = [answers EXCEPT ![t] = << ReaderOf(t), FieldOf(t), d,
             IF found = {} THEN NaN ELSE Min({ Distance[c] : c \in found }) >>]
  /\ ForgetLocals(t)
  /\ UNCHANGED << shared, calls >>

(* The steps of a search once it has begun, unless the segment is broken.  *)
Search(t) ==
  \/ GetProvider(t) \/ EnterStrategy(t) \/ RecheckProvider(t)
  \/ CreateProvider(t) \/ LeaveStrategy(t)
  \/ EnterProvider(t) \/ FindCache(t) \/ StartCache(t)
  \/ ReadTerm(t) \/ AddShape(t) \/ PutCache(t) \/ LeaveProvider(t)
  \/ DoubleVal(t)

Next == \E t \in Threads : MakeValueSource(t) \/ FailToRead(t) \/ Search(t)

(* A thread that can go on does.  Monitors are not fair, but the threads   *)
(* in front of one are finitely many and so are their calls.               *)
Spec == Init /\ [][Next]_vars /\ \A t \in Threads : WF_vars(Search(t))

-----------------------------------------------------------------------------

Places == { "idle", "get", "synchronize", "recheck", "create", "leave",
            "values", "lookup", "next", "read", "exit", "double" }

TypeOK ==
  /\ provider \in [FieldNames -> Providers \cup {Null}]
  /\ monitor \in Threads \cup {Null}
  /\ sidx \in [Providers \X Readers -> Caches \cup {Null}]
  /\ owner \in [Providers -> Threads \cup {Null}]
  /\ DOMAIN scanCell = Providers
  /\ shapes \in [Caches -> [Docs -> SUBSET Cells]]
  /\ pc \in [Threads -> Places]
  /\ call \in [Threads -> (Readers \X FieldNames) \cup {Null}]
  /\ p \in [Threads -> Providers \cup {Null}]
  /\ idx \in [Threads -> Caches \cup {Null}]
  /\ te \in [Threads -> Nat \ {0}]
  /\ calls \in Nat
  /\ DOMAIN answers = Threads

(* "double checked locking idiom is okay since provider is threadsafe"     *)
(* (PrefixTreeStrategy.java:159): a thread that has left the locked block, *)
(* or never entered it, holds the one provider of its field.               *)
OneProvider ==
  \A t \in Threads :
    pc[t] \in {"values", "lookup", "next", "read", "exit", "double"} =>
      p[t] # Null /\ p[t] = provider[FieldOf(t)]

(* A cache that can be found, or that a thread takes distances from        *)
(* without a lock, has every shape of every document and no other, even    *)
(* though all builds of a provider share one node and builds can fail.     *)
CachesAreComplete ==
  /\ \A f \in FieldNames, r \in Readers :
       provider[f] # Null /\ sidx[<< provider[f], r >>] # Null =>
         \A d \in Docs : shapes[sidx[<< provider[f], r >>]][d] = ShapesOf(r, f, d)
  /\ \A t \in Threads : pc[t] = "double" =>
       \A d \in Docs : shapes[idx[t]][d] = ShapesOf(ReaderOf(t), FieldOf(t), d)

(* A cache that was put stays the reader's, and never changes: readers of  *)
(* the segment share it and need no lock.                                  *)
CachesAreKept ==
  [][ /\ \A f \in FieldNames : provider[f] # Null => provider'[f] = provider[f]
      /\ \A s \in Providers \X Readers : sidx[s] # Null =>
           sidx'[s] = sidx[s] /\ shapes'[sidx[s]] = shapes[sidx[s]] ]_vars

(* The threads, caches and locks implement the contract.                   *)
ImplementsDistanceSources == Contract!Spec

(* A search that has begun ends, with a distance or an exception; no       *)
(* thread waits for ever at a monitor.                                     *)
SearchesEnd == \A t \in Threads : pc[t] # "idle" ~> pc[t] = "idle"
=============================================================================
