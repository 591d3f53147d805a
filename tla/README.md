# A verification project for lucene-spatial-playground

TLA+ modules that model the spatial index and search of this repository, TLC
configurations that check them on small instances, and proofs, checked by TLAPS,
of what holds for every instance.

`SL` below is `src/spatial-lucene/src/main/java/org/apache/lucene/spatial`.

## 1. The system

The repository adds geospatial indexing and search to Lucene. A *strategy* turns
a shape into the terms of a field, and a query shape into a filter over these
terms. The *prefix tree* strategies cover a shape with the cells of a
hierarchical grid; a cell's name is the path to it, so that the cells within a
cell share its name as a prefix, and are neighbours in the sorted term index.

| Component | State | Operations | Interacts with |
|---|---|---|---|
| Cells and terms (`base/prefix/Node`) | token, leaf mark, cached shape | `reset`, `setLeaf`, `b_fixLeaf`, order | the index (terms), every user of the grid |
| Grid (`SpatialPrefixTree`, `QuadPrefixTree`) | `maxLevels`, sizes of levels, the lazily made world cell | `getNodes`, `getNode`, `getSubCells`, `getMaxLevelForPrecision` | shapes; all threads share the grid and its world cell |
| Geohash grid (`GeohashPrefixTree`, `GeohashUtils`, `SpatialPrefixTreeFactory`) | look-up tables | encode, decode, level for an error | grid, the Solr field types |
| Field creation (`PrefixTreeStrategy`) | the token stream: nodes left, the leaf token due; map of cache providers | `createField`, `incrementToken`, `makeValueSource` | grid; Lucene's indexing threads |
| Recursive filter (`RecursivePrefixTreeFilter`) | stack of cells, cursor over the terms, collected bits | `getDocIdSet` | grid, query shape, the term index of a segment, deleted documents |
| Term-query strategy (`TermQueryPrefixTreeStrategy`) | none | `makeQuery` | grid |
| Shapes (`base/shape`, `base/context`) | coordinates | `relate`, `getCenter`, `transpose`, `combine`, `makeRect` | everything |
| Circles and distances (`base/distance`, `*CircleImpl`) | centre, radius, enclosing boxes | `relate`, distance formulas | shapes |
| Caches and value sources (`strategy/util`) | a shape cache per segment, a value cache per query | `getCache`, `getValues` | the index; all search threads |
| Vector strategy (`strategy/vector`, `ValueSourceFilter`) | none | `createFields`, `makeQuery`, `makeFilter`, `match` | circles, Lucene numeric ranges and field cache |
| Arguments (`base/query`) | registry of operations | `parse`, `getShape` | contexts |
| Loader and search page (demo) | `running`, `count`, `history`; timers of a page | `loadSampleData`, `onClick`, `onTimer`, rendering | Solr server with a queue, thread pool, browsers |
| Readers, benchmark, Solr types, JTS shapes, servlets | input position, configuration | see `PROJECT.json` | Lucene, Solr, JTS, Wicket |

`PROJECT.json` lists every component with its sources and what is modelled of it.

**What is hard here.** The filter mixes two searches, a descent and a scan, that
share one cursor which cannot be allowed to pass a term of a cell that is still
on the stack; it takes the term after a cell for the cell's leaf marker, judging
by its form; and it relies on an invariant of the index that another class
establishes. One mutable cell, the world cell, is shared by all threads without
a lock and can be marked as a leaf for good. Relations between rectangles have to
be right across the date line. Caches use double-checked locking and
unsynchronised maps; the demo's loader publishes its progress through plain
fields that two loads may share. The geohash grid halves intervals bit by bit and
keeps tables of the same sizes beside; circles ask four questions in an order that
matters. The list of hazards, each at its line, is in `PROJECT.json`.

**What makes the parts correct.**
- Grid and field: a field has exactly the cells its shape touches, whichever
  threads run; terms come out sorted, each parent before its children, each leaf
  with its marker.
- Filter: no document with a matching leaf is missed, none is returned whose
  cells do not touch the query, deleted documents never are, the choice between
  descent and scan has no influence, the search ends.
- Shapes: `relate` agrees with the sets of points that the shapes are, and with
  its own transpose; a collection relates as its members do together.
- Caches: one cache per segment, complete when it is first seen; a value source
  equals another only if it gives the same values.
- Vector strategy: what is found lies in the query shape; what is lost is known.
- Geohash grid: decoding takes back encoding; the level for a distance has cells of
  that size.
- Loader: a load that ends has lost no line but those whose own request to Solr
  failed, the flag and the counts tell of a load that runs alone, and the page learns
  when it has ended.

## 2. The modules

| Module | Models | Correspondence |
|---|---|---|
| `Tokens` | `Node` tokens, the leaf byte, the order of terms | a cell is the sequence of choices from the world down; `Marked` appends the leaf byte; `CellOf`, `Level`, `IsLeafTerm` are `b_fixLeaf()`; `Less` is the byte order |
| `Shapes` | points, rectangles, `SpatialRelation`, `SimpleSpatialContext.makeRect` | `RelateRange` is `relate_yRange`, `RelateXRange` is `relate_xRange` with its rotations |
| `QuadTree` | `QuadPrefixTree`, `SpatialPrefixTree.getNodes` and `createField`'s list of cells | pure operators; `DetailLevels` are the levels that an error fraction in 0..0.5 can give |
| `PrefixTreeStrategy` | threads in `createField()` and `incrementToken()`, and the world cell | one action per step between two accesses of the shared `worldNode` or leaf mark |
| `SpatialFilter` | what a filter promises, without its algorithm | the abstract specification |
| `RecursivePrefixTreeFilter` | `getDocIdSet()` | one action per outcome of the loop over the stack, and one per term scanned |
| `PrefixTreeSearch` | the index that fields give, the query that a shape gives | connects `QuadTree` with the filter |
| `TermQueryPrefixTreeStrategy` | `makeQuery()` of that strategy, beside the filter on the same index and query | `QueryCells` is the `getNodes()` call, `DocsOfTerms` what the `BooleanQuery` of its clauses finds |
| `MultiShape` | the bounding box, the loop of `MultiShape.relate()`, `combine()` | `RelateMember` is one round of the loop |
| `Circles` | `CircleImpl` with `CartesianDistCalc` | one operator per question of `relate()`; a distance is its square, `Measure` what it is compared with, for the plain and the "cartesian^2" calculator |
| `CircleRelations` | no more code | `CirclesRelateAsPointSets`, stated of `TwoDoubles`: what the circle of a query answers rectangles and other circles, beside the sets of points |
| `TwoDoubles` | `TwoDoublesStrategy.makeFilter()`, `makeQuery()`, `DistanceValueSource`, `ValueSourceFilter` | one action per outcome of making the filter, then `Match` per document |
| `GeohashPrefixTree` | `GeohashUtils`, the levels that `SpatialPrefixTreeFactory` gives a geohash tree, `getNode(Point, level)` | `EncodeBit` is one round of the loop of `encodeLatLon()`; decoding and the tables are operators |
| `SampleDataLoader` | the loads of the demo by threads of a pool, and the page that starts and polls them | one action per step between two accesses of `running`, `count`, `history`; `Send` is a runner of the Solr server's queue, whose request may fail; a request of a page reads `running` for the link, then for the status, then lists the history |
| `IndexedShapes` | the terms and postings of each segment and field, and the shapes they stand for | `ShapesUpTo` is what the loop of `getCache()` has seen |
| `DistanceSources` | what a strategy's value sources promise, without caches and locks | the abstract specification |
| `ShapeCaches` | threads in `makeValueSource()`, `getCache()`, `doubleVal()` | one action per step between two accesses of shared state, monitors as variables that hold their thread; `MakeValueSource` asks for one segment and `DoubleVal` for one document of it |
| `CachedCenters` | no more code | `ShapeCaches` on segments that hold the centres that `createField()` adds, and `CentersAreCached` |
| `FieldSearch` | the filter and the term query on the indexes that `createField()` makes and the queries that `makeFilter()` makes | no steps of its own: it says which `Indexes` and `Queries` the filter is given, and what of its result can be told from the shapes |
| `TokensAndShapes_proofs`, `MultiShape_proofs`, `PrefixTreeStrategy_proofs`, `RecursivePrefixTreeFilter_proofs`, `FieldSearch_proofs`, `ShapeCaches_proofs`, `TwoDoubles_proofs`, `SampleDataLoader_proofs` | | the proofs of section 5 |

`RecursivePrefixTreeFilter` does not know the grid: its query is three sets of
cells (those that `getSubCells(queryShape)` keeps, those within the query, those
that the test of the scan accepts). `PrefixTreeSearch.QueryOf` computes them with
`QuadTree` from a shape, and `IndexOf` the index from fields. `FieldSearch` is the
composition: the proofs about the filter cover every grid, and those about
`FieldSearch` discharge for the quad tree what they assume. The variables and the
specification of `PrefixTreeStrategy` have names of their own (`FieldSpec`, `stage`,
...), so that one module can hold its theorems and those of the filter.

Abstractions: coordinates are integers on a small globe whose smallest cells have
integer centres (the code adds, subtracts, compares and halves doubles, which is
exact on such a grid); a document has one field; a segment is its sorted terms
with their postings. `seekCeil`, `next`, `term` and `docs` of Lucene's
`TermsEnum` are modelled from their use; `term()` after the end is undefined, and
the model allows null as well as the last term. The geohash alphabet is 0..31, in
the order of its characters; the tree has at most four levels on a world of 4096
by 2048, so that the middle of every cell is an integer. A document of the vector
strategy is the set of shapes it was given; a numeric range asks all its values,
the field cache keeps the greatest of each field.

The loader: a load is one click; its files are sequences of ids. What Solr answers
to a line cannot be seen by the loader, which is told of nothing after the line
went into the queue: a runner whose request is refused or breaks off logs that and
goes on, and the line is gone (`lost`, kept for the properties only). The history
counts it as loaded all the same; it is kept as the set of its lines, of which no two
are of the same file of the same load. One page is enough: a page that was opened while a load runs
has no timer and can only render, and the timers of a second click already poll
beside those of the first. The list of loads that `overlapped` is kept for the
properties only.

## 3. What the runs check

| Run | Shows |
|---|---|
| `filter` | on every index of at most two out of the fields of seven shapes, and for every query of seven shapes, at every detail level, with a late scan, with an early one, and with an early one and a deleted document: the stack stays sorted and its cells apart (`StackSorted`); line 118's assertion holds (`NextTermAssertion`); all required documents are found (`Complete`, `NoDocumentLost`); when the query ends above the smallest cells, they are those that have a cell of the coarser grid in common with it (`FindsByCommonCells`); below the last level the result does not depend on the scan (`ExactBelowMaxLevels`); with an early scan nothing else is returned (`SoundWhenScanIsEarly`); the filter implements `SpatialFilter`; it returns (`Terminates`); and the term query of the other strategy finds only touching documents, and all that the filter finds but those with a leaf above the query's cells, at the query's edge or mistaken for a leaf (`TermQueryLosesOnlyCoarserDocs`) |
| `filter_first_full_term` | finding: a full-length term is taken for a leaf marker |
| `filter_cursor` | on a grid of four levels, for the fields of four rectangles with those of four finer shapes, and three query shapes, at each of their detail levels, with an early and a late scan: the cursor goes back by at most one full-length term (`SeekBackAtMostOne`); that it does go back there is what `filter_forward` shows |
| `filter_forward` | finding: the cursor does not always advance |
| `indexing` | two threads with every pair of 11 shapes, at the detail levels of their error fractions, on three levels: each field has exactly its cells, or the grid's world cell was a leaf and it has its centre only (`ExactOrCentreOnly`); its tokens are in order, a leaf's after its cell's and the centre last (`TokensSorted`), and such as the filter assumes of the index (`SearchableFields`); every field ends (`FieldsFinish`) |
| `indexing_world_leaf` | finding: the shared world cell becomes a leaf |
| `multishape` | all rectangles and points on the even coordinates of a globe of 8 by 4, each against collections of two: relations are those of the sets of points, across the date line too; transposition; centres; the loop of `MultiShape`; its bounding box holds the members, each edge is that of one of them, and only the box of members that lie all west of Greenwich, or all south of the equator, reaches to 0 (`BoxHoldsMembers`) |
| `shape_caches` | two threads, a field of points and one of areas, two segments; a build may fail at any term: one provider per field (`OneProvider`); every cache that can be seen is complete (`CachesAreComplete`) and is never replaced or changed (`CachesAreKept`); the centre that `createField` adds for the caches is found in them (`CentersAreCached`); the distances are those of `DistanceSources`; every search ends (`SearchesEnd`) |
| `vector` | 14 query shapes with their calculators, all operations, every two of nine contents of a document: a found document of one point lies in the query shape, none is found without a field (`FoundDocsMatch`); a rectangle loses nothing, a circle only what lies at its centre or on its rim or has several points, `IsDisjointTo` everything (`LostDocs`); the relations of circles are those of the sets of points, except `INTERSECTS` with squared distances (`CirclesRelateAsPointSets`) |
| `geohash` | factories with a number of levels, a distance, or neither: the cell of a point contains it, and no other of its level does; its decoded centre is its centre, unless it ends at the date line (`DecodeTakesBackEncode`); look-up, tables, cells and the factory's two increments agree, and a distance is refused only when it needs the last two levels (`LevelsFitDistances`) |
| `loader` | two loads, which may overlap and fail, and any line of which may be lost on the way to Solr: what `running` tells (`RunningTellsOfLoads`); of a load that has ended every line can be found but those whose own request failed, so no commit is ahead of a line (`EndedLoadsAreIndexed`); the counts of a load alone are right, after a failure too (`LoneLoadsCountRight`); a timer stops during its load only when another has overlapped it (`StopsAfterTheLoad`); polling ends unless a load fails (`PollingEnds`) |
| `multishape_combine` | finding: `combine()` is not what its documentation says |

**Bounds.** `MaxLevels` is 3 for the filter: the scan level is then 1 or 2, the
detail level 1 to 3, and a leaf can lie above, at and below each; the smallest
grid on which the first term below a cell can be of full length and not its leaf.
The going back of the cursor needs a field of detail level 2 with a centre two
levels below, hence 4 levels in `filter_cursor` and `filter_forward`: their first
rectangle, point and query make it happen, the others are variations. Two documents are enough to make
terms that are shared and terms that only the other document has. The shapes
include points inside, on edges and on corners, a rectangle across the date line,
exactly one cell, and the world. Two threads are enough for the races on the world
cell: a third would only repeat the role of one of them. `shape_caches` makes three calls in all (`MaxCalls`): two threads
race for a provider and a cache, one of them may fail, and a third call finds what
they left; two fields and two segments, one of them without terms of one field,
are the least with which a mixed-up provider or reader shows. `MCShapeCaches`
writes its segments out and checks by an `ASSUME` that they are those that
`PrefixTreeSearch.IndexOf` makes of the fields; `CentersOf` takes the centres from
the same fields. The globe of `multishape`
has every way in which two longitude ranges can lie to each other, the full circle
and empty ranges included; the even coordinates leave an inner point between edges.
The circles of `vector` include one of radius 0 and one through (3, 4), a point on
its rim off the axes; the rectangles that they are related to are all those with
edges at nine coordinates. All of these shapes lie within `Reach` of the origin, so
that points beyond it tell none of them apart. The distances of `geohash` are at, above and below
the cell sizes of each level, its points at edges, corners and centres of cells of
several levels, at the date line and the poles. `loader` (`MaxClicks` 2, `QueueSize`
2) has two files and a file with the same id twice, so that a load is between
files, waits for a place in the queue, and overlaps the other at every step; the
queue of 50 and the third runner of the program would add no new order of steps.
One line is lost at most (`MaxLost` 1), any line of either load, at any moment that it
can be: the property is about each line by itself. The theorem holds for any number.

A field that `createField()` reduced to the world cell (finding 3) is left out of
the indexes of `filter`: its documents have their centre and nothing above it.

**Fairness.** The filter is one method run by one thread: `WF_vars(Next)`. Indexing
threads do not wait for each other, and the scheduler runs each: weak fairness of
each thread. A search on the shape caches is weakly fair in each of its
steps but the failure; the monitors are not fair, as Java's are not, and need not
be: the threads in front of one are finitely many, and so are the calls.
A load's thread, the runners of its queue, the timers and
the server of a page are weakly fair, failures and clicks are not: threads of a
cached pool each run, a browser's timer fires again and again, and a request is
answered. A runner goes on with the queue after a request that failed; that its
lines arrive is never assumed. `SpatialFilter`, `DistanceSources`, `MultiShape`, `TwoDoubles` and `GeohashPrefixTree` have no liveness property and no
fairness.

`CHECK_DEADLOCK FALSE` in every configuration: each run ends when the method it
models has returned.

## 4. Findings

1. **A full-length term is taken for a leaf marker**
   (`RecursivePrefixTreeFilter.java:116-124`). With a scan level of
   `maxLevels - 1`, the first term below an intersecting cell can be a cell of full
   length, which `Node.b_fixLeaf()` always makes a leaf; all its documents are
   returned without a look at the query. Not reachable when the scan starts two
   levels above the last or earlier, as the default does (`SoundWhenScanIsEarly`).
2. **The cursor goes back** (`RecursivePrefixTreeFilter.java:91-92`): when the
   term skipped as a leaf marker is the next cell to be sought. It costs a seek and
   loses nothing.
3. **The world cell becomes a leaf** (`SpatialPrefixTree.java:182`), which
   `Node.setLeaf()` asserts never happens. Later fields then have their centre only,
   and the term queries of the other strategy, which call the same method, have no
   clause (`QueryCells` is about a world cell without the mark).
4. **`SpatialRelation.combine()`** differs from `MultiShape.relate()`, which its
   documentation says it agrees with.
5. **`GeohashUtils.decode()`** (`GeohashUtils.java:117`) averages edges that
   `makeRect()` has normalised: a cell that ends at the date line has the eastern
   edge -180, and a centre half a turn away. The recursive filter relates that
   centre to the query for documents at full length. The run `geohash` checks that
   these cells, and no others, are wrong (`DecodeTakesBackEncode`).

Met on the way, without a document that says otherwise: `IsDisjointTo` of the vector
strategy finds nothing (a query of prohibited clauses only); the branch of its
`makeQuery()` for circles cannot be reached, since the shape must be a rectangle
there; the calculator "cartesian^2" makes circles of the wrong size; a load that
fails leaves the page polling, and the link hidden, until another load ends.

## 5. What is proved

The theorems about the filter are about every alphabet (`Arity >= 2`), depth
(`MaxLevels >= 1`), set of documents, index and query that satisfy the assumptions
of the modules:
- `IndexAssumption`: the terms of an index are strictly sorted, and a cell's term
  that is neither marked nor of full length has a longer term below it, and a
  marked term comes with the cell's own;
- `DocumentAssumption`: what `createField()` gives a document is closed: it holds
  the cells above each of its terms, and below each a leaf of its own;
- `QueryAssumption`: a query's sets are sets of cells;
- `GridAssumption`: all cells within a cell that is within the query are visited,
  as are all above a visited one, and short of the smallest cells the descent and the
  scan ask the same of a cell.

TLC evaluates these assumptions on the indexes and queries of each run, and
`FieldSearch_proofs`, below, proves them of the indexes and queries that the program
makes on a quad tree of any depth.

`TokensAndShapes_proofs` is about terms and about shapes. The order of terms is irreflexive and asymmetric; what lies
between a cell and a term below it is below it too (`BetweenStartsWith`); nothing
lies between a cell and its leaf marker (`NothingBetweenMarked`).

Its part on shapes and `MultiShape_proofs` are about every globe (`HalfTurn` at least 1,
geographic or plane), all points and rectangles that `makeRect()` and `makePoint()`
make (`IsMade`), and finite collections of them, in any order (`ShapesAssumption`,
`CollectionsAssumption`). Only a rectangle one unit short of the whole turn is left
out: on the integers of the model no longitude lies between its edges on the other
side, as one does between any two doubles of the program that differ by more than
the last digit.
- `MakeRectKeepsWidth`: what `makeRect()` makes has the width asked for, the
  assertion of `SimpleSpatialContext.java:95`, and satisfies `IsMade`: the
  assumption says no more than the code establishes.
- `RelationsAreRight`, `RelationsAreTransposes`, `CentersAreInside`: the questions of
  `relate()` against the sets of points. The longitudes of a rectangle are those that
  lie in its ascending range, or do after a whole turn. `relate_xRange()` turns one of
  the ranges, and `TurnedDisjoint` and `TurnedContains` say that this decides; where
  neither range contains the other, `TurnedOutside` names a longitude of one that is
  not in the other.
- `CollectionsRelateRight`: `Spec => []MultiShapeIsExact`. The invariant says what the
  two flags of the loop tell of the members it has seen (`SeenMembers`) and why it
  has returned (`Answer`).
- `BoxesHoldMembers`: `Spec => []BoxHoldsMembers`, from the extremes of finite sets.

`PrefixTreeStrategy_proofs` is about every depth and every world that can be halved
so often (`QuadAssumption`: four sub-cells, as `QuadPrefixTree` has, and integer
centres), any number of threads, and any jobs (`JobAssumption`: a shape of the grid's
world with a detail level that `getMaxLevelForPrecision()` gives, as `createField()`
computes it).
- The quad tree. Its definitions recurse down the levels or along a cell's name; such
  a function exists by iteration (`CountUp`, `Iterates`), and with that the sizes and
  corners of cells are known (`LevelsDefined`, `CornersDefined`). The set `Tree`
  has the world and with each cell its sub-cells, which is all the induction that is
  needed (`TreeInduction`): cells lie in the world and in all cells above them
  (`CellsNest`), four sub-cells cover their cell (`SubCellsTile`), and the search for
  a point finds a cell that holds it (`PointCells`).
- `recursiveGetNodes()`. `AreCalls` says that a function from cells to lists is what
  the calls return; it exists, from the deepest calls up (`VisitsEnd`). What a call
  returns is a cover of its cell (`IsCover`, `CallsCover`): leaves that stand for just
  the cells of the detail level that the shape touches, in order, each node that is not
  a leaf with another below it, each with those above it. The list of a
  point, and that of a shape with its centre, follow (`IsFieldList`).
- `FieldsAreTyped` (`FieldTypeOK`, which no run needs to check), `FieldsAreSorted`,
  `FieldsAreExact`, `FieldsAreSearchable`: by one inductive invariant `FieldInv`, in which each thread has its own part (`ThreadOK`):
  where it is and what it has read of the shared world cell; and, while
  it streams, that what is out is what the first nodes of *some* right list give,
  but for the leaf token due (`Streamed`). That list is the shape's, or the centre
  alone if the thread's world cell was a leaf: a world cell that was made a leaf
  stays one, so the exception of `ExactOrCentreOnly`, once true of a thread, stays
  true whatever the other threads do.

`RecursivePrefixTreeFilter_proofs`:
- `TypeCorrect`: `Spec => []TypeOK`.
- `StackIsSorted`: `Spec => []StackSorted`. Inductive together with `StackDepth`
  (cells on the stack are not below the detail level): the sub-cells that replace
  a cell differ from the rest of the stack where the cell did.
- `NextTermAssertionHolds`: `Spec => []NextTermAssertion`. The term that the index
  assumption promises lies after the cell's, and all between starts with the cell.
- `FilterIsComplete`: `Spec => []Complete`. `Complete` speaks of the end only; the
  invariant `IInv` adds, for each document owed because of a term, where the
  search is going to find it: it is collected, or a cell of the stack is a prefix
  of the term, or the scan of such a cell has not come to the term (`Coverage`);
  and where the cursor is during a scan (`ScanCursor`). A seek that finds no term
  for a cell proves that nothing is owed below it, since all parents of an owed
  term are indexed; the break at the end of the terms proves it of the whole stack,
  since that is sorted; a leaf of an incomplete cell can only be the next term.

- `SoundWhenEarly`: `Spec => []SoundWhenScanIsEarly`. A collected document is one
  that touches the query, or was mistaken for a leaf's, which needs the last level
  and a late scan (`Gathered`). The cells of the stack lie no deeper than the scan
  level (`AboveScan`); so a leaf found below an incomplete cell of an early scan has
  its marker, and a cell of the query's above it.
- `ExactAboveLastLevel`: `Spec => []ExactBelowMaxLevels`: touching documents are
  required ones there, so the two bounds meet.
- `FilterImplementsSpatialFilter`: `Spec => ImplementsSpatialFilter`. Each step that
  collects is the contract's, and the end has all that is required.
- `SeeksBackAtMostOne`: `Spec => SeekBackAtMostOne`. Of the terms that a cell of the
  stack may still lead to, the cursor has passed at most the last one, and that only
  if it has full length (`CursorBehind`). The cursor passes such a term when it reads
  the term after a cell and takes it for the cell's leaf marker. A real marker belongs
  to the cell, since its own cell would lie between the two otherwise, and
  so it comes before all cells of the stack.

`FieldSearch_proofs` puts the two together, for every depth and world of the quad tree,
any documents with one field each, and any queries at any of their detail levels
(`ContentsAssumption`, `QueriesAssumption`). Left out is a field that was reduced to
the world cell (finding 3).
- `FieldsMakeAnIndex`, `ShapesMakeQueries`: the assumptions of the theorems above are
  facts about what `createField()` and `makeFilter()` make. Sorting the terms of all
  fields gives a strictly ascending list (by the ranks of the terms); a field's terms
  have with each cell those above it, and with each cell short of full length a longer
  term (from `IsFieldList`); the cells in a cell that is within the query are visited,
  since a shape that contains a rectangle contains what that contains.
- `SearchFindsByCommonCells`: `Spec => []FindsByCommonCells`. Above the last level the
  result is exactly the documents that `TouchingDocs` names by their terms
  (`ExactAboveLastLevel`), so what is left is a statement about fields and cells. A
  touching term gives a cell of the coarser level that both touch: the term's cell, or
  one below it if it is a leaf above the level, found where the two shapes meet in it.
  In the other direction, the field's leaf above, at or below a common cell is a term
  that the filter owes.
- `SearchLosesNoDocument`: `Spec => []NoDocumentLost`: where the two shapes intersect
  there is a point of both, and the cell of that point at the coarser level is common.
- `TermQueryLosesLittle`: `Spec => []TermQueryLosesOnlyCoarserDocs`. The cells of the
  term query are followed down `recursiveGetNodes()` (`AskedOfSubCells`, `CallsAsk`):
  every cell that the query visits at its detail level is asked for, or a cell above it
  is, as a leaf of the query. A document whose terms the filter meets but no clause
  names has, therefore, its leaf above them all.

`ShapeCaches_proofs` is about every set of threads, fields, readers and documents
and every content of the segments (`SegmentsAssumption`: terms with postings); `Null` is
none of the program's objects (`NullAssumption`).
- `TypeCorrect`, `ProvidersAreOne`, `PutCachesAreComplete`, `PutCachesAreKept`:
  the safety properties of the run `shape_caches`, by one inductive invariant
  `IInv`. It adds which locks a thread holds where (`Locking`); that providers and
  caches are named by where they belong, so that a cache under construction is
  nowhere to be found (`Names`); how far a build has come (`Building`: the cache
  has the shapes of the terms before `te`, and the shared node is at the term just
  read, which needs the lock); and that what a thread has found is what was put
  (`Finding`). The type of a cache is not inductive without `Building`: the cell
  that is added is read from the shared node.
- `CentersAreFound`: `Spec => []CentersAreCached`, of segments in which each document
  has its centre as a term of full length, and a point no other leaf
  (`HoldsCenters`, `CentersAssumption`). A term of full length is a leaf term without
  the leaf byte, so a complete cache has its cell. `FieldsHoldCenters` in
  `FieldSearch_proofs` proves the assumption of every index that `createField()` makes
  on a quad tree of any depth: the centre is the last node of a shape's list, and of
  the cells of a point, its own centre, only the last has full length.
- `Refinement`: `Spec => ImplementsDistanceSources`. Putting a cache is the
  contract's `Read`, `doubleVal()` its `Answer`, the start of a call its `Ask`; all
  else stutters, the creation of a provider too, since it has no caches yet.

`TwoDoubles_proofs` is about every segment and every query of the plane: points and
rectangles, those with edges the wrong way round too, and circles with the calculator
of their context (`SegmentsAssumption`, `QueriesAssumption`).
- `FoundAreMatches`, `LostAreKnown`: the invariant says that the plan is the one that
  the arguments give (`PlanIsForArgs`) and that what is found is what the plan selects
  among the documents looked at. What a plan selects is then compared with `relate()`:
  the box around a circle holds its points (`WithinRadius`, `CircleFacts`), and the
  ring of distances leaves out the centre and the rim (`RingMeets`).
- `CirclesRelateRight`: `Spec => []CirclesRelateAsPointSets`, for any rectangles and
  circles (`RectanglesAssumption`, `OtherCirclesAssumption`) and any `Reach` that holds
  them. Of boxes it is the comparison of ranges (`RangesRelate`). A circle and a
  rectangle share a point if and only if the circle holds the rectangle's closest point
  (`ApartOrNot`), and the circle covers the rectangle if and only if it holds the
  farthest corner; where neither is inside the other, that corner, or an extreme point
  of the circle along an axis, is the witness (`CircleRectRelate`). Two circles with
  proper distances rest on the triangle inequality for squares (`Triangle`: Cauchy and
  Schwarz, by a square of a difference), hence `CircleInside` and `CirclesApart`.

`SampleDataLoader_proofs` is about any pages, files, queue and number of clicks.
- `TypeCorrect`, `RunningTells`, `EndedLoadsIndexed`, `LoneLoadsCount`: by one
  invariant `IInv`. The flag and the count belong to all loads, so what they tell of
  one rests on its being the only one under way: loads under way together are
  known to have overlapped (`OverlapsAreKnown`), and the count of a load alone is
  the number of lines it has read (`CountOfLoneLoad`). A line that was read is in the
  queue, stored, or committed with its file, unless it was lost (`ReadLinesAreKept`).
  Which lines are lost is left open, all or none.
- `PollingStopsAfterTheLoad`: `Spec => StopsAfterTheLoad`, from the same invariant.

**Only model-checked:**
- liveness (`Terminates`, `FieldsFinish`, `SearchesEnd`, `PollingEnds`): fairness and
  `ENABLED` are beyond the prover;
- `DecodeTakesBackEncode` and `LevelsFitDistances`: the bits of a geohash, and tables
  that are computed level by level.

**Not modelled:**
- `GeoCircleImpl`, the geodesic calculators and `DistanceUnits`: trigonometry on
  doubles, which TLC cannot evaluate; rounding of doubles in general.
- The Java Memory Model: a plain field that one thread writes (`running`, `count`,
  `worldNode`) is seen at once by the others here. `onTimer()` reads `running` and
  stops the timer in one step, the moment of the read.
- A runner of the `StreamingUpdateSolrServer` that dies with lines in its queue: the
  loader would wait in `add()` or `commit()`, or go on without them; that is the
  library's.
- The mutable `scanCell` of the filter: its `reset()` replaces token, leaf mark and
  shape at once and only one thread uses it, so the model reads the term instead. The
  shared node of the caches, which threads could overwrite, is in `ShapeCaches`.
- The refusals: `UnsupportedSpatialOperation` of `makeFilter()` and `makeQuery()`
  (`RecursivePrefixTreeStrategy.java:61-63`, `TermQueryPrefixTreeStrategy.java:45-50`),
  and the exceptions of `makeRect()` for latitudes off the globe
  (`SimpleSpatialContext.java:97-101`). The models begin with arguments that are
  accepted; the filter does not depend on which operation it was.
- `equals()` of the value sources: its effect is in a cache of Solr's.
  `CachingDoubleValueSource`, `StringListTokenizer`, `TruncateFilter` and
  `PrefixCellsTokenizer`: no reachable code makes one.
- Parsing of arguments and contexts, readers of sample files, benchmark tasks, Solr
  field types, KML, servlets: conversions of strings, input and output, and glue.
- Third-party code: Lucene, Solr, JTS, Wicket (modelled from their use where they
  matter), and the map viewer `OpenLayers.js` that the demo's pages
  load, a minified copy of another project's library.

## 6. Plan

In this order, the most important first; what is done is marked.

1. (done) `Tokens`, `Shapes`, `QuadTree`, `RecursivePrefixTreeFilter`,
   `SpatialFilter`, `PrefixTreeSearch`: index and search, composed.
2. (done) `PrefixTreeStrategy`: the races on the world cell, the token stream.
3. (done) `MultiShape`: relations, collections, bounding box.
4. (done) Proofs of the filter: types, stack, assertion, completeness, soundness,
   cursor, refinement.
5. (done) `ShapeCaches`, its contract `DistanceSources`, and the proofs.
6. (done) `SampleDataLoader` with the search page, and the proofs.
7. (done) `Circles`, `TwoDoubles`.
8. (done) `TermQueryPrefixTreeStrategy` beside the recursive filter.
9. (done) `GeohashPrefixTree` and the levels of its factory.
10. (done) Proofs about shapes and collections, the quad tree, the threads of
   `PrefixTreeStrategy`, the vector strategy.
11. (done) `FieldSearch` and its proofs: index and search on the quad tree, end to end;
    the centres in the caches; the relations of circles.
    Open theorems: the geohash grid.
12. Open models: `SpatialArgsParser` and the look-ahead of `LineReader`, should
    properties turn up that are about more than strings; the geohash grid under the
    recursive filter.
