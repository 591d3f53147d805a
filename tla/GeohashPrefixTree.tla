-------------------------- MODULE GeohashPrefixTree --------------------------
(***************************************************************************)
(* GeohashPrefixTree and GeohashUtils: SpatialPrefixTreeFactory chooses    *)
(* the levels of a tree, and getNode(Point, level) encodes points for it,  *)
(* one bit of a character at a time.                                       *)
(*                                                                         *)
(* A character of BASE_32 is its index 0..31: the characters are sorted.   *)
(* The world is Shapes' one, 2 * HalfTurn by HalfTurn, and a distance is   *)
(* in its units, as after DistanceUtils.dist2Degrees().                    *)
(***************************************************************************)
EXTENDS Shapes, FiniteSetsExt, SequencesExt

CONSTANTS
  MaxPrecision,     \* MAX_PRECISION: the longest geohash
  DefaultDetail,    \* DEFAULT_GEO_MAX_DETAIL_KM
  Args,             \* the arguments of the factory and its context
  Points,           \* the points that are encoded
  Absent            \* an argument that was not given

(* Two characters halve each side of a cell five times; the centres of the *)
(* smallest cells are still integers.                                      *)
ASSUME PrecisionAssumption ==
  /\ MaxPrecision \in Nat \ {0}
  /\ HalfTurn % 2^((5 * MaxPrecision) \div 2 + 1) = 0

VARIABLES
  args,         \* the arguments: maxLevels, maxDetailDist, geo, lonlat
  maxLevels,    \* the tree's number of levels
  point,        \* the point that is encoded
  level,        \* the precision asked for
  lngInterval, latInterval, isEven, bit, ch, geohash, \* locals of encodeLatLon
  pc            \* "make", "refused", "tree", "encode" or "node"

vars == << args, maxLevels, point, level, lngInterval, latInterval, isEven,
           bit, ch, geohash, pc >>

locals == << lngInterval, latInterval, isEven, bit, ch, geohash >>

Bits == << 16, 8, 4, 2, 1 >>

Middle(interval) == (interval[1] + interval[2]) \div 2

UpperHalf(interval) == << Middle(interval), interval[2] >>
LowerHalf(interval) == << interval[1], Middle(interval) >>

WorldLng == << -HalfTurn, HalfTurn >>
WorldLat == << -(HalfTurn \div 2), HalfTurn \div 2 >>

(* The bit of a geohash that round k of the decoding looks at is one.      *)
IsOne(hash, k) ==
  LET i == k - 1 IN (hash[(i \div 5) + 1] \div Bits[(i % 5) + 1]) % 2 = 1

Half(interval, upper) == IF upper THEN UpperHalf(interval) ELSE LowerHalf(interval)

(* Mutant of IsLngRound: every character starts with the longitude.        *)
IsLngRoundOfCharacter(k) == ((k - 1) % 5) % 2 = 0

(* The bits belong to the longitude and the latitude in turn, through all  *)
(* the characters.                                                         *)
IsLngRound(k) == k % 2 = 1

(* The intervals of longitude and latitude that decodeBoundary() gets.     *)
Boundary(hash) ==
  FoldLeftDomain(
    LAMBDA box, k : IF IsLngRound(k) THEN << Half(box[1], IsOne(hash, k)), box[2] >>
                                     ELSE << box[1], Half(box[2], IsOne(hash, k)) >>,
    << WorldLng, WorldLat >>,
    [k \in 1..(5 * Len(hash)) |-> k])

(* decodeBoundary(), with what makeRect() does to an edge at HalfTurn.     *)
DecodeBoundary(hash) ==
  LET box == Boundary(hash) IN MakeRect(box[1][1], box[1][2], box[2][1], box[2][2])

(* decode(): the mean of the edges of that rectangle.                      *)
Decode(hash) ==
  LET rect == DecodeBoundary(hash)
  IN  MakePoint((rect.minX + rect.maxX) \div 2, (rect.minY + rect.maxY) \div 2)

(* hashLenToLatHeight[] and hashLenToLonWidth[].                           *)
LatHeight[len \in 0..MaxPrecision] ==
  IF len = 0 THEN HalfTurn ELSE LatHeight[len - 1] \div (IF len % 2 = 0 THEN 8 ELSE 4)

LonWidth[len \in 0..MaxPrecision] ==
  IF len = 0 THEN 2 * HalfTurn ELSE LonWidth[len - 1] \div (IF len % 2 = 0 THEN 4 ELSE 8)

(* Mutant of HashLenForWidthHeight: one of the sides is large enough.      *)
HashLenForEitherSide(width, height) ==
  LET tooSmall == { len \in 1..MaxPrecision : LatHeight[len] < height /\ LonWidth[len] < width }
  IN  IF tooSmall = {} THEN MaxPrecision ELSE Min(tooSmall) - 1

(* lookupHashLenForWidthHeight().                                          *)
HashLenForWidthHeight(width, height) ==
  LET tooSmall == { len \in 1..MaxPrecision : LatHeight[len] < height \/ LonWidth[len] < width }
  IN  IF tooSmall = {} THEN MaxPrecision ELSE Min(tooSmall) - 1

(* getLevelForDistance() of a tree of that many levels.                    *)
LevelForDistance(dist, levels) ==
  Max({1, Min({levels, HashLenForWidthHeight(dist, dist)})})

(* The distance, in degrees, that initMaxLevels() goes by.                 *)
DetailOf(a) == IF a.maxDetailDist = Absent THEN DefaultDetail ELSE a.maxDetailDist

(* initMaxLevels() and newSPT(): the level is made one greater by each of  *)
(* the two methods named getLevelForDistance() and initMaxLevels().        *)
LevelsOf(a) ==
  IF      a.maxLevels # Absent                   THEN a.maxLevels
  ELSE IF a.maxDetailDist = Absent /\ ~a.geo     THEN MaxPrecision
  ELSE LevelForDistance(DetailOf(a), MaxPrecision) + 2

Init ==
  /\ args \in Args
  /\ maxLevels = 0
  /\ point = Point(0, 0)
  /\ level = 0
  /\ lngInterval = WorldLng
  /\ latInterval = WorldLat
  /\ isEven = TRUE
  /\ bit = 0
  /\ ch = 0
  /\ geohash = << >>
  /\ pc = "make"

(* makeSPT(): the constructor takes a world of degrees and 1..MaxPrecision *)
(* levels.                                                                 *)
Accepts(a) == a.lonlat /\ LevelsOf(a) \in 1..MaxPrecision

MakeSPT ==
  /\ pc = "make"
  /\ Accepts(args)
  /\ maxLevels' = LevelsOf(args)
  /\ pc' = "tree"
  /\ UNCHANGED << args, point, level, locals >>

Refuse ==
  /\ pc = "make"
  /\ ~Accepts(args)
  /\ pc' = "refused"
  /\ UNCHANGED << args, maxLevels, point, level, locals >>

(* getNode(Point, level) calls encodeLatLon().                             *)
GetNode ==
  /\ pc \in {"tree", "node"}
  /\ point' \in Points
  /\ level' \in 1..maxLevels
  /\ lngInterval' = WorldLng
  /\ latInterval' = WorldLat
  /\ isEven' = TRUE
  /\ bit' = 0
  /\ ch' = 0
  /\ geohash' = << >>
  /\ pc' = "encode"
  /\ UNCHANGED << args, maxLevels >>

(* A point in the middle goes down.                                        *)
IsUpper(coordinate, interval) == coordinate > Middle(interval)

(* The bit of this round.                                                  *)
BitIsOne ==
  IF isEven THEN IsUpper(point.minX, lngInterval) ELSE IsUpper(point.minY, latInterval)

WithBit == ch + (IF BitIsOne THEN Bits[bit + 1] ELSE 0)

HalveLng == isEven  /\ lngInterval' = Half(lngInterval, BitIsOne) /\ UNCHANGED latInterval
HalveLat == ~isEven /\ latInterval' = Half(latInterval, BitIsOne) /\ UNCHANGED lngInterval

NextBit == bit < 4 /\ bit' = bit + 1 /\ ch' = WithBit /\ UNCHANGED geohash
NextCharacter == bit = 4 /\ bit' = 0 /\ ch' = 0 /\ geohash' = Append(geohash, WithBit)

(* One round of the loop: one bit and, with the fifth, one character.      *)
EncodeBit ==
  /\ pc = "encode"
  /\ Len(geohash) < level
  /\ HalveLng \/ HalveLat
  /\ NextBit \/ NextCharacter
  /\ isEven' = ~isEven
  /\ UNCHANGED << args, maxLevels, point, level, pc >>

Return ==
  /\ pc = "encode"
  /\ Len(geohash) = level
  /\ pc' = "node"
  /\ UNCHANGED << args, maxLevels, point, level, locals >>

Next == MakeSPT \/ Refuse \/ GetNode \/ EncodeBit \/ Return

Spec == Init /\ [][Next]_vars

-----------------------------------------------------------------------------

(* What encodeLatLon() made, decodeBoundary() takes back: the cell it gave *)
(* a point contains the point, on its eastern and northern edges but not   *)
(* on the others, except where the world ends; so a point has one cell at  *)
(* each level.  decode() gives the centre of the cell - the point the      *)
(* filter relates to a query for a document at full length - for all cells *)
(* but those that end at the date line: there makeRect() has turned the    *)
(* eastern edge into -180, and the mean of the edges (GeohashUtils.java    *)
(* 116-117) is half a turn away.                                           *)
DecodeTakesBackEncode ==
  pc = "node" =>
    LET cell == DecodeBoundary(geohash) IN
      /\ Relate(cell, point) # "DISJOINT"
      /\ point.minX # cell.minX \/ point.minX = -HalfTurn
      /\ point.minY # cell.minY \/ point.minY = -(HalfTurn \div 2)
      /\ Decode(geohash) = Center(cell) <=> ~CrossesDateLine(cell)

CellOfLength(len) == DecodeBoundary([i \in 1..len |-> 0])

SmallestSide(cell) == Min({Width(cell), Height(cell)})

(* The tables of sizes, the look-up, the factory's two increments and the  *)
(* cells agree.  The detail level for a distance has the smallest cells of *)
(* the tree that are not smaller than it, or is 1.  The cells of the last  *)
(* level of a tree made for a distance are smaller than it both ways, and  *)
(* those two levels above are not.  A distance is refused only when some   *)
(* cells of MaxPrecision - 1 characters are not smaller than it.           *)
LevelsFitDistances ==
  /\ pc = "tree" =>
       \A dist \in 1..HalfTurn :
         LET l == LevelForDistance(dist, maxLevels) IN
           /\ l \in 1..maxLevels
           /\ SmallestSide(CellOfLength(l)) >= dist \/ l = 1
           /\ l < maxLevels => SmallestSide(CellOfLength(l + 1)) < dist
  /\ pc = "tree" /\ args.maxLevels = Absent /\ (args.geo \/ args.maxDetailDist # Absent) =>
       /\ Width(CellOfLength(maxLevels)) < DetailOf(args)
       /\ Height(CellOfLength(maxLevels)) < DetailOf(args)
       /\ SmallestSide(CellOfLength(maxLevels - 2)) >= DetailOf(args) \/ maxLevels = 3
  /\ pc = "refused" /\ args.lonlat /\ args.maxLevels = Absent =>
       SmallestSide(CellOfLength(MaxPrecision - 1)) >= DetailOf(args)
=============================================================================
