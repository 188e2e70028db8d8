-------------------------- MODULE AprsQueriesProofs --------------------------
(***************************************************************************)
(* Proofs about MapTiles and AprsQueries, for any size of the map and its  *)
(* tiles and for any packets.                                              *)
(***************************************************************************)
EXTENDS AprsQueries, FiniteSetTheorems, SequenceTheorems, TLAPS

-----------------------------------------------------------------------------
(* The arithmetic of tiles.                                                *)

\* A power of two counts the subsets of a set, so it is a natural number.
LEMMA PowerOfTwo ==
    ASSUME NEW n \in Nat
    PROVE  2^n \in Nat \ {0}
<1> DEFINE S == 1..n
<1>1. IsFiniteSet(S) /\ Cardinality(S) = n
  <2>1. IsFiniteSet(S) /\ Cardinality(S) = IF 1 > n THEN 0 ELSE n - 1 + 1 BY FS_Interval
  <2> QED BY <2>1
<1>2. IsFiniteSet(SUBSET S) /\ Cardinality(SUBSET S) = 2^n BY <1>1, FS_SUBSET
<1>3. Cardinality(SUBSET S) \in Nat BY <1>2, FS_CardinalityType
<1>4. Cardinality(SUBSET S) # 0
  <2>1. {} \in SUBSET S OBVIOUS
  <2> QED BY <1>2, <2>1, FS_EmptySet
<1> QED BY <1>2, <1>3, <1>4

\* A point is in its tile.
LEMMA InTile ==
    ASSUME NEW a \in Nat, NEW size \in Nat \ {0}
    PROVE  /\ a \div size \in Nat
           /\ (a \div size) * size <= a
           /\ a < (a \div size + 1) * size
BY SMT

\* A margin is no wider than a tile.
LEMMA MarginFits ==
    ASSUME NEW pixel \in Nat \ {0}, NEW m \in 0..TileSize
    PROVE  m * pixel \in Nat /\ TileSize * pixel \in Nat \ {0} /\ m * pixel <= TileSize * pixel
BY TilesAssumption, SMT

\* One side of the map: a west or north edge at `low', an east or south edge at
\* `high', both in pixels.
LEMMA LowSide ==
    ASSUME NEW size \in Nat \ {0}, NEW margin \in Nat, margin <= size, NEW low \in Nat,
           NEW t, t = low \div size,
           NEW start, start = IF low - t * size < margin /\ t > 0 THEN t - 1 ELSE t
    PROVE  start = 0 \/ start * size + margin <= low
<1>1. t \in Nat /\ t * size <= low BY InTile
<1>2. t * size \in Nat BY <1>1
<1>3. CASE low - t * size < margin /\ t > 0
  <2>1. start = t - 1 BY <1>3
  <2>2. start * size = t * size - size BY <1>1, <2>1, SMT
  <2> QED BY <1>1, <1>2, <2>2
<1>4. CASE t = 0 BY <1>4
<1>5. CASE ~(low - t * size < margin)
  <2>1. start = t BY <1>5
  <2>2. low - t * size >= margin BY <1>2, <1>5
  <2> QED BY <1>2, <2>1, <2>2
<1> QED BY <1>1, <1>3, <1>4, <1>5

\* The last tile holds the high side of a box and its margin.
LEMMA HighSide ==
    ASSUME NEW size \in Nat \ {0}, NEW margin \in Nat, margin <= size, NEW high \in Nat,
           NEW t, t = high \div size,
           NEW end, end = IF (t + 1) * size - high < margin THEN t + 1 ELSE t
    PROVE  high < (end + 1) * size /\ high + margin <= (end + 1) * size
<1>1. t \in Nat /\ high < (t + 1) * size BY InTile
<1>2. (t + 1) * size \in Nat BY <1>1
<1>3. CASE (t + 1) * size - high < margin
  <2>1. end = t + 1 BY <1>3
  <2>2. (end + 1) * size = (t + 1) * size + size BY <1>1, <2>1, SMT
  <2> QED BY <1>1, <1>2, <2>2
<1>4. CASE ~((t + 1) * size - high < margin)
  <2>1. end = t BY <1>4
  <2> QED BY <1>2, <1>4, <2>1
<1> QED BY <1>3, <1>4

-----------------------------------------------------------------------------
(* The tiles of a map.                                                     *)

Point == [x : Nat, y : Nat]
IsBox(box) ==
    /\ box.min \in Point /\ box.max \in Point
    /\ box.min.x <= box.max.x /\ box.max.y <= box.min.y
In(p, box) == p.x \in box.min.x..box.max.x /\ p.y \in box.max.y..box.min.y

\* At every zoom the tiles AprsSvcCalcOSMTiles takes hold the box it was asked
\* for with its margins, as long as no margin is wider than a tile.
THEOREM TilesHoldBox ==
    ASSUME NEW svc, IsBox(svc), NEW zoom \in 0..MAX_ZOOM,
           svc.left \in 0..TileSize, svc.right \in 0..TileSize,
           svc.top \in 0..TileSize, svc.bottom \in 0..TileSize
    PROVE  Hold(TilesAt(svc, zoom), svc, zoom)
<1> USE TilesAssumption
<1> DEFINE pixel == Pixel(zoom)
           size == TileSize * pixel
           needs(room, margin) == room < margin * pixel
           startX == svc.min.x \div size
           endX   == svc.max.x \div size
           startY == svc.max.y \div size
           endY   == svc.min.y \div size
           t == TilesAt(svc, zoom)
<1>1. pixel \in Nat \ {0} BY PowerOfTwo DEF Pixel
<1>2. svc.min.x \in Nat /\ svc.min.y \in Nat /\ svc.max.x \in Nat /\ svc.max.y \in Nat
  BY DEF IsBox, Point
<1>3. /\ Lower(svc.min.x, svc.max.x) = svc.min.x
      /\ Higher(svc.min.x, svc.max.x) = svc.max.x
      /\ Lower(svc.min.y, svc.max.y) = svc.max.y
      /\ Higher(svc.min.y, svc.max.y) = svc.min.y
  BY <1>2 DEF IsBox, Lower, Higher
<1>4. t = [startX |-> IF needs(svc.min.x - startX * size, svc.left) /\ startX > 0
                      THEN startX - 1 ELSE startX,
           endX   |-> IF needs((endX + 1) * size - svc.max.x, svc.right)
                      THEN endX + 1 ELSE endX,
           startY |-> IF needs(svc.max.y - startY * size, svc.top) /\ startY > 0
                      THEN startY - 1 ELSE startY,
           endY   |-> IF needs((endY + 1) * size - svc.min.y, svc.bottom)
                      THEN endY + 1 ELSE endY]
  BY <1>3 DEF TilesAt, Tile
<1>5. size \in Nat \ {0} BY <1>1
<1>6. /\ svc.left * pixel \in Nat /\ svc.left * pixel <= size
      /\ svc.right * pixel \in Nat /\ svc.right * pixel <= size
      /\ svc.top * pixel \in Nat /\ svc.top * pixel <= size
      /\ svc.bottom * pixel \in Nat /\ svc.bottom * pixel <= size
  <2> HIDE DEF pixel
  <2> QED BY <1>1, MarginFits
<1> HIDE DEF size, pixel, t
<1>7. t.startX = 0 \/ t.startX * size + svc.left * pixel <= svc.min.x
  BY <1>2, <1>4, <1>5, <1>6, LowSide
<1>8. t.startY = 0 \/ t.startY * size + svc.top * pixel <= svc.max.y
  BY <1>2, <1>4, <1>5, <1>6, LowSide
<1>9. svc.max.x < (t.endX + 1) * size /\ svc.max.x + svc.right * pixel <= (t.endX + 1) * size
  BY <1>2, <1>4, <1>5, <1>6, HighSide
<1>10. svc.min.y < (t.endY + 1) * size /\ svc.min.y + svc.bottom * pixel <= (t.endY + 1) * size
  BY <1>2, <1>4, <1>5, <1>6, HighSide
<1> QED BY <1>7, <1>8, <1>9, <1>10 DEF Hold, t, size, pixel

-----------------------------------------------------------------------------
(* The box around a set of places.                                         *)

\* A place that is added to a box is in it, and so is what was there before, as
\* long as neither is at the coordinates 0, 0 that stand for no corner.
THEOREM BoxGrows ==
    ASSUME NEW box, box = NoBox \/ (IsBox(box) /\ box.min # Zero /\ box.max # Zero),
           NEW p \in Point, p # Zero
    PROVE  /\ IsBox(AprsBoundingBox(box, p))
           /\ In(p, AprsBoundingBox(box, p))
           /\ box # NoBox => \A q \in Point : In(q, box) => In(q, AprsBoundingBox(box, p))
<1> DEFINE new == AprsBoundingBox(box, p)
<1>1. CASE box = NoBox
  <2>1. new = [min |-> p, max |-> p] BY <1>1 DEF NoBox, AprsBoundingBox
  <2> QED BY <1>1, <2>1 DEF IsBox, In, Point
<1>2. CASE IsBox(box) /\ box.min # Zero /\ box.max # Zero
  <2>1. new = [min |-> [x |-> Lower(p.x, box.min.x), y |-> Higher(p.y, box.min.y)],
               max |-> [x |-> Higher(p.x, box.max.x), y |-> Lower(p.y, box.max.y)]]
    BY <1>2 DEF AprsBoundingBox
  <2>2. /\ p.x \in Nat /\ p.y \in Nat
        /\ box.min.x \in Nat /\ box.min.y \in Nat /\ box.max.x \in Nat /\ box.max.y \in Nat
        /\ box.min.x <= box.max.x /\ box.max.y <= box.min.y
    BY <1>2 DEF IsBox, Point
  <2>3. IsBox(new) BY <2>1, <2>2 DEF IsBox, Point, Lower, Higher
  <2>4. In(p, new) BY <2>1, <2>2 DEF In, Lower, Higher
  <2>5. ASSUME NEW q \in Point, In(q, box) PROVE In(q, new)
    <3>1. /\ q.x \in Nat /\ q.y \in Nat
          /\ box.min.x <= q.x /\ q.x <= box.max.x /\ box.max.y <= q.y /\ q.y <= box.min.y
      BY <2>2, <2>5 DEF In, Point
    <3> QED BY <2>1, <2>2, <3>1 DEF In, Lower, Higher
  <2> QED BY <2>3, <2>4, <2>5
<1> QED BY <1>1, <1>2

-----------------------------------------------------------------------------
(* Induction: the library's theorems about it take operators, which the    *)
(* provers cannot instantiate, so these are about sets.                    *)

\* A set with 0 and the successor of each of its numbers has all of them.
LEMMA NatInduct ==
    ASSUME NEW S, 0 \in S, \A n \in Nat : n \in S => n + 1 \in S
    PROVE  Nat \subseteq S
<1> SUFFICES ASSUME NEW k \in Nat, k \notin S PROVE FALSE OBVIOUS
<1> DEFINE T == Nat \ S
<1>1. T \subseteq Nat /\ T # {} OBVIOUS
<1>2. PICK m \in T : \A y \in T : ~(<<y, m>> \in OpToRel(<, Nat))
  BY <1>1, NatLessThanWellFounded, WFMin
<1>3. m - 1 \in Nat /\ m - 1 < m OBVIOUS
<1>4. m - 1 \in S BY <1>2, <1>3 DEF OpToRel
<1> QED BY <1>3, <1>4

Unfolds(V, b, next, m, f) ==
    /\ f \in [0..m -> V]
    /\ f[0] = b
    /\ \A i \in 1..m : f[i] = next[i][f[i - 1]]

\* A value and a function from each value to the next define a sequence of values.
LEMMA Recursion ==
    ASSUME NEW V, NEW b \in V, NEW n \in Nat, NEW next \in [1..n -> [V -> V]]
    PROVE  \E f : Unfolds(V, b, next, n, f)
<1> DEFINE T == {m \in Nat : m <= n => \E f : Unfolds(V, b, next, m, f)}
<1>1. 0 \in T
  <2> DEFINE f == [i \in 0..0 |-> b]
  <2>1. f \in [0..0 -> V] /\ f[0] = b OBVIOUS
  <2> HIDE DEF f
  <2>2. Unfolds(V, b, next, 0, f) BY <2>1 DEF Unfolds
  <2> QED BY <2>2
<1>2. ASSUME NEW m \in Nat, m \in T PROVE m + 1 \in T
  <2> SUFFICES ASSUME m + 1 <= n PROVE \E f : Unfolds(V, b, next, m + 1, f) OBVIOUS
  <2>1. m <= n OBVIOUS
  <2>2. PICK f : Unfolds(V, b, next, m, f) BY <1>2, <2>1
  <2> DEFINE value == next[m + 1][f[m]]
             g == [i \in 0..(m + 1) |-> IF i = m + 1 THEN value ELSE f[i]]
  <2>3. value \in V
    <3>1. f[m] \in V BY <2>2 DEF Unfolds
    <3>2. next[m + 1] \in [V -> V] OBVIOUS
    <3> QED BY <3>1, <3>2
  <2>4. g[m + 1] = value /\ \A i \in 0..m : g[i] = f[i] OBVIOUS
  <2> HIDE DEF value
  <2>5. g \in [0..(m + 1) -> V] BY <2>2, <2>3 DEF Unfolds
  <2> HIDE DEF g
  <2>6. ASSUME NEW i \in 1..(m + 1) PROVE g[i] = next[i][g[i - 1]]
    <3>1. CASE i = m + 1 BY <2>4, <3>1 DEF value
    <3>2. CASE i # m + 1
      <4>1. i \in 1..m /\ i \in 0..m /\ i - 1 \in 0..m BY <3>2
      <4> QED BY <2>2, <2>4, <4>1 DEF Unfolds
    <3> QED BY <3>1, <3>2
  <2>7. g[0] = b BY <2>2, <2>4 DEF Unfolds
  <2>8. Unfolds(V, b, next, m + 1, g) BY <2>5, <2>6, <2>7 DEF Unfolds
  <2> QED BY <2>8
<1> HIDE DEF T
<1>3. Nat \subseteq T BY <1>1, <1>2, NatInduct
<1> QED BY <1>3 DEF T

-----------------------------------------------------------------------------
(* The closest map.                                                        *)

\* The first tile of a side.
FirstTile(low, size, margin) ==
    LET t == low \div size
    IN  IF low - t * size < margin /\ t > 0 THEN t - 1 ELSE t

\* Tiles further in than those of the map do not hold the west or north side,
LEMMA LowLeast ==
    ASSUME NEW size \in Nat \ {0}, NEW margin \in Nat, NEW low \in Nat
    PROVE  /\ FirstTile(low, size, margin) \in Nat
           /\ FirstTile(low, size, margin) <= low \div size
           /\ \A a \in Nat :
                a = 0 \/ a * size + margin <= low => a <= FirstTile(low, size, margin)
<1> DEFINE t == low \div size
           start == FirstTile(low, size, margin)
<1>0. start = IF low - t * size < margin /\ t > 0 THEN t - 1 ELSE t BY DEF FirstTile
<1>1. t \in Nat /\ t * size <= low /\ low < (t + 1) * size BY InTile
<1> HIDE DEF t, start
<1>2. start \in Nat /\ start <= t BY <1>0, <1>1
<1>3. ASSUME NEW a \in Nat, a = 0 \/ a * size + margin <= low, a > start PROVE FALSE
  <2>1. a * size + margin <= low BY <1>2, <1>3
  <2>2. CASE start = t
    <3>1. (t + 1) * size <= a * size BY <1>1, <1>3, <2>2, SMT
    <3>2. (t + 1) * size \in Nat /\ a * size \in Nat BY <1>1
    <3> QED BY <1>1, <2>1, <3>1, <3>2
  <2>3. CASE start # t
    <3>1. low - t * size < margin /\ a >= t BY <1>0, <1>1, <1>3, <2>3
    <3>2. t * size <= a * size BY <1>1, <3>1, SMT
    <3>3. t * size \in Nat /\ a * size \in Nat BY <1>1
    <3> QED BY <2>1, <3>1, <3>2, <3>3
  <2> QED BY <2>2, <2>3
<1> QED BY <1>2, <1>3 DEF t, start

LastTile(high, size, margin) ==
    LET t == high \div size
    IN  IF (t + 1) * size - high < margin THEN t + 1 ELSE t

\* nor do they hold the east or south side.
LEMMA HighLeast ==
    ASSUME NEW size \in Nat \ {0}, NEW margin \in Nat, NEW high \in Nat
    PROVE  /\ LastTile(high, size, margin) \in Nat
           /\ high \div size <= LastTile(high, size, margin)
           /\ \A b \in Nat :
                high < (b + 1) * size /\ high + margin <= (b + 1) * size
                    => LastTile(high, size, margin) <= b
<1> DEFINE t == high \div size
           end == LastTile(high, size, margin)
<1>1. end = IF (t + 1) * size - high < margin THEN t + 1 ELSE t BY DEF LastTile
<1>2. t \in Nat /\ t * size <= high /\ high < (t + 1) * size BY InTile
<1> HIDE DEF t, end
<1>3. end \in Nat /\ t <= end BY <1>1, <1>2
<1>4. ASSUME NEW b \in Nat, high < (b + 1) * size, high + margin <= (b + 1) * size, b < end
      PROVE  FALSE
  <2>1. t * size \in Nat /\ (t + 1) * size \in Nat /\ (b + 1) * size \in Nat BY <1>2
  <2>2. CASE end = t
    <3>1. (b + 1) * size <= t * size BY <1>2, <1>4, <2>2, SMT
    <3> QED BY <1>2, <1>4, <2>1, <3>1
  <2>3. CASE end # t
    <3>1. (t + 1) * size - high < margin /\ b <= t BY <1>1, <1>2, <1>4, <2>3
    <3>2. (b + 1) * size <= (t + 1) * size BY <1>2, <3>1, SMT
    <3> QED BY <1>4, <2>1, <3>1, <3>2
  <2> QED BY <2>2, <2>3
<1> QED BY <1>3, <1>4 DEF t, end

\* The tile of the lower of two points is not after that of the higher.
LEMMA TilesInOrder ==
    ASSUME NEW size \in Nat \ {0}, NEW a \in Nat, NEW b \in Nat, a <= b
    PROVE  a \div size <= b \div size
<1> DEFINE s == a \div size
           t == b \div size
<1>1. s \in Nat /\ s * size <= a BY InTile
<1>2. t \in Nat /\ b < (t + 1) * size BY InTile
<1> HIDE DEF s, t
<1>3. s * size \in Nat /\ (t + 1) * size \in Nat BY <1>1, <1>2
<1>4. s * size < (t + 1) * size BY <1>1, <1>2, <1>3
<1>5. ASSUME s > t PROVE FALSE
  <2>1. (t + 1) * size <= s * size BY <1>1, <1>2, <1>5, SMT
  <2> QED BY <1>3, <1>4, <2>1
<1> QED BY <1>1, <1>2, <1>5 DEF s, t

\* More columns and more rows are more tiles.
LEMMA MoreTiles ==
    ASSUME NEW a \in Nat, NEW b \in Nat, NEW c \in Nat, NEW d \in Nat, a <= b, c <= d
    PROVE  a * c \in Nat /\ b * d \in Nat /\ a * c <= b * d
<1>1. a * c <= b * c BY SMT
<1>2. b * c <= b * d BY SMT
<1>3. a * c \in Nat /\ b * c \in Nat /\ b * d \in Nat OBVIOUS
<1> QED BY <1>1, <1>2, <1>3

Margins(svc) ==
    svc.left \in Nat /\ svc.right \in Nat /\ svc.top \in Nat /\ svc.bottom \in Nat
IsTiles(t) ==
    /\ t.startX \in Nat /\ t.endX \in Nat /\ t.startX <= t.endX
    /\ t.startY \in Nat /\ t.endY \in Nat /\ t.startY <= t.endY

Within(u, t) == t.startX <= u.startX /\ u.endX <= t.endX /\ t.startY <= u.startY /\ u.endY <= t.endY

\* The tiles of a zoom are a part of any tiles that hold the box with its margins.
LEMMA TilesLeast ==
    ASSUME NEW svc, IsBox(svc), Margins(svc), NEW zoom \in 0..MAX_ZOOM
    PROVE  /\ IsTiles(TilesAt(svc, zoom))
           /\ \A t : IsTiles(t) /\ Hold(t, svc, zoom) => Within(TilesAt(svc, zoom), t)
<1> USE TilesAssumption
<1> DEFINE pixel == Pixel(zoom)
           size == TileSize * pixel
           needs(room, margin) == room < margin * pixel
           startX == svc.min.x \div size
           endX   == svc.max.x \div size
           startY == svc.max.y \div size
           endY   == svc.min.y \div size
           u == TilesAt(svc, zoom)
<1>1. pixel \in Nat \ {0} BY PowerOfTwo DEF Pixel
<1>2. svc.min.x \in Nat /\ svc.min.y \in Nat /\ svc.max.x \in Nat /\ svc.max.y \in Nat
  BY DEF IsBox, Point
<1>3. /\ Lower(svc.min.x, svc.max.x) = svc.min.x
      /\ Higher(svc.min.x, svc.max.x) = svc.max.x
      /\ Lower(svc.min.y, svc.max.y) = svc.max.y
      /\ Higher(svc.min.y, svc.max.y) = svc.min.y
  BY <1>2 DEF IsBox, Lower, Higher
<1>4. u = [startX |-> IF needs(svc.min.x - startX * size, svc.left) /\ startX > 0
                      THEN startX - 1 ELSE startX,
           endX   |-> IF needs((endX + 1) * size - svc.max.x, svc.right)
                      THEN endX + 1 ELSE endX,
           startY |-> IF needs(svc.max.y - startY * size, svc.top) /\ startY > 0
                      THEN startY - 1 ELSE startY,
           endY   |-> IF needs((endY + 1) * size - svc.min.y, svc.bottom)
                      THEN endY + 1 ELSE endY]
  BY <1>3 DEF TilesAt, Tile
<1>5. size \in Nat \ {0} BY <1>1
<1>6. /\ svc.left * pixel \in Nat /\ svc.right * pixel \in Nat
      /\ svc.top * pixel \in Nat /\ svc.bottom * pixel \in Nat
  BY <1>1 DEF Margins
<1>7. startX \in Nat /\ endX \in Nat /\ startY \in Nat /\ endY \in Nat
  <2> HIDE DEF size
  <2> QED BY <1>2, <1>5, InTile
<1>8. startX <= endX /\ startY <= endY
  <2> HIDE DEF size
  <2> QED BY <1>2, <1>5, TilesInOrder DEF IsBox
<1> DEFINE left == svc.left * pixel
           right == svc.right * pixel
           top == svc.top * pixel
           bottom == svc.bottom * pixel
<1>9. /\ u.startX = FirstTile(svc.min.x, size, left)
      /\ u.endX = LastTile(svc.max.x, size, right)
      /\ u.startY = FirstTile(svc.max.y, size, top)
      /\ u.endY = LastTile(svc.min.y, size, bottom)
  BY <1>4 DEF FirstTile, LastTile
<1>10. left \in Nat /\ right \in Nat /\ top \in Nat /\ bottom \in Nat BY <1>6
<1>11. ASSUME NEW t, Hold(t, svc, zoom)
       PROVE  /\ t.startX = 0 \/ t.startX * size + left <= svc.min.x
              /\ svc.max.x < (t.endX + 1) * size /\ svc.max.x + right <= (t.endX + 1) * size
              /\ t.startY = 0 \/ t.startY * size + top <= svc.max.y
              /\ svc.min.y < (t.endY + 1) * size /\ svc.min.y + bottom <= (t.endY + 1) * size
  BY <1>11 DEF Hold
<1> DEFINE west == svc.min.x
           east == svc.max.x
           north == svc.max.y
           south == svc.min.y
<1>12. west \in Nat /\ east \in Nat /\ north \in Nat /\ south \in Nat BY <1>2
<1> HIDE DEF size, pixel, u, left, right, top, bottom, west, east, north, south
<1>13. /\ FirstTile(west, size, left) \in Nat /\ FirstTile(west, size, left) <= west \div size
       /\ \A a \in Nat :
            a = 0 \/ a * size + left <= west => a <= FirstTile(west, size, left)
  BY <1>5, <1>10, <1>12, LowLeast
<1>14. /\ FirstTile(north, size, top) \in Nat /\ FirstTile(north, size, top) <= north \div size
       /\ \A a \in Nat :
            a = 0 \/ a * size + top <= north => a <= FirstTile(north, size, top)
  BY <1>5, <1>10, <1>12, LowLeast
<1>15. /\ LastTile(east, size, right) \in Nat /\ east \div size <= LastTile(east, size, right)
       /\ \A b \in Nat : east < (b + 1) * size /\ east + right <= (b + 1) * size
                            => LastTile(east, size, right) <= b
  BY <1>5, <1>10, <1>12, HighLeast
<1>16. /\ LastTile(south, size, bottom) \in Nat
       /\ south \div size <= LastTile(south, size, bottom)
       /\ \A b \in Nat : south < (b + 1) * size /\ south + bottom <= (b + 1) * size
                            => LastTile(south, size, bottom) <= b
  BY <1>5, <1>10, <1>12, HighLeast
<1>17. /\ startX = west \div size /\ endX = east \div size
       /\ startY = north \div size /\ endY = south \div size
  BY DEF west, east, north, south
<1>18. /\ u.startX = FirstTile(west, size, left) /\ u.endX = LastTile(east, size, right)
       /\ u.startY = FirstTile(north, size, top) /\ u.endY = LastTile(south, size, bottom)
  BY <1>9 DEF west, east, north, south
<1> HIDE DEF startX, endX, startY, endY
<1>19. IsTiles(u) BY <1>7, <1>8, <1>13, <1>14, <1>15, <1>16, <1>17, <1>18 DEF IsTiles
<1>20. ASSUME NEW t, IsTiles(t), Hold(t, svc, zoom) PROVE Within(u, t)
  <2>1. /\ t.startX = 0 \/ t.startX * size + left <= west
        /\ east < (t.endX + 1) * size /\ east + right <= (t.endX + 1) * size
        /\ t.startY = 0 \/ t.startY * size + top <= north
        /\ south < (t.endY + 1) * size /\ south + bottom <= (t.endY + 1) * size
    BY <1>11, <1>20 DEF west, east, north, south
  <2> QED BY <1>13, <1>14, <1>15, <1>16, <1>18, <1>20, <2>1 DEF IsTiles, Within
<1> QED BY <1>19, <1>20 DEF u

\* The tiles AprsSvcCalcOSMTiles takes at a zoom are the fewest that hold the box
\* it was asked for with its margins, however wide these are.
THEOREM FewestTiles ==
    ASSUME NEW svc, IsBox(svc), Margins(svc), NEW zoom \in 0..MAX_ZOOM,
           NEW t, IsTiles(t), Hold(t, svc, zoom)
    PROVE  /\ TileCount(TilesAt(svc, zoom)) \in Nat
           /\ TileCount(TilesAt(svc, zoom)) <= TileCount(t)
<1> DEFINE u == TilesAt(svc, zoom)
           a == u.endX - u.startX + 1
           b == t.endX - t.startX + 1
           c == u.endY - u.startY + 1
           d == t.endY - t.startY + 1
<1>1. IsTiles(u) /\ Within(u, t) BY TilesLeast
<1> HIDE DEF u
<1>2. a \in Nat /\ b \in Nat /\ c \in Nat /\ d \in Nat /\ a <= b /\ c <= d
  BY <1>1 DEF IsTiles, Within
<1> HIDE DEF a, b, c, d
<1>3. a * c \in Nat /\ a * c <= b * d BY <1>2, MoreTiles
<1> QED BY <1>3 DEF TileCount, u, a, b, c, d

Fits(svc, z) == TileCount(TilesAt(svc, z)) <= svc.maxTiles
IsZoom(svc, zoom, z) ==
    /\ zoom \in 2..z
    /\ zoom = 2 \/ Fits(svc, zoom)
    /\ \A y \in (zoom + 1)..z : ~Fits(svc, y)

\* The zoom taken is the first from MAX_ZOOM down to 2 whose tiles are not too
\* many, or 2.
LEMMA ZoomIs ==
    ASSUME NEW svc
    PROVE  IsZoom(svc, ZoomFrom(svc), MAX_ZOOM)
<1> USE TilesAssumption
<1> DEFINE V == 2..MAX_ZOOM
           n == MAX_ZOOM - 2
           next == [i \in 1..n |-> [v \in V |-> IF Fits(svc, i + 2) THEN i + 2 ELSE v]]
           body(h) == [z \in V |-> IF z = 2 \/ TileCount(TilesAt(svc, z)) <= svc.maxTiles
                                   THEN z ELSE h[z - 1]]
           zoom == CHOOSE h : h = body(h)
<1>1. n \in Nat /\ 2 \in V /\ next \in [1..n -> [V -> V]] OBVIOUS
<1>2. PICK f : Unfolds(V, 2, next, n, f)
  <2> HIDE DEF V, n, next
  <2> QED BY <1>1, Recursion
<1> DEFINE g == [z \in V |-> f[z - 2]]
<1>3. \E h : h = body(h)
  <2>1. ASSUME NEW z \in V PROVE g[z] = body(g)[z]
    <3>1. CASE z = 2 BY <1>2, <3>1 DEF Unfolds
    <3>2. CASE z # 2
      <4>1. z - 2 \in 1..n /\ z - 1 \in V /\ (z - 1) - 2 = (z - 2) - 1 /\ (z - 2) + 2 = z
        BY <3>2
      <4>2. f[z - 2] = next[z - 2][f[(z - 2) - 1]] BY <1>2, <4>1 DEF Unfolds
      <4>3. f[(z - 2) - 1] \in V BY <1>2, <4>1 DEF Unfolds
      <4>4. g[z] = IF Fits(svc, z) THEN z ELSE g[z - 1] BY <4>1, <4>2, <4>3
      <4> HIDE DEF g
      <4> QED BY <3>2, <4>4 DEF Fits
    <3> QED BY <3>1, <3>2
  <2>2. g = [z \in V |-> g[z]] /\ body(g) = [z \in V |-> body(g)[z]] OBVIOUS
  <2> HIDE DEF g, body
  <2>3. g = body(g) BY <2>1, <2>2
  <2> QED BY <2>3
<1>4. zoom = body(zoom) BY <1>3
<1>5. ZoomFrom(svc) = zoom[MAX_ZOOM] BY Zenon DEF ZoomFrom
<1> HIDE DEF zoom
<1>6. \A z \in V : zoom[z] = IF z = 2 \/ Fits(svc, z) THEN z ELSE zoom[z - 1]
  <2>1. \A z \in V : zoom[z] = body(zoom)[z] BY <1>4
  <2> QED BY <2>1 DEF Fits
<1> DEFINE T == {i \in Nat : i + 2 <= MAX_ZOOM => IsZoom(svc, zoom[i + 2], i + 2)}
<1>7. 0 \in T BY <1>6 DEF IsZoom
<1>8. ASSUME NEW i \in Nat, i \in T PROVE i + 1 \in T
  <2> DEFINE z == i + 3
  <2> SUFFICES ASSUME z <= MAX_ZOOM PROVE IsZoom(svc, zoom[z], z) OBVIOUS
  <2>1. z \in V /\ z # 2 /\ z - 1 = i + 2 OBVIOUS
  <2>2. IsZoom(svc, zoom[z - 1], z - 1) BY <1>8, <2>1
  <2> HIDE DEF z
  <2>3. CASE Fits(svc, z)
    <3>1. zoom[z] = z BY <1>6, <2>1, <2>3
    <3> QED BY <2>1, <2>3, <3>1 DEF IsZoom
  <2>4. CASE ~Fits(svc, z)
    <3>1. zoom[z] = zoom[z - 1] BY <1>6, <2>1, <2>4
    <3> QED BY <2>1, <2>2, <2>4, <3>1 DEF IsZoom
  <2> QED BY <2>3, <2>4
<1> HIDE DEF T
<1>9. Nat \subseteq T BY <1>7, <1>8, NatInduct
<1>10. n \in T /\ n + 2 = MAX_ZOOM BY <1>9
<1> QED BY <1>5, <1>10 DEF T

\* AprsSvcCalcOSMTiles takes the highest zoom that will do: at each higher one any
\* tiles that hold the box with its margins are too many.
THEOREM ClosestZoom ==
    ASSUME NEW svc, IsBox(svc), Margins(svc), svc.maxTiles \in Nat
    PROVE  LET zoom == ZoomFrom(svc) IN
           /\ zoom \in 2..MAX_ZOOM
           /\ TileCount(TilesAt(svc, zoom)) <= svc.maxTiles \/ zoom = 2
           /\ \A z \in (zoom + 1)..MAX_ZOOM : \A t :
                IsTiles(t) /\ Hold(t, svc, z) => TileCount(t) > svc.maxTiles
<1> DEFINE zoom == ZoomFrom(svc)
<1>1. IsZoom(svc, zoom, MAX_ZOOM) BY ZoomIs
<1> HIDE DEF zoom
<1>2. zoom \in 2..MAX_ZOOM /\ (zoom = 2 \/ Fits(svc, zoom)) BY <1>1 DEF IsZoom
<1>3. ASSUME NEW z \in (zoom + 1)..MAX_ZOOM, NEW t, IsTiles(t), Hold(t, svc, z)
      PROVE  TileCount(t) > svc.maxTiles
  <2> DEFINE least == TileCount(TilesAt(svc, z))
  <2>1. z \in 0..MAX_ZOOM BY <1>2, TilesAssumption
  <2>2. least \in Nat /\ least <= TileCount(t) BY <1>3, <2>1, FewestTiles
  <2>3. ~(least <= svc.maxTiles) BY <1>1 DEF IsZoom, Fits
  <2>4. TileCount(t) \in Int BY <1>3 DEF TileCount, IsTiles
  <2> HIDE DEF least
  <2> QED BY <2>2, <2>3, <2>4
<1> QED BY <1>2, <1>3 DEF Fits, zoom

\* What the service is asked for, with the box of the packets shown.
Asked ==
    [min : Point, max : Point, zoom : Nat, maxTiles : Nat,
     left : Nat, right : Nat, top : Nat, bottom : Nat]

\* A map that holds a box with its margins holds each point of it with them.
LEMMA HoldInside ==
    ASSUME NEW svc \in Asked, IsBox(svc), NEW zoom \in 0..MAX_ZOOM,
           NEW t, IsTiles(t), Hold(t, svc, zoom), NEW p \in Point, In(p, svc)
    PROVE  Hold(t, [svc EXCEPT !.min = p, !.max = p], zoom)
<1> DEFINE pixel == Pixel(zoom)
           size == TileSize * pixel
           left == svc.left * pixel
           right == svc.right * pixel
           top == svc.top * pixel
           bottom == svc.bottom * pixel
           one == [svc EXCEPT !.min = p, !.max = p]
<1>1. pixel \in Nat \ {0} BY PowerOfTwo, TilesAssumption DEF Pixel
<1>2. size \in Nat /\ left \in Nat /\ right \in Nat /\ top \in Nat /\ bottom \in Nat
  BY <1>1, TilesAssumption DEF Asked
<1> DEFINE west == t.startX * size
           east == (t.endX + 1) * size
           north == t.startY * size
           south == (t.endY + 1) * size
<1>3. west \in Nat /\ east \in Nat /\ north \in Nat /\ south \in Nat
  <2>1. \A a, b \in Nat : a * b \in Nat OBVIOUS
  <2>2. t.startX \in Nat /\ t.endX + 1 \in Nat /\ t.startY \in Nat /\ t.endY + 1 \in Nat
    BY DEF IsTiles
  <2> HIDE DEF size
  <2> QED BY <1>2, <2>1, <2>2
<1>4. /\ t.startX = 0 \/ west + left <= svc.min.x
      /\ svc.max.x < east /\ svc.max.x + right <= east
      /\ t.startY = 0 \/ north + top <= svc.max.y
      /\ svc.min.y < south /\ svc.min.y + bottom <= south
  BY DEF Hold
<1>5. /\ p.x \in Nat /\ p.y \in Nat
      /\ svc.min.x \in Nat /\ svc.min.y \in Nat /\ svc.max.x \in Nat /\ svc.max.y \in Nat
      /\ svc.min.x <= p.x /\ p.x <= svc.max.x /\ svc.max.y <= p.y /\ p.y <= svc.min.y
  BY DEF IsBox, In, Point
<1> HIDE DEF pixel, size, left, right, top, bottom, west, east, north, south
<1>6. /\ t.startX = 0 \/ west + left <= p.x
      /\ p.x < east /\ p.x + right <= east
      /\ t.startY = 0 \/ north + top <= p.y
      /\ p.y < south /\ p.y + bottom <= south
  BY <1>2, <1>3, <1>4, <1>5
<1>7. Hold(t, one, zoom) =
        (/\ t.startX = 0 \/ west + left <= p.x
         /\ p.x < east /\ p.x + right <= east
         /\ t.startY = 0 \/ north + top <= p.y
         /\ p.y < south /\ p.y + bottom <= south)
  BY DEF Asked, Hold, pixel, size, left, right, top, bottom, west, east, north, south
<1> QED BY <1>6, <1>7

-----------------------------------------------------------------------------
(* Counting.                                                               *)

\* Every subset of a finite set is in S, if each is that has all its own subsets with
\* one element less in S.
LEMMA SetInduct ==
    ASSUME NEW D, IsFiniteSet(D), NEW S,
           \A s \in SUBSET D : (\A x \in s : s \ {x} \in S) => s \in S
    PROVE  SUBSET D \subseteq S
<1> SUFFICES ASSUME NEW u \in SUBSET D, u \notin S PROVE FALSE OBVIOUS
<1> DEFINE T == (SUBSET D) \ S
<1>1. IsWellFoundedOn(StrictSubsetOrdering(D), FiniteSubsetsOf(D))
  BY FS_StrictSubsetOrderingWellFounded
<1>2. T \subseteq FiniteSubsetsOf(D) /\ T # {}
  <2>1. \A s \in SUBSET D : IsFiniteSet(s) BY FS_Subset
  <2>2. T \subseteq FiniteSubsetsOf(D) BY <2>1 DEF FiniteSubsetsOf
  <2> QED BY <2>2
<1>3. PICK s \in T : \A y \in T : ~(<<y, s>> \in StrictSubsetOrdering(D))
  BY <1>1, <1>2, WFMin
<1>4. PICK x \in s : s \ {x} \notin S OBVIOUS
<1>5. s \ {x} \in SUBSET D /\ s \ {x} \subseteq s /\ s \ {x} # s BY <1>4
<1>6. <<s \ {x}, s>> \in StrictSubsetOrdering(D) BY <1>5 DEF StrictSubsetOrdering
<1>7. s \ {x} \in S BY <1>3, <1>5, <1>6
<1> QED BY <1>4, <1>7

\* What is counted for each of a set of keys adds up to what is counted for one of
\* them.
LEMMA SumOfCounts ==
    ASSUME NEW R, IsFiniteSet(R), NEW D, IsFiniteSet(D), NEW key, NEW f,
           f = [g \in D |-> Cardinality({i \in R : key[i] = g})]
    PROVE  Sum(f) = Cardinality({i \in R : key[i] \in D})
<1> DEFINE of(s) == Cardinality({i \in R : key[i] \in s})
           body(h) == [s \in SUBSET D |->
                         IF s = {} THEN 0
                         ELSE LET x == CHOOSE x \in s : TRUE IN f[x] + h[s \ {x}]]
           iter == CHOOSE h : h = body(h)
           g == [s \in SUBSET D |-> of(s)]
<1>1. DOMAIN f = D /\ \A x \in D : f[x] = Cardinality({i \in R : key[i] = x}) OBVIOUS
<1>2. Sum(f) = iter[D]
  <2>1. Sum(f) = LET h == CHOOSE h : h = [s \in SUBSET DOMAIN f |->
                                   IF s = {} THEN 0
                                   ELSE LET x == CHOOSE x \in s : TRUE IN f[x] + h[s \ {x}]]
                 IN  h[DOMAIN f]
    BY Zenon DEF Sum, FoldFunction, FoldFunctionOnSet, MapThenFoldSet
  <2> QED BY <1>1, <2>1, Zenon
<1>3. of({}) = 0
  <2>1. {i \in R : key[i] \in {}} = {} OBVIOUS
  <2> QED BY <2>1, FS_EmptySet
<1>4. ASSUME NEW s \in SUBSET D, NEW x \in s
      PROVE  of(s) = f[x] + of(s \ {x})
  <2> DEFINE one == {i \in R : key[i] = x}
             rest == {i \in R : key[i] \in s \ {x}}
  <2>1. IsFiniteSet(one) /\ IsFiniteSet(rest) BY FS_Subset
  <2>2. one \cap rest = {} /\ {i \in R : key[i] \in s} = one \cup rest OBVIOUS
  <2>3. f[x] = Cardinality(one) BY <1>1
  <2> HIDE DEF one, rest
  <2>4. Cardinality(one \cup rest) = Cardinality(one) + Cardinality(rest) - Cardinality({})
    BY <2>1, <2>2, FS_Union
  <2>5. Cardinality(one) \in Nat /\ Cardinality(rest) \in Nat /\ Cardinality({}) = 0
    BY <2>1, FS_CardinalityType, FS_EmptySet
  <2>6. Cardinality(one \cup rest) = Cardinality(one) + Cardinality(rest) BY <2>4, <2>5
  <2> QED BY <2>2, <2>3, <2>6 DEF rest
<1> HIDE DEF of
<1>5. g = body(g)
  <2>1. ASSUME NEW s \in SUBSET D PROVE g[s] = body(g)[s]
    <3>1. CASE s = {} BY <1>3, <3>1
    <3>2. CASE s # {}
      <4> DEFINE x == CHOOSE x \in s : TRUE
      <4>1. x \in s BY <3>2
      <4>2. body(g)[s] = f[x] + g[s \ {x}] BY <3>2
      <4> HIDE DEF x
      <4>3. s \ {x} \in SUBSET D OBVIOUS
      <4> QED BY <1>4, <4>1, <4>2, <4>3
    <3> QED BY <3>1, <3>2
  <2> HIDE DEF body
  <2>2. DOMAIN body(g) = SUBSET D BY DEF body
  <2>3. body(g) = [s \in SUBSET D |-> body(g)[s]] BY DEF body
  <2> QED BY <2>1, <2>3
<1>6. iter = body(iter) BY <1>5
<1> HIDE DEF iter, g
<1>7. iter[{}] = 0 /\ \A s \in SUBSET D : s # {} =>
        \E x \in s : iter[s] = f[x] + iter[s \ {x}]
  <2>1. \A s \in SUBSET D : iter[s] = body(iter)[s] BY <1>6
  <2> QED BY <2>1
<1> HIDE DEF body
<1> DEFINE S == {s \in SUBSET D : iter[s] = of(s)}
<1>8. ASSUME NEW s \in SUBSET D, \A x \in s : s \ {x} \in S PROVE s \in S
  <2>1. CASE s = {} BY <1>3, <1>7, <2>1
  <2>2. CASE s # {}
    <3>1. PICK x \in s : iter[s] = f[x] + iter[s \ {x}] BY <1>7, <2>2
    <3>2. iter[s \ {x}] = of(s \ {x}) BY <1>8
    <3> QED BY <1>4, <3>1, <3>2
  <2> QED BY <2>1, <2>2
<1> HIDE DEF S
<1>9. SUBSET D \subseteq S BY <1>8, SetInduct
<1>10. iter[D] = of(D) BY <1>9 DEF S
<1> QED BY <1>2, <1>10 DEF of

\* A finite set of times has a first one.
LEMMA HasFirst ==
    ASSUME NEW Q \in SUBSET Nat, Q # {}
    PROVE  Min(Q) \in Q /\ \A t \in Q : Min(Q) <= t
<1>1. PICK m \in Q : \A t \in Q : ~(<<t, m>> \in OpToRel(<, Nat))
  BY NatLessThanWellFounded, WFMin
<1>2. ASSUME NEW t \in Q PROVE m <= t
  <2>1. t < m => <<t, m>> \in OpToRel(<, Nat) BY DEF OpToRel
  <2>2. ~(t < m) BY <1>1, <2>1
  <2>3. t \in Nat /\ m \in Nat OBVIOUS
  <2> QED BY <2>2, <2>3
<1> QED BY <1>2 DEF Min

\* So it has a last one.
LEMMA HasLast ==
    ASSUME NEW Q \in SUBSET Int, IsFiniteSet(Q), Q # {}
    PROVE  \E i \in Q : \A j \in Q : j <= i
<1> DEFINE S == {T \in SUBSET Q : T # {} => \E i \in T : \A j \in T : j <= i}
<1>1. ASSUME NEW T \in SUBSET Q, \A x \in T : T \ {x} \in S PROVE T \in S
  <2> SUFFICES ASSUME NEW x \in T PROVE \E i \in T : \A j \in T : j <= i OBVIOUS
  <2>1. CASE T \ {x} = {}
    <3>1. \A j \in T : j = x BY <2>1
    <3> QED BY <3>1
  <2>2. CASE T \ {x} # {}
    <3>1. PICK i \in T \ {x} : \A j \in T \ {x} : j <= i BY <1>1, <2>2
    <3>2. i \in Int /\ x \in Int OBVIOUS
    <3>3. CASE i <= x
      <4>1. \A j \in T : j <= x BY <3>1, <3>2, <3>3
      <4> QED BY <4>1
    <3>4. CASE ~(i <= x)
      <4>1. \A j \in T : j <= i BY <3>1, <3>2, <3>4
      <4> QED BY <4>1
    <3> QED BY <3>3, <3>4
  <2> QED BY <2>1, <2>2
<1> HIDE DEF S
<1>2. SUBSET Q \subseteq S BY <1>1, SetInduct
<1> QED BY <1>2 DEF S

\* It is Max.
LEMMA MaxIs ==
    ASSUME NEW Q \in SUBSET Nat, IsFiniteSet(Q), Q # {}
    PROVE  Max(Q) \in Q /\ \A t \in Q : t <= Max(Q)
<1>1. PICK m \in Q : \A t \in Q : t <= m BY HasLast
<1>2. \A t \in Q : m >= t BY <1>1
<1>3. Max(Q) \in Q /\ \A t \in Q : Max(Q) >= t BY <1>2 DEF Max
<1> QED BY <1>3

\* The bucket of a time.
BucketOf(t, b) == (t \div b) * b

\* Of all buckets, only its own holds a time.
LEMMA OneBucket ==
    ASSUME NEW b \in Nat \ {0}, NEW t \in Nat
    PROVE  /\ BucketOf(t, b) \in Nat
           /\ BucketOf(t, b) <= t /\ t < BucketOf(t, b) + b
           /\ BucketOf(t, b) % b = 0
           /\ \A c \in Nat : c % b = 0 /\ c <= t /\ t < c + b => c = BucketOf(t, b)
<1> DEFINE k == t \div b
<1>1. k \in Nat /\ k * b <= t /\ t < (k + 1) * b BY InTile
<1>2. BucketOf(t, b) = k * b BY DEF BucketOf
<1> HIDE DEF k
<1>3. \A q \in Nat : q * b \in Nat /\ (q + 1) * b = q * b + b OBVIOUS
<1>4. (k * b) % b = 0 BY <1>1, SMT
<1>5. ASSUME NEW c \in Nat, c % b = 0, c <= t, t < c + b PROVE c = k * b
  <2> DEFINE q == c \div b
  <2>1. q \in Nat /\ c = q * b BY <1>5, SMT
  <2> HIDE DEF q
  <2>2. ASSUME q < k PROVE FALSE
    <3>1. (q + 1) * b <= k * b BY <1>1, <2>1, <2>2, SMT
    <3> QED BY <1>1, <1>3, <1>5, <2>1, <3>1
  <2>3. ASSUME k < q PROVE FALSE
    <3>1. (k + 1) * b <= q * b BY <1>1, <2>1, <2>3, SMT
    <3> QED BY <1>1, <1>3, <1>5, <2>1, <3>1
  <2>4. q = k BY <1>1, <2>1, <2>2, <2>3
  <2> QED BY <2>1, <2>4
<1> QED BY <1>1, <1>2, <1>3, <1>4, <1>5

\* Buckets are in the order of their times.
LEMMA BucketsInOrder ==
    ASSUME NEW b \in Nat \ {0}, NEW s \in Nat, NEW t \in Nat, s <= t
    PROVE  BucketOf(s, b) <= BucketOf(t, b)
<1> DEFINE j == s \div b
           k == t \div b
<1>1. j \in Nat /\ k \in Nat BY InTile
<1>2. j <= k BY TilesInOrder
<1> HIDE DEF j, k
<1>3. j * b <= k * b BY <1>1, <1>2, SMT
<1> QED BY <1>3 DEF BucketOf, j, k

\* The end is not after the last bucket there is room for.
LEMMA RoundedUp ==
    ASSUME NEW b \in Nat \ {0}, NEW end \in Nat
    PROVE  ((end + b - 1) \div b) * b \in Nat /\ end <= ((end + b - 1) \div b) * b
<1> DEFINE m == end + b - 1
           k == m \div b
<1>1. m \in Nat OBVIOUS
<1> HIDE DEF m
<1>2. k \in Nat /\ m < (k + 1) * b BY <1>1, InTile
<1> HIDE DEF k
<1>3. (k + 1) * b = k * b + b /\ k * b \in Nat BY <1>2
<1> QED BY <1>2, <1>3 DEF m, k

\* The times of a set of packets, counted by bucket: there is a bucket for each
\* moment asked for.
LEMMA BucketsAreAll ==
    ASSUME NEW svc, svc.bucket \in Nat \ {0}, svc.start \in Nat, svc.end \in Nat,
           NEW times \in SUBSET Nat, IsFiniteSet(times),
           NEW full, full = {BucketOf(t, svc.bucket) : t \in times}, IsFiniteSet(full),
           NEW rates,
           (full # {} \/ svc.start > 1) /\ (full # {} \/ svc.end > 1)
               => DOMAIN rates = full \cup Empties(svc, full)
    PROVE  BucketsCover(svc, rates, times)
<1> DEFINE b == svc.bucket
           from == IF svc.start > 1 THEN {svc.start} ELSE times
           to == IF svc.end > 1 THEN {svc.end - 1} ELSE times
           starts == (IF svc.start > 1 THEN {svc.start} ELSE {}) \cup full
           ends == (IF svc.end > 1 THEN {svc.end} ELSE {}) \cup full
           start == Min(starts)
           end == Max(ends)
           D == DOMAIN rates
<1> SUFFICES ASSUME from # {}, to # {}, NEW t \in Min(from)..Max(to)
             PROVE  Cardinality({c \in D : c <= t /\ t < c + b}) = 1
  BY Zenon DEF BucketsCover
<1>1. \A s \in times : /\ BucketOf(s, b) \in full /\ BucketOf(s, b) \in Nat
                       /\ BucketOf(s, b) <= s /\ BucketOf(s, b) % b = 0
  BY OneBucket
<1>2. full \in SUBSET Nat /\ \A c \in full : c % b = 0 BY <1>1
<1>3. (full # {} \/ svc.start > 1) /\ (full # {} \/ svc.end > 1) BY <1>1
<1>4. D = full \cup Empties(svc, full) BY <1>3
<1>5. /\ from \in SUBSET Nat /\ from # {} /\ to \in SUBSET Nat /\ to # {} /\ IsFiniteSet(to)
  <2>1. from \in SUBSET Nat /\ to \in SUBSET Nat OBVIOUS
  <2>2. IsFiniteSet({svc.end - 1}) BY FS_Singleton
  <2>3. IsFiniteSet(to) BY <2>2
  <2> HIDE DEF from, to
  <2> QED BY <2>1, <2>3
<1>6. Min(from) \in from /\ Max(to) \in to
  <2> HIDE DEF from, to
  <2> QED BY <1>5, HasFirst, MaxIs
<1>7. t \in Nat /\ Min(from) <= t /\ t <= Max(to)
  <2>1. Min(from) \in Nat /\ Max(to) \in Nat /\ t \in Min(from)..Max(to) BY <1>5, <1>6
  <2> HIDE DEF from, to
  <2> QED BY <2>1
<1>8. starts \in SUBSET Nat /\ starts # {} BY <1>2, <1>3
<1>9. ends \in SUBSET Nat /\ ends # {} /\ IsFiniteSet(ends)
  <2>1. IsFiniteSet(IF svc.end > 1 THEN {svc.end} ELSE {}) BY FS_Singleton, FS_EmptySet
  <2>2. IsFiniteSet(ends) BY <2>1, FS_Union
  <2> QED BY <1>2, <1>3, <2>2
<1>10. start \in starts /\ \A s \in starts : start <= s
  <2> HIDE DEF starts
  <2> QED BY <1>8, HasFirst
<1>11. end \in ends /\ \A s \in ends : s <= end
  <2> HIDE DEF ends
  <2> QED BY <1>9, MaxIs
<1> HIDE DEF start, end
<1>12. start \in Nat /\ end \in Nat BY <1>8, <1>9, <1>10, <1>11
<1>13. start <= t
  <2>1. CASE svc.start > 1
    <3>1. Min(from) = svc.start BY <1>6, <2>1
    <3> QED BY <1>7, <1>10, <1>12, <2>1, <3>1
  <2>2. CASE ~(svc.start > 1)
    <3>1. Min(from) \in times BY <1>6, <2>2
    <3> DEFINE first == BucketOf(Min(from), b)
    <3>2. first \in starts /\ first \in Nat /\ first <= Min(from) BY <1>1, <3>1
    <3>3. start <= first /\ Min(from) \in Nat BY <1>10, <3>1, <3>2
    <3> HIDE DEF first
    <3> QED BY <1>7, <1>12, <3>2, <3>3
  <2> QED BY <2>1, <2>2
<1> DEFINE c == BucketOf(t, b)
<1>14. /\ c \in Nat /\ c <= t /\ t < c + b /\ c % b = 0
       /\ \A d \in Nat : d % b = 0 /\ d <= t /\ t < d + b => d = c
  BY <1>7, OneBucket
<1>15. c \in full \/ c < end
  <2>1. CASE svc.end > 1
    <3>1. Max(to) = svc.end - 1 /\ svc.end <= end BY <1>6, <1>11, <2>1
    <3> HIDE DEF c
    <3> QED BY <1>7, <1>12, <1>14, <3>1
  <2>2. CASE ~(svc.end > 1)
    <3>1. Max(to) \in times /\ end \in full BY <1>6, <1>11, <2>2
    <3> DEFINE final == BucketOf(Max(to), b)
    <3>2. final \in ends /\ final \in Nat BY <1>1, <3>1
    <3>3. Max(to) \in Nat BY <3>1
    <3>4. c <= final BY <1>7, <3>3, BucketsInOrder
    <3>5. final <= end BY <1>11, <3>2
    <3> HIDE DEF c, final
    <3>6. c <= end BY <1>12, <1>14, <3>2, <3>4, <3>5
    <3> QED BY <1>12, <1>14, <3>1, <3>6
  <2> QED BY <2>1, <2>2
<1>16. c \in D
  <2>1. CASE c \in full BY <1>4, <2>1
  <2>2. CASE c \notin full
    <3> DEFINE roof == ((end + b - 1) \div b) * b
    <3>1. BucketOf(start, b) \in Nat /\ BucketOf(start, b) <= c
      BY <1>7, <1>12, <1>13, OneBucket, BucketsInOrder
    <3>2. roof \in Nat /\ end <= roof BY <1>12, RoundedUp
    <3>3. c < end BY <1>15, <2>2
    <3> HIDE DEF c, roof
    <3>4. c \in BucketOf(start, b)..(end - 1) /\ c % b = 0 /\ c < roof
      BY <1>12, <1>14, <3>1, <3>2, <3>3
    <3>5. c \in Empties(svc, full) BY <2>2, <3>4 DEF Empties, BucketOf, start, end, roof
    <3> QED BY <1>4, <3>5
  <2> QED BY <2>1, <2>2
<1>17. \A d \in D : d \in Nat /\ d % b = 0
  <2>1. ASSUME NEW d \in Empties(svc, full) PROVE d \in Nat /\ d % b = 0
    <3>1. BucketOf(start, b) \in Nat BY <1>12, OneBucket
    <3>2. d \in BucketOf(start, b)..(end - 1) /\ d % b = 0
      BY DEF Empties, BucketOf, start, end
    <3> QED BY <1>12, <3>1, <3>2
  <2> QED BY <1>2, <1>4, <2>1
<1> HIDE DEF c, D
<1>18. {d \in D : d <= t /\ t < d + b} = {c} BY <1>14, <1>16, <1>17
<1> QED BY <1>18, FS_Singleton

\* What a function makes of a finite set is finite.
LEMMA ImageIsFinite ==
    ASSUME NEW R, IsFiniteSet(R), NEW f, DOMAIN f = R, NEW T, T = {f[i] : i \in R}
    PROVE  IsFiniteSet(T)
<1> DEFINE g == [i \in R |-> f[i]]
<1>1. g \in Surjection(R, T) BY DEF Surjection
<1> QED BY <1>1, FS_Surjection

\* How many of R a function takes to each of its values.
Tally(R, f) == [g \in {f[i] : i \in R} |-> Cardinality({i \in R : f[i] = g})]

\* So all of R are counted once.
LEMMA AllAreCounted ==
    ASSUME NEW R, IsFiniteSet(R), NEW f, DOMAIN f = R
    PROVE  Sum(Tally(R, f)) = Cardinality(R)
<1> DEFINE T == {f[i] : i \in R}
           counts == Tally(R, f)
<1>1. counts = [g \in T |-> Cardinality({i \in R : f[i] = g})] BY DEF Tally
<1>2. {i \in R : f[i] \in T} = R OBVIOUS
<1> HIDE DEF counts
<1>3. IsFiniteSet(T) BY ImageIsFinite
<1> HIDE DEF T
<1>4. Sum(counts) = Cardinality({i \in R : f[i] \in T}) BY <1>1, <1>3, SumOfCounts
<1> QED BY <1>2, <1>4 DEF counts

\* There are not infinitely many empty buckets.
LEMMA EmptiesAreFinite ==
    ASSUME NEW svc, svc.bucket \in Nat \ {0}, svc.start \in Nat, svc.end \in Nat,
           NEW full \in SUBSET Nat, IsFiniteSet(full),
           full # {} \/ svc.start > 1, full # {} \/ svc.end > 1
    PROVE  IsFiniteSet(Empties(svc, full))
<1> DEFINE b == svc.bucket
           starts == (IF svc.start > 1 THEN {svc.start} ELSE {}) \cup full
           ends == (IF svc.end > 1 THEN {svc.end} ELSE {}) \cup full
           start == Min(starts)
           end == Max(ends)
           low == BucketOf(start, b)
<1>1. start \in Nat
  <2>1. starts \in SUBSET Nat /\ starts # {} OBVIOUS
  <2> HIDE DEF starts
  <2> QED BY <2>1, HasFirst
<1>2. end \in Nat
  <2>1. IsFiniteSet(IF svc.end > 1 THEN {svc.end} ELSE {}) BY FS_Singleton, FS_EmptySet
  <2>2. ends \in SUBSET Nat /\ ends # {} /\ IsFiniteSet(ends) BY <2>1, FS_Union
  <2> HIDE DEF ends
  <2> QED BY <2>2, MaxIs
<1> HIDE DEF start, end
<1>3. low \in Nat BY <1>1, OneBucket
<1>4. Empties(svc, full) \subseteq low..(end - 1) BY DEF Empties, BucketOf, start, end
<1> HIDE DEF low
<1>5. IsFiniteSet(low..(end - 1)) BY <1>2, <1>3, FS_Interval
<1> QED BY <1>4, <1>5, FS_Subset

-----------------------------------------------------------------------------
(* The box around a set of places.                                         *)

\* The coordinates 0, 0 are a place of the map.
LEMMA ZeroType == Zero \in Point
<1>1. MAX_ZOOM - 1 \in Nat BY TilesAssumption
<1>2. 2^(MAX_ZOOM - 1) \in Nat \ {0} BY <1>1, PowerOfTwo
<1>3. TileSize * 2^(MAX_ZOOM - 1) \in Nat BY <1>2, TilesAssumption
<1> QED BY <1>3 DEF Zero, Point

Box == {box \in [min : Point, max : Point] : IsBox(box)}

\* Whatever is put in a box, its corners are the right way round.
LEMMA BoxType ==
    ASSUME NEW box \in Box, NEW where \in Point \cup {NoCoord}
    PROVE  Around(box, where) \in Box
<1>1. CASE where = NoCoord BY <1>1 DEF Around
<1>2. CASE where # NoCoord
  <2> DEFINE p == where
  <2>1. p \in Point /\ Around(box, where) = AprsBoundingBox(box, p) BY <1>2 DEF Around
  <2> HIDE DEF p
  <2>2. /\ p.x \in Nat /\ p.y \in Nat
        /\ box.min.x \in Nat /\ box.min.y \in Nat /\ box.max.x \in Nat /\ box.max.y \in Nat
        /\ box.min.x <= box.max.x /\ box.max.y <= box.min.y
    BY <2>1 DEF Box, IsBox, Point
  <2>3. CASE p = Zero BY <2>1, <2>3 DEF AprsBoundingBox
  <2>4. CASE p # Zero
    <3> DEFINE new == AprsBoundingBox(box, p)
    <3>1. new = [min |-> IF box.min = Zero THEN p
                         ELSE [x |-> Lower(p.x, box.min.x), y |-> Higher(p.y, box.min.y)],
                 max |-> IF box.max = Zero THEN p
                         ELSE [x |-> Higher(p.x, box.max.x), y |-> Lower(p.y, box.max.y)]]
      BY <2>4 DEF AprsBoundingBox
    <3>2. new.min \in Point /\ new.min.x <= p.x /\ p.y <= new.min.y
          /\ (box.min = Zero \/ (new.min.x <= box.min.x /\ box.min.y <= new.min.y))
      BY <2>1, <2>2, <3>1 DEF Point, Lower, Higher
    <3>3. new.max \in Point /\ p.x <= new.max.x /\ new.max.y <= p.y
          /\ (box.max = Zero \/ (box.max.x <= new.max.x /\ new.max.y <= box.max.y))
      BY <2>1, <2>2, <3>1 DEF Point, Lower, Higher
    <3>4. new \in [min : Point, max : Point] BY <3>1, <3>2, <3>3
    <3> HIDE DEF new
    <3>5. new.min.x <= new.max.x /\ new.max.y <= new.min.y
      BY <2>2, <3>2, <3>3 DEF Point
    <3> QED BY <2>1, <3>2, <3>3, <3>4, <3>5 DEF Box, IsBox, new
  <2> QED BY <2>3, <2>4
<1> QED BY <1>1, <1>2

\* No place of P is on the equator, or none is on the meridian of Greenwich.
OffZero(P) == \A p, q \in P : p.x # Zero.x \/ q.y # Zero.y

\* A box that holds the places S, with corners made of the coordinates of P.
BoxHolds(box, S, P) ==
    /\ S = {} => box = NoBox
    /\ S # {} => /\ IsBox(box)
                 /\ \E p, q \in P : box.min = [x |-> p.x, y |-> q.y]
                 /\ \E p, q \in P : box.max = [x |-> p.x, y |-> q.y]
                 /\ \A p \in S : In(p, box)

\* A corner made of such places is not taken for one that is not set.
LEMMA CornerIsSet ==
    ASSUME NEW P, OffZero(P), NEW p \in P, NEW q \in P
    PROVE  [x |-> p.x, y |-> q.y] # Zero
BY DEF OffZero, Zero

\* A box holds what was put in it.
LEMMA BoxTakes ==
    ASSUME NEW P \in SUBSET Point, OffZero(P), NEW S \in SUBSET P,
           NEW box, BoxHolds(box, S, P), NEW p \in P
    PROVE  BoxHolds(AprsBoundingBox(box, p), S \cup {p}, P)
<1> DEFINE new == AprsBoundingBox(box, p)
<1>1. p \in Point /\ p = [x |-> p.x, y |-> p.y] /\ p.x \in Nat /\ p.y \in Nat BY DEF Point
<1>2. p # Zero BY <1>1, CornerIsSet
<1>3. box = NoBox \/ (IsBox(box) /\ box.min # Zero /\ box.max # Zero)
  BY CornerIsSet DEF BoxHolds
<1>4. IsBox(new) /\ In(p, new) /\ (box # NoBox => \A q \in Point : In(q, box) => In(q, new))
  BY <1>1, <1>2, <1>3, BoxGrows
<1>5. CASE S = {}
  <2>1. new = [min |-> p, max |-> p] BY <1>2, <1>5 DEF BoxHolds, NoBox, AprsBoundingBox
  <2> HIDE DEF new
  <2>2. new.min = [x |-> p.x, y |-> p.y] /\ new.max = [x |-> p.x, y |-> p.y] BY <1>1, <2>1
  <2> QED BY <1>4, <1>5, <2>2 DEF BoxHolds, new
<1>6. CASE S # {}
  <2>1. IsBox(box) /\ \A q \in S : In(q, box) BY <1>6 DEF BoxHolds
  <2>2. PICK a, b \in P : box.min = [x |-> a.x, y |-> b.y] BY <1>6 DEF BoxHolds
  <2>3. PICK c, d \in P : box.max = [x |-> c.x, y |-> d.y] BY <1>6 DEF BoxHolds
  <2>4. box.min # Zero /\ box.max # Zero BY <2>2, <2>3, CornerIsSet
  <2>5. box # NoBox BY <2>4 DEF NoBox
  <2>6. \A q \in S \cup {p} : In(q, new) BY <1>4, <2>1, <2>5
  <2>7. new = [min |-> [x |-> Lower(p.x, a.x), y |-> Higher(p.y, b.y)],
               max |-> [x |-> Higher(p.x, c.x), y |-> Lower(p.y, d.y)]]
    BY <1>2, <2>2, <2>3, <2>4 DEF AprsBoundingBox
  <2> HIDE DEF new
  <2>8. \A u, v \in P : (\E w \in P : Lower(u.x, v.x) = w.x) /\ (\E w \in P : Higher(u.x, v.x) = w.x)
                     /\ (\E w \in P : Lower(u.y, v.y) = w.y) /\ (\E w \in P : Higher(u.y, v.y) = w.y)
    BY DEF Lower, Higher
  <2>9. \E u, v \in P : new.min = [x |-> u.x, y |-> v.y]
    <3>1. PICK u \in P : Lower(p.x, a.x) = u.x BY <2>8
    <3>2. PICK v \in P : Higher(p.y, b.y) = v.y BY <2>8
    <3>3. new.min = [x |-> u.x, y |-> v.y] BY <2>7, <3>1, <3>2
    <3> QED BY <3>3
  <2>10. \E u, v \in P : new.max = [x |-> u.x, y |-> v.y]
    <3>1. PICK u \in P : Higher(p.x, c.x) = u.x BY <2>8
    <3>2. PICK v \in P : Lower(p.y, d.y) = v.y BY <2>8
    <3>3. new.max = [x |-> u.x, y |-> v.y] BY <2>7, <3>1, <3>2
    <3> QED BY <3>3
  <2> QED BY <1>4, <2>6, <2>9, <2>10 DEF BoxHolds, new
<1> QED BY <1>5, <1>6

\* So it is with a packet or gate that may have no position.
LEMMA BoxTakesIfPlaced ==
    ASSUME NEW P \in SUBSET Point, OffZero(P), NEW S \in SUBSET P,
           NEW box, BoxHolds(box, S, P), NEW where \in P \cup {NoCoord}
    PROVE  BoxHolds(Around(box, where), S \cup ({where} \ {NoCoord}), P)
<1>1. CASE where = NoCoord
  <2>1. S \cup ({where} \ {NoCoord}) = S BY <1>1
  <2> QED BY <1>1, <2>1 DEF Around
<1>2. CASE where # NoCoord
  <2>1. S \cup ({where} \ {NoCoord}) = S \cup {where} /\ where \in P BY <1>2
  <2> QED BY <1>2, <2>1, BoxTakes DEF Around
<1> QED BY <1>1, <1>2

-----------------------------------------------------------------------------
(* The path of a packet.                                                   *)

\* A function on 1..k is a sequence.
LEMMA FunctionIsSeq ==
    ASSUME NEW S, NEW k \in Nat, NEW f \in [1..k -> S]
    PROVE  f \in Seq(S)
OBVIOUS

\* A path keeps its source and destination.
LEMMA HopsType ==
    ASSUME NEW path \in Seq(Piece), NEW third \in Seq(Piece), Len(path) >= 2,
           third = <<>> \/ Len(third) = 2
    PROVE  Hops(path, third) \in Seq(Piece) /\ Len(Hops(path, third)) \in 2..MAX_HOPS
<1>1. CASE third = <<>>
  <2> DEFINE n == IF Len(path) < MAX_HOPS THEN Len(path) ELSE MAX_HOPS
  <2>1. n \in 2..Len(path) /\ n <= MAX_HOPS BY HopsAssumption
  <2>2. \A i \in 1..n : path[i] \in Piece BY <2>1, ElementOfSeq
  <2> HIDE DEF n
  <2>3. SubSeq(path, 1, n) \in Seq(Piece) /\ Len(SubSeq(path, 1, n)) = n
    BY <2>1, <2>2, SubSeqProperties
  <2> QED BY <1>1, <2>1, <2>3 DEF Hops, n
<1>2. CASE third # <<>>
  <2>1. Hops(path, third) = third BY <1>2, Zenon DEF Hops
  <2>2. Len(third) = 2 BY <1>2, Zenon
  <2> QED BY <2>1, <2>2, HopsAssumption
<1> QED BY <1>1, <1>2

\* The gate is one of the names of the path, or there is none.
LEMMA IGateType ==
    ASSUME NEW hops \in Seq(Piece)
    PROVE  IGate(hops) \in Name \cup {NoName}
<1> DEFINE Q == {i \in DOMAIN hops : hops[i].id \in KnownQ \cup OtherQ}
           q == CHOOSE i \in Q : \A j \in Q : j <= i
<1>1. CASE Q = {} \/ ~(q < Len(hops)) BY <1>1 DEF IGate
<1>2. CASE Q # {} /\ q < Len(hops)
  <2>1. Len(hops) \in Nat /\ DOMAIN hops = 1..Len(hops) BY LenProperties
  <2>2. \E i \in Q : \A j \in Q : j <= i
    <3>1. Q \in SUBSET (1..Len(hops)) BY <2>1
    <3>2. IsFiniteSet(1..Len(hops)) BY <2>1, FS_Interval
    <3>3. IsFiniteSet(Q) BY <3>1, <3>2, FS_Subset
    <3>4. Q \in SUBSET Int BY <3>1
    <3> HIDE DEF Q
    <3> QED BY <1>2, <3>3, <3>4, HasLast
  <2>3. q \in Q BY <2>2
  <2>4. q \in 1..Len(hops) BY <2>1, <2>3
  <2> HIDE DEF q
  <2>5. q + 1 \in 1..Len(hops) BY <1>2, <2>1, <2>4
  <2>6. hops[q + 1] \in Piece BY <2>5, ElementOfSeq
  <2> QED BY <2>6 DEF IGate, Piece, q
<1> QED BY <1>1, <1>2

\* A packet has a row for each of its hops but the destination.
LEMMA HopRowsType ==
    ASSUME NEW hops \in Seq(Piece), Len(hops) >= 2
    PROVE  /\ HopRows(hops) \in Seq(Piece)
           /\ DOMAIN HopRows(hops) = 1..(Len(hops) - 1)
<1>1. Len(hops) \in Nat BY LenProperties
<1>2. \A i \in 1..Len(hops) : hops[i] \in Piece BY ElementOfSeq
<1> DEFINE first == <<hops[1]>>
           rest == SubSeq(hops, 3, Len(hops))
           all == first \o rest
<1>3. first \in Seq(Piece) /\ Len(first) = 1 BY <1>1, <1>2
<1>4. rest \in Seq(Piece) /\ Len(rest) = Len(hops) - 2
  <2>1. \A i \in 3..Len(hops) : hops[i] \in Piece BY <1>1, <1>2
  <2>2. rest \in Seq(Piece) BY <1>1, <2>1, SubSeqProperties
  <2>3. Len(rest) = IF 3 <= Len(hops) THEN Len(hops) - 3 + 1 ELSE 0
    BY <1>1, <2>1, SubSeqProperties
  <2>4. \A n \in Nat : n >= 2 => (IF 3 <= n THEN n - 3 + 1 ELSE 0) = n - 2 OBVIOUS
  <2> HIDE DEF rest
  <2>5. (IF 3 <= Len(hops) THEN Len(hops) - 3 + 1 ELSE 0) = Len(hops) - 2 BY <1>1, <2>4
  <2> QED BY <2>2, <2>3, <2>5
<1> HIDE DEF first, rest
<1>5. all \in Seq(Piece) /\ Len(all) = Len(hops) - 1
  <2>1. all \in Seq(Piece) /\ Len(all) = Len(first) + Len(rest)
    BY <1>3, <1>4, ConcatProperties
  <2> QED BY <1>1, <1>3, <1>4, <2>1
<1>6. HopRows(hops) = Reverse(all) BY DEF HopRows, first, rest
<1> HIDE DEF all
<1>7. Reverse(all) = [i \in 1..Len(all) |-> all[(Len(all) - i) + 1]] BY DEF Reverse
<1>8. \A i \in 1..Len(all) : all[(Len(all) - i) + 1] \in Piece
  <2>1. Len(all) \in Nat BY <1>5, LenProperties
  <2>2. \A i \in 1..Len(all) : (Len(all) - i) + 1 \in 1..Len(all) BY <2>1
  <2> QED BY <1>5, <2>2, ElementOfSeq
<1>9. Reverse(all) \in [1..Len(all) -> Piece] BY <1>7, <1>8
<1>10. Reverse(all) \in Seq(Piece) /\ DOMAIN Reverse(all) = 1..Len(all)
  BY <1>1, <1>5, <1>9
<1> QED BY <1>5, <1>6, <1>10

\* Two sequences end with the second, if it is not empty.
LEMMA JoinedEnd ==
    ASSUME NEW S, NEW s1 \in Seq(S), NEW s2 \in Seq(S), Len(s2) # 0
    PROVE  (s1 \o s2)[Len(s1) + Len(s2)] = s2[Len(s2)]
<1> DEFINE m == Len(s1)
           n == Len(s2)
           s == s1 \o s2
<1>1. m \in Nat /\ n \in Nat BY LenProperties
<1>2. \A i \in 1..(m + n) : s[i] = IF i <= m THEN s1[i] ELSE s2[i - m] BY ConcatProperties
<1> HIDE DEF m, n, s
<1>3. n # 0 BY DEF n
<1>4. m + n \in 1..(m + n) /\ ~(m + n <= m) /\ (m + n) - m = n BY <1>1, <1>3
<1> QED BY <1>2, <1>4 DEF m, n, s

\* The first of the rows is the end of the path.
LEMMA FirstRow ==
    ASSUME NEW hops \in Seq(Piece), Len(hops) >= 3
    PROVE  HopRows(hops)[1] = hops[Len(hops)]
<1> DEFINE n == Len(hops)
           first == <<hops[1]>>
           rest == SubSeq(hops, 3, n)
           all == first \o rest
<1>1. n \in Nat /\ n >= 3 /\ \A i \in 1..n : hops[i] \in Piece BY LenProperties, ElementOfSeq
<1>2. first \in Seq(Piece) /\ Len(first) = 1
  <2>1. hops[1] \in Piece BY <1>1
  <2> QED BY <2>1
<1> HIDE DEF n
<1>3. \A i \in 3..n : hops[i] \in Piece BY <1>1
<1>4. /\ rest \in Seq(Piece) /\ Len(rest) = n - 2
      /\ \A i \in 1..(n - 2) : rest[i] = hops[3 + i - 1]
  <2>1. /\ rest \in Seq(Piece)
        /\ Len(rest) = IF 3 <= n THEN n - 3 + 1 ELSE 0
        /\ \A i \in 1..(n - 3 + 1) : rest[i] = hops[3 + i - 1]
    BY <1>1, <1>3, SubSeqProperties
  <2> HIDE DEF rest
  <2>2. n - 3 + 1 = n - 2 BY <1>1
  <2> QED BY <1>1, <2>1, <2>2
<1> HIDE DEF first, rest
<1>5. /\ all \in Seq(Piece) /\ Len(all) = n - 1
      /\ all[n - 1] = rest[n - 2]
  <2>1. /\ all \in Seq(Piece) /\ Len(all) = Len(first) + Len(rest)
        /\ all[Len(first) + Len(rest)] = rest[Len(rest)]
    <3>1. first \in Seq(Piece) /\ rest \in Seq(Piece) /\ Len(rest) # 0 BY <1>1, <1>2, <1>4
    <3>2. all \in Seq(Piece) /\ Len(all) = Len(first) + Len(rest)
      BY <3>1, ConcatProperties
    <3>3. all[Len(first) + Len(rest)] = rest[Len(rest)] BY <3>1, JoinedEnd
    <3> QED BY <3>2, <3>3
  <2> HIDE DEF all
  <2>2. Len(first) + Len(rest) = n - 1 BY <1>1, <1>2, <1>4
  <2> QED BY <1>4, <2>1, <2>2
<1>6. rest[n - 2] = hops[n]
  <2>1. n - 2 \in 1..(n - 2) /\ 3 + (n - 2) - 1 = n BY <1>1
  <2> QED BY <1>4, <2>1
<1>7. HopRows(hops) = Reverse(all) BY DEF HopRows, first, rest, n
<1> HIDE DEF all
<1>8. Reverse(all)[1] = all[n - 1]
  <2>1. Reverse(all) = [i \in 1..Len(all) |-> all[(Len(all) - i) + 1]] BY DEF Reverse
  <2>2. 1 \in 1..Len(all) /\ (Len(all) - 1) + 1 = n - 1 BY <1>1, <1>5
  <2> QED BY <2>1, <2>2
<1> QED BY <1>5, <1>6, <1>7, <1>8 DEF n

-----------------------------------------------------------------------------
(* The types of the tables.                                                *)

USE InputAssumption, NoneAssumption, NameAssumption

HopType == [id : Name, used : BOOLEAN, where : Where]
IsTable(t) == DOMAIN t \subseteq Station /\ t \in [DOMAIN t -> Where]

\* Rows of the Packet table, given the stations that are known.
PacketOK(p, known) ==
    /\ p.origin \in known
    /\ p.dest \in known \cup {NoDest}
    /\ p.heard \in known \cup {NotFound}
    /\ p.onRF \in BOOLEAN /\ p.mice \in BOOLEAN
    /\ p.when \in Nat /\ p.where \in Where
    /\ p.hops \in Seq(HopType) /\ Len(p.hops) \in 1..MAX_HOPS
    /\ \A n \in DOMAIN p.hops : Index(p.hops[n].id) \in known
    /\ p.onRF => p.heard # NotFound

TablesOK ==
    /\ scenario \in Scenario
    /\ IsTable(stations)
    /\ packets \in Seq({packets[i] : i \in DOMAIN packets})
    /\ Len(packets) <= MaxPackets[scenario]
    /\ \A i \in DOMAIN packets : PacketOK(packets[i], DOMAIN stations)

\* Stations are only added.
LEMMA KnownTable ==
    ASSUME NEW t, IsTable(t), NEW indices \in SUBSET Station
    PROVE  IsTable(Known(t, indices)) /\ DOMAIN Known(t, indices) = DOMAIN t \cup indices
BY DEF IsTable, Known, Where

\* A row put into a table of stations is in it, next to those before.
LEMMA WithTable ==
    ASSUME NEW t, IsTable(t), NEW index \in Station, NEW where \in Where
    PROVE  IsTable(With(t, index, where)) /\ DOMAIN With(t, index, where) = DOMAIN t \cup {index}
BY DEF IsTable, With

\* A packet with a position touches the row of its origin only.
LEMMA TouchedTable ==
    ASSUME IsTable(stations), NEW in, in.where \in Where, NEW hops,
           Origin(in, hops) \in Station
    PROVE  /\ IsTable(Touched(in, hops))
           /\ DOMAIN Touched(in, hops) = DOMAIN stations \cup {Origin(in, hops)}
<1> DEFINE o == Origin(in, hops)
           w == in.where
<1>0. o \in Station /\ w \in Where OBVIOUS
<1>1. CASE in.where # NoCoord
  <2>1. Touched(in, hops) = With(stations, Origin(in, hops), in.where)
    BY <1>1 DEF Touched
  <2> HIDE DEF o, w
  <2>2. IsTable(With(stations, o, w)) /\ DOMAIN With(stations, o, w) = DOMAIN stations \cup {o}
    BY <1>0, WithTable
  <2> QED BY <2>1, <2>2 DEF o, w
<1>2. CASE in.where = NoCoord
  <2>1. Touched(in, hops) = Known(stations, {Origin(in, hops)}) BY <1>2 DEF Touched
  <2> HIDE DEF o
  <2>2. {o} \in SUBSET Station BY <1>0
  <2>3. IsTable(Known(stations, {o})) /\ DOMAIN Known(stations, {o}) = DOMAIN stations \cup {o}
    BY <2>2, KnownTable
  <2> QED BY <2>1, <2>3 DEF o
<1> QED BY <1>1, <1>2

\* A packet that is stored takes its stations into the tables.
LEMMA InsertKeeps ==
    ASSUME TablesOK, NEW in \in PacketInput, NEW hops \in Seq(Piece), Len(hops) >= 2,
           NEW path \in Seq(Piece), Len(path) \in 2..(MAX_HOPS + 1), NEW gate \in Name \cup {NoName},
           NEW onRF \in BOOLEAN, onRF => gate # NoName,
           Len(packets) < MaxPackets[scenario], scenario' = scenario,
           Insert(in, hops, path, gate, onRF)
    PROVE  TablesOK'
<1> DEFINE heard == GetIndex(gate, gate)
           rows == HopRows(path)
           new == ({Dest(in, hops), heard} \ {NoDest, NotFound})
                    \cup {Index(rows[i].id) : i \in DOMAIN rows}
           table == Known(Touched(in, hops), new)
           stored == [i \in DOMAIN rows |->
                        [id |-> rows[i].id, used |-> rows[i].used,
                         where |-> table[Index(rows[i].id)]]]
           p == [origin |-> Origin(in, hops), dest |-> Dest(in, hops), heard |-> heard,
                 onRF |-> onRF, mice |-> in.mice, when |-> in.when, where |-> in.where,
                 hops |-> stored]
<1>1. /\ in.mice \in BOOLEAN /\ in.when \in Nat /\ in.where \in Where
      /\ in.obj \in Name \cup {NoName}
  BY DEF PacketInput
<1>2. hops[1].id \in Name /\ hops[2].id \in Name
  <2>1. Len(hops) \in Nat BY LenProperties
  <2>2. hops[1] \in Piece /\ hops[2] \in Piece BY <2>1, ElementOfSeq
  <2> QED BY <2>2 DEF Piece
<1>3. Origin(in, hops) \in Station
  BY <1>1, <1>2 DEF Origin, Object, Station
<1>4. Dest(in, hops) = NoDest \/ Dest(in, hops) \in Station \ {NoDest, NotFound}
  BY <1>2 DEF Dest, Station
<1>5. IF gate = NoName THEN heard = NotFound ELSE heard \in Station \ {NoDest, NotFound}
  BY DEF GetIndex, Station
<1>6. /\ \A i \in DOMAIN rows : rows[i] \in Piece
      /\ DOMAIN rows = 1..(Len(path) - 1) /\ Len(path) - 1 \in Nat
  <2>1. rows \in Seq(Piece) /\ DOMAIN rows = 1..(Len(path) - 1) BY HopRowsType
  <2>2. Len(path) \in Nat /\ DOMAIN rows = 1..Len(rows) BY <2>1, LenProperties
  <2> HIDE DEF rows
  <2>3. \A i \in DOMAIN rows : rows[i] \in Piece BY <2>1, <2>2, ElementOfSeq
  <2> QED BY <2>1, <2>2, <2>3
<1> HIDE DEF heard, rows
<1>7. \A i \in DOMAIN rows : Index(rows[i].id) \in Station
  BY <1>6 DEF Index, Piece, Station
<1>8. new \in SUBSET Station BY <1>4, <1>5, <1>7
<1>9. /\ IsTable(Touched(in, hops))
      /\ DOMAIN Touched(in, hops) = DOMAIN stations \cup {Origin(in, hops)}
  BY <1>1, <1>3, TouchedTable DEF TablesOK
<1> HIDE DEF new
<1>10. /\ IsTable(table)
       /\ DOMAIN table = DOMAIN stations \cup {Origin(in, hops)} \cup new
  BY <1>8, <1>9, KnownTable
<1> HIDE DEF table
<1>11. stored \in Seq(HopType) /\ Len(stored) \in 1..MAX_HOPS
  <2>1. \A i \in DOMAIN rows : table[Index(rows[i].id)] \in Where
    BY <1>10 DEF IsTable, new
  <2>2. stored \in [1..(Len(path) - 1) -> HopType]
    BY <1>6, <2>1 DEF HopType, Piece
  <2> HIDE DEF stored
  <2> DEFINE k == Len(path) - 1
  <2>3. k \in 1..MAX_HOPS /\ stored \in [1..k -> HopType] BY <1>6, <2>2, HopsAssumption
  <2> HIDE DEF k
  <2>4. k \in Nat BY <2>3, HopsAssumption
  <2>5. stored \in Seq(HopType) BY <2>3, <2>4, FunctionIsSeq
  <2>6. Len(stored) = k BY <2>3, <2>4
  <2> QED BY <2>3, <2>5, <2>6
<1>12. DOMAIN stored = DOMAIN rows /\ \A i \in DOMAIN rows : stored[i].id = rows[i].id
  OBVIOUS
<1> HIDE DEF stored
<1>13. PacketOK(p, DOMAIN table)
  <2>1. p.origin \in DOMAIN table BY <1>10
  <2>2. p.dest \in DOMAIN table \cup {NoDest} BY <1>4, <1>10 DEF new
  <2>3. p.heard \in DOMAIN table \cup {NotFound} BY <1>5, <1>10 DEF new
  <2>4. p.onRF => p.heard # NotFound BY <1>5
  <2>5. \A n \in DOMAIN p.hops : Index(p.hops[n].id) \in DOMAIN table
    BY <1>10, <1>12 DEF new
  <2>6. /\ p.onRF \in BOOLEAN /\ p.mice \in BOOLEAN
        /\ p.when \in Nat /\ p.where \in Where
        /\ p.hops \in Seq(HopType) /\ Len(p.hops) \in 1..MAX_HOPS
    BY <1>1, <1>11
  <2> HIDE DEF p
  <2> QED BY <2>1, <2>2, <2>3, <2>4, <2>5, <2>6 DEF PacketOK
<1>14. stations' = table /\ packets' = Append(packets, p)
  BY DEF Insert, heard, rows, new, table, stored
<1> HIDE DEF p
<1>15. \A i \in DOMAIN packets : PacketOK(packets[i], DOMAIN table)
  <2>1. \A i \in DOMAIN packets : PacketOK(packets[i], DOMAIN stations) BY DEF TablesOK
  <2>2. DOMAIN stations \subseteq DOMAIN table BY <1>10
  <2> QED BY <2>1, <2>2 DEF PacketOK
<1>16. TablesOK'
  <2> DEFINE rest == {packets[i] : i \in DOMAIN packets}
  <2>1. packets \in Seq(rest) BY DEF TablesOK
  <2>2. packets \in Seq(rest \cup {p}) BY <2>1, SeqMonotonic
  <2> HIDE DEF rest
  <2>3. Len(packets) \in Nat /\ DOMAIN packets = 1..Len(packets) BY <2>2, LenProperties
  <2>4. /\ packets' \in Seq(rest \cup {p})
        /\ Len(packets') = Len(packets) + 1
        /\ \A i \in 1..Len(packets) : packets'[i] = packets[i]
        /\ packets'[Len(packets) + 1] = p
    BY <1>14, <2>2, AppendProperties
  <2>5. DOMAIN packets' = 1..(Len(packets) + 1) BY <2>4, LenProperties
  <2>6. \A i \in DOMAIN packets' : PacketOK(packets'[i], DOMAIN stations')
    BY <1>13, <1>14, <1>15, <2>3, <2>4, <2>5
  <2>7. packets' \in Seq({packets'[i] : i \in DOMAIN packets'})
    <3> DEFINE all == {packets'[i] : i \in DOMAIN packets'}
               k == Len(packets) + 1
    <3>1. packets' \in [1..k -> rest \cup {p}] BY <2>4, LenProperties
    <3>2. k \in Nat BY <2>3
    <3>3. packets' = [i \in 1..k |-> packets'[i]] BY <3>1
    <3>4. \A i \in 1..k : packets'[i] \in all BY <2>5
    <3> HIDE DEF all, k
    <3>5. packets' \in [1..k -> all] BY <3>3, <3>4
    <3>6. packets' \in Seq(all) BY <3>2, <3>5, FunctionIsSeq
    <3> QED BY <3>6 DEF all
  <2>8. Len(packets') <= MaxPackets[scenario]'
    <3>1. MaxPackets[scenario] \in Nat BY DEF TablesOK
    <3> QED BY <2>3, <2>4, <3>1
  <2> QED BY <1>10, <1>14, <2>6, <2>7, <2>8 DEF TablesOK
<1> QED BY <1>16

-----------------------------------------------------------------------------
\* What TablesOK says is TypeOK, and that packets is a sequence.
LEMMA TablesType == TablesOK => TypeOK
<1> SUFFICES ASSUME TablesOK PROVE TypeOK OBVIOUS
<1> USE DEF TablesOK
<1>1. stations \in [DOMAIN stations -> Where] /\ DOMAIN stations \subseteq Station
  BY DEF IsTable
<1>2. \A i \in DOMAIN packets : PacketOK(packets[i], DOMAIN stations) OBVIOUS
<1> QED BY <1>1, <1>2, Zenon DEF TypeOK, PacketOK, HopType

\* The tables are empty at first.
LEMMA InitTables == Init => TablesOK
<1> SUFFICES ASSUME Init PROVE TablesOK OBVIOUS
<1> USE DEF Init
<1>1. DOMAIN stations = {} /\ DOMAIN packets = {} OBVIOUS
<1>2. IsTable(stations) BY <1>1 DEF IsTable
<1>3. packets \in Seq({packets[i] : i \in DOMAIN packets}) /\ Len(packets) = 0
  BY EmptySeq
<1>4. MaxPackets[scenario] \in Nat OBVIOUS
<1> QED BY <1>1, <1>2, <1>3, <1>4 DEF TablesOK

\* Every step keeps the tables well formed.
LEMMA TablesKept ==
    ASSUME TablesOK, [Next]_vars
    PROVE  TablesOK'
<1>1. CASE Log
  <2> PICK in \in Inputs[scenario] : AprsLogPacket(in) \/ AprsLogReceivedPacket(in)
    BY <1>1 DEF Log
  <2>1. scenario \in Scenario BY DEF TablesOK
  <2>2. /\ in \in PacketInput
        /\ Len(in.path) >= 2 /\ (in.third = <<>> \/ Len(in.third) = 2)
    BY <2>1
  <2>3. Len(packets) < MaxPackets[scenario] /\ scenario' = scenario BY <1>1 DEF Log
  <2> DEFINE hops == Hops(in.path, in.third)
  <2>4. /\ in.path \in Seq(Piece) /\ in.third \in Seq(Piece)
        /\ in.by \in Name \cup {NoName} /\ in.obj \in Name \cup {NoName}
        /\ in.where \in Where
    BY <2>2 DEF PacketInput
  <2>5. hops \in Seq(Piece) /\ Len(hops) \in 2..MAX_HOPS BY <2>2, <2>4, HopsType
  <2>6. IGate(hops) \in Name \cup {NoName} BY <2>5, IGateType
  <2>7. CASE AprsLogPacket(in)
    <3>1. CASE in.where # NoCoord
      <4>1. Insert(in, hops, hops, IGate(hops), FALSE) BY <2>7, <3>1, Zenon DEF AprsLogPacket
      <4> HIDE DEF hops
      <4>2. Len(hops) >= 2 /\ Len(hops) \in 2..(MAX_HOPS + 1) BY <2>5, HopsAssumption
      <4> QED BY <2>2, <2>3, <2>5, <2>6, <4>1, <4>2, InsertKeeps
    <3>2. CASE in.where = NoCoord
      <4>1. stations' \in {stations, Touched(in, hops)} /\ packets' = packets
        BY <2>7, <3>2, Zenon DEF AprsLogPacket
      <4> HIDE DEF hops
      <4>2. Origin(in, hops) \in Station
        <5>1. Len(hops) \in Nat BY <2>5, LenProperties
        <5>2. hops[1] \in Piece BY <2>5, <5>1, ElementOfSeq
        <5> QED BY <2>4, <5>2 DEF Origin, Object, Station, Piece
      <4>3. /\ IsTable(Touched(in, hops))
            /\ DOMAIN stations \subseteq DOMAIN Touched(in, hops)
        <5>1. IsTable(stations) /\ in.where \in Where BY <2>4 DEF TablesOK
        <5>2. /\ IsTable(Touched(in, hops))
              /\ DOMAIN Touched(in, hops) = DOMAIN stations \cup {Origin(in, hops)}
          BY <4>2, <5>1, TouchedTable
        <5> QED BY <5>2
      <4>4. \A i \in DOMAIN packets : PacketOK(packets[i], DOMAIN Touched(in, hops))
        <5>1. \A i \in DOMAIN packets : PacketOK(packets[i], DOMAIN stations) BY DEF TablesOK
        <5> QED BY <4>3, <5>1 DEF PacketOK
      <4>5. CASE stations' = stations BY <2>3, <4>1, <4>5 DEF TablesOK
      <4>6. CASE stations' = Touched(in, hops)
        BY <2>3, <4>1, <4>3, <4>4, <4>6 DEF TablesOK
      <4> QED BY <4>1, <4>5, <4>6
    <3> QED BY <3>1, <3>2
  <2>8. CASE AprsLogReceivedPacket(in)
    <3> DEFINE last == [id |-> in.by, used |-> FALSE]
               path == Append(hops, last)
    <3>1. in.by \in Name BY <2>4, <2>8 DEF AprsLogReceivedPacket
    <3>2. last \in Piece BY <3>1 DEF Piece
    <3>3. Insert(in, hops, path, in.by, in.third = <<>>)
      BY <2>8, Zenon DEF AprsLogReceivedPacket
    <3> HIDE DEF hops, last
    <3>4. path \in Seq(Piece) /\ Len(path) = Len(hops) + 1
      BY <2>5, <3>2, AppendProperties
    <3>5. Len(path) \in 2..(MAX_HOPS + 1) /\ Len(hops) >= 2
      BY <2>5, <3>4, LenProperties, HopsAssumption
    <3>6. (in.third = <<>>) \in BOOLEAN /\ in.by # NoName BY <3>1
    <3> HIDE DEF path
    <3> QED BY <2>2, <2>3, <2>4, <2>5, <3>3, <3>4, <3>5, <3>6, InsertKeeps
  <2> QED BY <2>7, <2>8
<1>2. CASE UNCHANGED <<scenario, stations, packets>>
  BY <1>2 DEF TablesOK
<1> QED BY <1>1, <1>2 DEF Next, Query, Map, Taken, vars

\* The tables keep their types: whatever is logged, the stations of a packet and
\* of its hops are known, and none has an empty name.
THEOREM TypeCorrect == Spec => []TypeOK
<1>1. TablesOK /\ [Next]_vars => TablesOK' BY TablesKept
<1> QED BY <1>1, InitTables, TablesType, PTL DEF Spec

-----------------------------------------------------------------------------
(* The maps of the packets a client was shown.                             *)

\* Places of the rows are places of the map.
LEMMA RowPlaces ==
    ASSUME TablesOK, NEW i \in DOMAIN packets
    PROVE  /\ packets[i].where \in Point \cup {NoCoord}
           /\ packets[i].hops[1].where \in Point \cup {NoCoord}
<1>1. PacketOK(packets[i], DOMAIN stations) BY DEF TablesOK
<1>2. /\ packets[i].where \in Where /\ packets[i].hops \in Seq(HopType)
      /\ Len(packets[i].hops) \in 1..MAX_HOPS
  BY <1>1 DEF PacketOK
<1>3. packets[i].hops[1] \in HopType BY <1>2, ElementOfSeq
<1> QED BY <1>2, <1>3 DEF Where, Point, HopType

\* The places of a set of rows.
LEMMA PlacesAre ==
    ASSUME NEW rows
    PROVE  \A x : x \in Places(rows) <=>
             /\ x # NoCoord
             /\ \E i \in rows : x = packets[i].where \/ x = packets[i].hops[1].where
<1> DEFINE U == UNION {{packets[i].where, packets[i].hops[1].where} : i \in rows}
<1>1. \A x : x \in U <=> \E i \in rows : x = packets[i].where \/ x = packets[i].hops[1].where
  OBVIOUS
<1>2. Places(rows) = U \ {NoCoord} BY DEF Places
<1> HIDE DEF U
<1> QED BY <1>1, <1>2

\* A box after the first rows in their order: its corners are the right way round,
\* and it holds the places of these rows.
BoxUpTo(box, rows, seen) ==
    /\ box \in Box
    /\ OffZero(Places(rows)) => BoxHolds(box, Places(seen), Places(rows))

\* One more row.
LEMMA BoxOfRow ==
    ASSUME TablesOK, NEW rows \in SUBSET DOMAIN packets, NEW seen \in SUBSET rows,
           NEW box, BoxUpTo(box, rows, seen), NEW i \in rows
    PROVE  BoxUpTo(Around(Around(box, packets[i].where), packets[i].hops[1].where),
                   rows, seen \cup {i})
<1> DEFINE a == packets[i].where
           b == packets[i].hops[1].where
           P == Places(rows)
           S == Places(seen)
           A == S \cup ({a} \ {NoCoord})
           B == A \cup ({b} \ {NoCoord})
<1>1. a \in Point \cup {NoCoord} /\ b \in Point \cup {NoCoord} BY RowPlaces
<1>2. P \in SUBSET Point
  <2>1. \A k \in rows : /\ packets[k].where \in Point \cup {NoCoord}
                        /\ packets[k].hops[1].where \in Point \cup {NoCoord}
    BY RowPlaces
  <2> QED BY <2>1, PlacesAre
<1>3. S \in SUBSET P /\ a \in P \cup {NoCoord} /\ b \in P \cup {NoCoord} BY PlacesAre
<1>4. Places(seen \cup {i}) = B BY PlacesAre
<1> HIDE DEF a, b, P, S
<1>5. Around(Around(box, a), b) \in Box BY <1>1, BoxType DEF BoxUpTo
<1>6. ASSUME OffZero(P) PROVE BoxHolds(Around(Around(box, a), b), B, P)
  <2>1. BoxHolds(box, S, P) BY <1>6 DEF BoxUpTo, P, S
  <2>2. BoxHolds(Around(box, a), A, P) BY <1>2, <1>3, <1>6, <2>1, BoxTakesIfPlaced
  <2>3. A \in SUBSET P BY <1>3
  <2> HIDE DEF A
  <2> QED BY <1>2, <1>3, <1>6, <2>2, <2>3, BoxTakesIfPlaced
<1> QED BY <1>4, <1>5, <1>6 DEF BoxUpTo, a, b, P

\* There are finitely many packets.
LEMMA RowsAreFinite ==
    ASSUME TablesOK, NEW rows \in SUBSET DOMAIN packets
    PROVE  IsFiniteSet(rows)
<1> DEFINE n == Len(packets)
<1>1. DOMAIN packets = 1..n /\ n \in Nat BY LenProperties DEF TablesOK
<1> HIDE DEF n
<1>2. n \in Int /\ 1 \in Int BY <1>1
<1>3. IsFiniteSet(1..n) BY <1>2, FS_Interval
<1>4. rows \in SUBSET (1..n) BY <1>1
<1> QED BY <1>3, <1>4, FS_Subset

\* The box of all rows in some order.
LEMMA BoxOfRows ==
    ASSUME TablesOK, NEW rows \in SUBSET DOMAIN packets,
           NEW order \in Bijection(1..Cardinality(rows), rows)
    PROVE  BoxUpTo(BoxOf(order), rows, rows)
<1> DEFINE n == Cardinality(rows)
           turn(box, i) == Around(Around(box, packets[order[i]].where),
                                  packets[order[i]].hops[1].where)
           next == [i \in 1..n |-> [box \in Box |-> turn(box, i)]]
           body(h) == [i \in 0..Len(order) |->
                         IF i = 0 THEN NoBox
                         ELSE LET p == packets[order[i]]
                              IN  Around(Around(h[i - 1], p.where), p.hops[1].where)]
           box == CHOOSE h : h = body(h)
           seen(i) == {order[k] : k \in 1..i}
<1>1. n \in Nat
  <2>1. IsFiniteSet(rows) BY RowsAreFinite
  <2> QED BY <2>1, FS_CardinalityType
<1>2. order \in [1..n -> rows] /\ \A i \in rows : \E k \in 1..n : order[k] = i
  BY DEF Bijection, Injection, Surjection
<1>3. Len(order) = n BY <1>1, <1>2
<1>4. NoBox \in Box BY ZeroType DEF NoBox, Box, IsBox, Point
<1>5. ASSUME NEW i \in 1..n, NEW c \in Box PROVE turn(c, i) \in Box
  <2>1. order[i] \in DOMAIN packets BY <1>2
  <2> QED BY <2>1, RowPlaces, BoxType
<1>6. next \in [1..n -> [Box -> Box]]
  <2> HIDE DEF turn
  <2> QED BY <1>5
<1> HIDE DEF n
<1>7. PICK f : Unfolds(Box, NoBox, next, n, f)
  <2> HIDE DEF next
  <2> QED BY <1>1, <1>4, <1>6, Recursion
<1>8. f = body(f)
  <2>1. f \in [0..n -> Box] BY <1>7 DEF Unfolds
  <2>2. ASSUME NEW i \in 0..n PROVE f[i] = body(f)[i]
    <3>1. CASE i = 0 BY <1>3, <1>7, <3>1 DEF Unfolds
    <3>2. CASE i # 0
      <4>1. i \in 1..n /\ i - 1 \in 0..n BY <1>1, <3>2
      <4>2. f[i] = next[i][f[i - 1]] /\ f[i - 1] \in Box BY <1>7, <4>1 DEF Unfolds
      <4>3. f[i] = turn(f[i - 1], i) BY <4>1, <4>2
      <4> QED BY <1>3, <3>2, <4>3
    <3> QED BY <3>1, <3>2
  <2>3. body(f) = [i \in 0..n |-> body(f)[i]] BY <1>3
  <2> HIDE DEF body
  <2> QED BY <2>1, <2>2, <2>3
<1>9. box = body(box) BY <1>8
<1>10. BoxOf(order) = box[n]
  <2>1. BoxOf(order) = box[Len(order)] BY Zenon DEF BoxOf
  <2> QED BY <1>3, <2>1
<1> HIDE DEF box
<1>11. box[0] = NoBox /\ \A i \in 1..n : box[i] = turn(box[i - 1], i)
  <2>1. \A i \in 0..n : box[i] = body(box)[i] BY <1>9
  <2> QED BY <1>1, <1>3, <2>1
<1> HIDE DEF body, turn
<1> DEFINE T == {i \in Nat : i <= n => BoxUpTo(box[i], rows, seen(i))}
<1>12. 0 \in T
  <2>1. seen(0) = {} OBVIOUS
  <2>2. Places({}) = {} BY PlacesAre
  <2> HIDE DEF seen
  <2>3. BoxUpTo(NoBox, rows, seen(0)) BY <1>4, <2>1, <2>2 DEF BoxUpTo, BoxHolds
  <2> QED BY <1>11, <2>3
<1>13. ASSUME NEW i \in Nat, i \in T PROVE i + 1 \in T
  <2> SUFFICES ASSUME i + 1 <= n PROVE BoxUpTo(box[i + 1], rows, seen(i + 1)) OBVIOUS
  <2>1. BoxUpTo(box[i], rows, seen(i)) BY <1>1, <1>13
  <2>2. i + 1 \in 1..n /\ (i + 1) - 1 = i BY <1>1
  <2>3. box[i + 1] = turn(box[i], i + 1) BY <1>11, <2>2
  <2>4. order[i + 1] \in rows BY <1>2, <2>2
  <2>5. seen(i) \in SUBSET rows BY <1>1, <1>2
  <2>6. seen(i + 1) = seen(i) \cup {order[i + 1]}
    <3>1. \A k \in Nat : k \in 1..(i + 1) <=> k \in 1..i \/ k = i + 1 OBVIOUS
    <3> QED BY <3>1
  <2> HIDE DEF seen
  <2>7. BoxUpTo(turn(box[i], i + 1), rows, seen(i) \cup {order[i + 1]})
    BY <2>1, <2>4, <2>5, BoxOfRow DEF turn
  <2> QED BY <2>3, <2>6, <2>7
<1> HIDE DEF T
<1>14. Nat \subseteq T BY <1>12, <1>13, NatInduct
<1>15. seen(n) = rows BY <1>2
<1>16. n \in T BY <1>1, <1>14
<1> HIDE DEF seen
<1> QED BY <1>1, <1>10, <1>15, <1>16 DEF T

-----------------------------------------------------------------------------
(* Maps.                                                                   *)

\* The packets a client was shown, and the box around them.
BoxInv ==
    reply.service = "packets" =>
        reply.rows \subseteq DOMAIN packets /\ BoxUpTo(reply.box, reply.rows, reply.rows)

\* A step that leaves the tables and the reply, or takes the reply, or logs when
\* there is none, leaves what is true of a reply.
LEMMA OtherReplies ==
    ASSUME [Next]_vars, ~Query, ~Map
    PROVE  reply' = NoReply \/ (reply' = reply /\ (packets' = packets \/ reply = NoReply))
BY DEF Next, Log, Taken, vars

\* A query for packets is answered with their box.
LEMMA QueryBox ==
    ASSUME TablesOK, Query
    PROVE  BoxInv' /\ reply'.service # "tiles"
<1>1. packets' = packets BY DEF Query
<1>2. CASE \E svc \in Requests[scenario] : AprsSvcQueryPackets(svc)
  <2> PICK svc \in Requests[scenario] : AprsSvcQueryPackets(svc) BY <1>2
  <2> DEFINE rows == Chosen(LAMBDA p : Match(svc, p))
  <2>1. PICK order \in Bijection(1..Cardinality(rows), rows) :
          reply' = [service |-> "packets", svc |-> svc, rows |-> rows, box |-> BoxOf(order)]
    BY Zenon DEF AprsSvcQueryPackets
  <2>2. rows \subseteq DOMAIN packets BY DEF Chosen
  <2> HIDE DEF rows
  <2>3. BoxUpTo(BoxOf(order), rows, rows) BY <2>2, BoxOfRows
  <2>4. reply'.service = "packets" /\ reply'.rows = rows /\ reply'.box = BoxOf(order) BY <2>1
  <2>5. BoxUpTo(reply'.box, reply'.rows, reply'.rows) BY <2>3, <2>4
  <2> QED BY <1>1, <2>2, <2>4, <2>5 DEF BoxInv, BoxUpTo, Places
<1>3. CASE \E svc \in Requests[scenario] :
             \/ AprsSvcQueryUniquePaths(svc) \/ AprsSvcQueryUniqueIGates(svc)
             \/ AprsSvcQueryUniqueDestinations(svc) \/ AprsSvcQueryTrafficRates(svc)
  <2> PICK svc \in Requests[scenario] :
             \/ AprsSvcQueryUniquePaths(svc) \/ AprsSvcQueryUniqueIGates(svc)
             \/ AprsSvcQueryUniqueDestinations(svc) \/ AprsSvcQueryTrafficRates(svc)
    BY <1>3
  <2>1. AprsSvcQueryUniquePaths(svc) => reply'.service = "paths"
    BY DEF AprsSvcQueryUniquePaths
  <2>2. AprsSvcQueryUniqueIGates(svc) => reply'.service \in {"refused", "igates"}
    BY DEF AprsSvcQueryUniqueIGates
  <2>3. AprsSvcQueryUniqueDestinations(svc) => reply'.service \in {"refused", "destinations"}
    BY DEF AprsSvcQueryUniqueDestinations
  <2>4. AprsSvcQueryTrafficRates(svc) => reply'.service \in {"refused", "rates"}
    BY DEF AprsSvcQueryTrafficRates
  <2>5. reply'.service \in {"paths", "refused", "igates", "destinations", "rates"}
    BY <2>1, <2>2, <2>3, <2>4
  <2> QED BY <2>5 DEF BoxInv
<1> QED BY <1>2, <1>3 DEF Query

\* A map is that of the packets shown, and of the margins and the zoom asked for.
LEMMA MapIs ==
    ASSUME TablesOK, BoxInv, Map
    PROVE  /\ packets' = packets /\ scenario' = scenario
           /\ reply'.service = "tiles"
           /\ reply'.rows \subseteq DOMAIN packets
           /\ reply'.map = CalcOSMTiles(reply'.svc)
           /\ reply'.svc \in Asked /\ IsBox(reply'.svc)
           /\ OffZero(Places(reply'.rows)) =>
                \A p \in Places(reply'.rows) : In(p, reply'.svc)
           /\ \E svc \in Requests[scenario] :
                /\ svc.service = "tiles" /\ reply'.svc.zoom = svc.zoom
                /\ reply'.svc.left = svc.left /\ reply'.svc.right = svc.right
                /\ reply'.svc.top = svc.top /\ reply'.svc.bottom = svc.bottom
<1> PICK svc \in Requests[scenario] : svc.service = "tiles" /\ AprsSvcCalcOSMTiles(svc)
  BY DEF Map
<1> DEFINE request == [min |-> reply.box.min, max |-> reply.box.max,
                       zoom |-> svc.zoom, maxTiles |-> svc.maxTiles, left |-> svc.left,
                       right |-> svc.right, top |-> svc.top, bottom |-> svc.bottom]
<1>1. reply' = [service |-> "tiles", svc |-> request, rows |-> reply.rows,
                map |-> CalcOSMTiles(request)]
  BY Zenon DEF AprsSvcCalcOSMTiles
<1>2. {svc.zoom, svc.maxTiles, svc.left, svc.right, svc.top, svc.bottom} \subseteq Nat
  BY RequestAssumption DEF TablesOK
<1>3. /\ reply.rows \subseteq DOMAIN packets /\ BoxUpTo(reply.box, reply.rows, reply.rows)
      /\ packets' = packets /\ scenario' = scenario
  BY DEF Map, BoxInv
<1>4. /\ request.min = reply.box.min /\ request.max = reply.box.max
      /\ request.zoom = svc.zoom /\ request.maxTiles = svc.maxTiles
      /\ request.left = svc.left /\ request.right = svc.right
      /\ request.top = svc.top /\ request.bottom = svc.bottom
  OBVIOUS
<1> HIDE DEF request
<1>5. reply'.service = "tiles" /\ reply'.svc = request /\ reply'.rows = reply.rows
      /\ reply'.map = CalcOSMTiles(request)
  BY <1>1
<1>6. IsBox(request) BY <1>3, <1>4 DEF BoxUpTo, Box, IsBox
<1>7. request \in Asked BY <1>2, <1>3 DEF BoxUpTo, Box, Asked, request
<1>8. OffZero(Places(reply.rows)) => \A p \in Places(reply.rows) : In(p, request)
  BY <1>3, <1>4 DEF BoxUpTo, BoxHolds, In
<1> QED BY <1>3, <1>4, <1>5, <1>6, <1>7, <1>8, Zenon

\* The box is that of the packets.
LEMMA BoxKept ==
    ASSUME TablesOK, BoxInv, [Next]_vars
    PROVE  BoxInv'
<1>1. CASE Query BY <1>1, QueryBox
<1>2. CASE Map
  <2>1. reply'.service = "tiles" BY <1>2, MapIs
  <2> QED BY <2>1 DEF BoxInv
<1>3. CASE ~Query /\ ~Map
  <2>1. CASE reply' = NoReply BY <2>1 DEF BoxInv, NoReply
  <2>2. CASE reply' = reply /\ packets' = packets BY <2>2 DEF BoxInv, BoxUpTo, Places
  <2>3. CASE reply' = reply /\ reply = NoReply BY <2>3 DEF BoxInv, NoReply
  <2> QED BY <1>3, <2>1, <2>2, <2>3, OtherReplies
<1> QED BY <1>1, <1>2, <1>3

\* No reply but a map is one.
LEMMA ClosestKept ==
    ASSUME TablesOK, BoxInv, ClosestMap, [Next]_vars
    PROVE  ClosestMap'
<1>1. CASE Map
  <2> DEFINE svc == reply'.svc
             zoom == ZoomFrom(svc)
  <2>1. /\ IsBox(svc) /\ Margins(svc) /\ svc.maxTiles \in Nat
        /\ reply'.map = CalcOSMTiles(svc)
    BY <1>1, MapIs DEF Asked, Margins
  <2> SUFFICES ASSUME svc.zoom = 0
               PROVE  /\ TileCount(reply'.map.tiles) <= svc.maxTiles \/ reply'.map.zoom = 2
                      /\ \A z \in (reply'.map.zoom + 1)..MAX_ZOOM :
                           \A x1, x2, y1, y2 \in 0..2^z :
                              LET t == [startX |-> x1, endX |-> x2, startY |-> y1, endY |-> y2]
                              IN  x1 <= x2 /\ y1 <= y2 /\ Hold(t, svc, z)
                                      => TileCount(t) > svc.maxTiles
    BY Zenon DEF ClosestMap
  <2>2. reply'.map = [zoom |-> zoom, tiles |-> TilesAt(svc, zoom)]
    BY <2>1 DEF CalcOSMTiles
  <2>3. /\ zoom \in 2..MAX_ZOOM
        /\ TileCount(TilesAt(svc, zoom)) <= svc.maxTiles \/ zoom = 2
        /\ \A z \in (zoom + 1)..MAX_ZOOM : \A t :
             IsTiles(t) /\ Hold(t, svc, z) => TileCount(t) > svc.maxTiles
    BY <2>1, ClosestZoom
  <2> HIDE DEF svc, zoom
  <2>4. reply'.map.zoom = zoom /\ reply'.map.tiles = TilesAt(svc, zoom) BY <2>2
  <2>5. ASSUME NEW z \in (zoom + 1)..MAX_ZOOM,
               NEW x1 \in 0..2^z, NEW x2 \in 0..2^z, NEW y1 \in 0..2^z, NEW y2 \in 0..2^z,
               x1 <= x2, y1 <= y2,
               Hold([startX |-> x1, endX |-> x2, startY |-> y1, endY |-> y2], svc, z)
        PROVE  TileCount([startX |-> x1, endX |-> x2, startY |-> y1, endY |-> y2])
                 > svc.maxTiles
    <3> DEFINE t == [startX |-> x1, endX |-> x2, startY |-> y1, endY |-> y2]
    <3>1. z \in Nat BY <2>3
    <3>2. 2^z \in Nat BY <3>1, PowerOfTwo
    <3>3. x1 \in Nat /\ x2 \in Nat /\ y1 \in Nat /\ y2 \in Nat BY <3>2
    <3>4. IsTiles(t) BY <2>5, <3>3 DEF IsTiles
    <3>5. Hold(t, svc, z) BY <2>5
    <3> HIDE DEF t
    <3>6. TileCount(t) > svc.maxTiles BY <2>3, <3>4, <3>5
    <3> QED BY <3>6 DEF t
  <2> QED BY <2>3, <2>4, <2>5
<1>2. CASE Query BY <1>2, QueryBox DEF ClosestMap
<1>3. CASE ~Query /\ ~Map
  <2>1. reply' = NoReply \/ reply' = reply BY <1>3, OtherReplies
  <2> QED BY <2>1 DEF ClosestMap, NoReply
<1> QED BY <1>1, <1>2, <1>3

\* A client that leaves the zoom to the service gets the closest map there is room
\* for: at any higher zoom the tiles that hold the packets it was shown with the
\* margins are too many.
THEOREM MapsAreClosest == Spec => []ClosestMap
<1>1. Init => TablesOK /\ BoxInv /\ ClosestMap
  BY InitTables DEF Init, NoReply, BoxInv, ClosestMap
<1>2. TablesOK /\ BoxInv /\ ClosestMap /\ [Next]_vars => TablesOK' /\ BoxInv' /\ ClosestMap'
  BY TablesKept, BoxKept, ClosestKept
<1> QED BY <1>1, <1>2, PTL DEF Spec

\* Every packet a client was shown is on its map, with the margins it asked for.
LEMMA ShownKept ==
    ASSUME RequestsFit, TablesOK, BoxInv, EveryPacketOnMap, [Next]_vars
    PROVE  EveryPacketOnMap'
<1>1. CASE Map
  <2> DEFINE svc == reply'.svc
             rows == reply'.rows
             zoom == IF svc.zoom > 0 THEN svc.zoom ELSE ZoomFrom(svc)
             t == TilesAt(svc, zoom)
  <2>1. /\ svc \in Asked /\ IsBox(svc) /\ reply'.map = CalcOSMTiles(svc)
        /\ packets' = packets /\ rows \subseteq DOMAIN packets
        /\ OffZero(Places(rows)) => \A p \in Places(rows) : In(p, svc)
    BY <1>1, MapIs
  <2>2. PICK asked \in Requests[scenario] :
          /\ asked.service = "tiles" /\ svc.zoom = asked.zoom
          /\ svc.left = asked.left /\ svc.right = asked.right
          /\ svc.top = asked.top /\ svc.bottom = asked.bottom
    BY <1>1, MapIs
  <2>3. /\ svc.zoom <= MAX_ZOOM
        /\ svc.left \in 0..TileSize /\ svc.right \in 0..TileSize
        /\ svc.top \in 0..TileSize /\ svc.bottom \in 0..TileSize
    BY <2>2 DEF RequestsFit, TablesOK
  <2>4. reply'.map = [zoom |-> zoom, tiles |-> t] BY <2>1 DEF CalcOSMTiles
  <2> HIDE DEF svc, rows
  <2>5. ZoomFrom(svc) \in 2..MAX_ZOOM
    <3>1. Margins(svc) /\ svc.maxTiles \in Nat BY <2>1 DEF Margins, Asked
    <3> QED BY <2>1, <3>1, ClosestZoom
  <2>6. zoom \in 0..MAX_ZOOM BY <2>1, <2>3, <2>5, TilesAssumption DEF Asked
  <2> HIDE DEF zoom
  <2>7. IsTiles(t) /\ Hold(t, svc, zoom)
    <3>1. Margins(svc) BY <2>1 DEF Margins, Asked
    <3> QED BY <2>1, <2>3, <2>6, <3>1, TilesLeast, TilesHoldBox
  <2> HIDE DEF t
  <2>8. Places(rows) \subseteq Point
    <3>1. \A i \in rows : /\ packets[i].where \in Point \cup {NoCoord}
                         /\ packets[i].hops[1].where \in Point \cup {NoCoord}
      BY <2>1, RowPlaces
    <3> QED BY <3>1, PlacesAre
  <2>9. ASSUME OffZero(Places(rows)), NEW p \in Places(rows)
        PROVE  Hold(t, [svc EXCEPT !.min = p, !.max = p], zoom)
    <3>1. In(p, svc) /\ p \in Point BY <2>1, <2>8, <2>9
    <3> QED BY <2>1, <2>6, <2>7, <3>1, HoldInside
  <2>10. Places(reply.rows)' = Places(rows) BY <2>1 DEF Places, rows
  <2>11. reply'.map.tiles = t /\ reply'.map.zoom = zoom BY <2>4
  <2>12. OffZero(Places(rows)) =>
           \A p \in Places(rows) :
              Hold(reply'.map.tiles, [reply'.svc EXCEPT !.min = p, !.max = p], reply'.map.zoom)
    BY <2>9, <2>11 DEF svc
  <2> QED BY <2>10, <2>12, Zenon DEF EveryPacketOnMap, OffZero, rows
<1>2. CASE Query BY <1>2, QueryBox DEF EveryPacketOnMap
<1>3. CASE ~Query /\ ~Map
  <2>1. CASE reply' = NoReply BY <2>1 DEF EveryPacketOnMap, NoReply
  <2>2. CASE reply' = reply /\ packets' = packets
    <3>1. Places(reply.rows)' = Places(reply.rows) BY <2>2 DEF Places
    <3> QED BY <2>2, <3>1, Zenon DEF EveryPacketOnMap
  <2>3. CASE reply' = reply /\ reply = NoReply BY <2>3 DEF EveryPacketOnMap, NoReply
  <2> QED BY <1>3, <2>1, <2>2, <2>3, OtherReplies
<1> QED BY <1>1, <1>2, <1>3

\* The map of a set of packets shows every one of them and its gate with the margins
\* asked for, when these are no wider than a tile: whatever the packets, and in
\* whatever order the database returns them.
THEOREM MapsShowPackets == RequestsFit => (Spec => []EveryPacketOnMap)
<1> SUFFICES ASSUME RequestsFit PROVE Spec => []EveryPacketOnMap OBVIOUS
<1>1. Init => TablesOK /\ BoxInv /\ EveryPacketOnMap
  BY InitTables DEF Init, NoReply, BoxInv, EveryPacketOnMap
<1>2. TablesOK /\ BoxInv /\ EveryPacketOnMap /\ [Next]_vars
        => TablesOK' /\ BoxInv' /\ EveryPacketOnMap'
  BY TablesKept, BoxKept, ShownKept
<1> QED BY <1>1, <1>2, PTL DEF Spec

-----------------------------------------------------------------------------
(* Counts.                                                                 *)

\* The packets of the gates add up.
LEMMA GatesAddUp ==
    ASSUME TablesOK, NEW svc, AprsSvcQueryUniqueIGates(svc)
    PROVE  \/ reply'.service = "refused"
           \/ /\ reply'.service = "igates"
              /\ Sum(reply'.gated) = Cardinality(reply'.rows)
<1> DEFINE rows == Chosen(LAMBDA p : InTime(svc, p))
           T == {packets[i].heard : i \in rows}
           counts == [g \in T |-> Cardinality({i \in rows : packets[i].heard = g})]
<1>1. reply' = IF svc.start = 0 /\ svc.end = 0 /\ ~svc.all THEN [service |-> "refused"]
               ELSE [service |-> "igates", svc |-> svc, rows |-> rows, gated |-> counts]
  BY Zenon DEF AprsSvcQueryUniqueIGates
<1>2. IsFiniteSet(rows) BY RowsAreFinite DEF Chosen
<1> HIDE DEF rows
<1>3. Sum(counts) = Cardinality(rows)
  <2> DEFINE f == [i \in rows |-> packets[i].heard]
  <2>1. DOMAIN f = rows /\ \A i \in rows : f[i] = packets[i].heard OBVIOUS
  <2>2. T = {f[i] : i \in rows} OBVIOUS
  <2>3. \A g : {i \in rows : packets[i].heard = g} = {i \in rows : f[i] = g} OBVIOUS
  <2> HIDE DEF f, T
  <2>4. counts = Tally(rows, f) BY <2>2, <2>3 DEF Tally
  <2> HIDE DEF counts
  <2>5. Sum(Tally(rows, f)) = Cardinality(rows) BY <1>2, <2>1, AllAreCounted
  <2> QED BY <2>4, <2>5
<1> HIDE DEF counts
<1> QED BY <1>1, <1>3

\* So do those of the destinations, counted by index and then by name.
LEMMA DestinationsAddUp ==
    ASSUME TablesOK, NEW svc, AprsSvcQueryUniqueDestinations(svc)
    PROVE  \/ reply'.service = "refused"
           \/ /\ reply'.service = "destinations"
              /\ Sum(reply'.received) = Cardinality(reply'.rows)
<1> DEFINE rows == Chosen(LAMBDA p : InTime(svc, p) /\ ~p.mice)
           T == {packets[i].dest : i \in rows}
           byIndex == [d \in T |-> Cardinality({i \in rows : packets[i].dest = d})]
<1>1. reply' = IF svc.start = 0 /\ svc.end = 0 /\ ~svc.all THEN [service |-> "refused"]
               ELSE [service |-> "destinations", svc |-> svc, rows |-> rows,
                     received |-> Destinations(byIndex)]
  BY Zenon DEF AprsSvcQueryUniqueDestinations
<1>2. IsFiniteSet(rows) BY RowsAreFinite DEF Chosen
<1> HIDE DEF rows
<1> DEFINE f == [i \in rows |-> packets[i].dest]
           named == [i \in rows |-> packets[i].dest[2]]
           of(id) == {j \in T : j[2] = id}
           N == {index[2] : index \in T}
<1>3. DOMAIN f = rows /\ \A i \in rows : f[i] = packets[i].dest OBVIOUS
<1>4. DOMAIN named = rows /\ \A i \in rows : named[i] = f[i][2] OBVIOUS
<1>5. T = {f[i] : i \in rows} OBVIOUS
<1>6. \A d \in T : byIndex[d] = Cardinality({i \in rows : f[i] = d})
  <2>1. \A d : {i \in rows : packets[i].dest = d} = {i \in rows : f[i] = d} OBVIOUS
  <2> HIDE DEF f, T
  <2> QED BY <2>1
<1>7. DOMAIN byIndex = T OBVIOUS
<1> HIDE DEF f, named, T, byIndex
<1>8. IsFiniteSet(T) BY <1>2, <1>3, <1>5, ImageIsFinite
<1>9. ASSUME NEW id
      PROVE  Sum([index \in of(id) |-> byIndex[index]]) = Cardinality({i \in rows : named[i] = id})
  <2> DEFINE D == of(id)
             counts == [index \in D |-> byIndex[index]]
  <2>1. IsFiniteSet(D) BY <1>8, FS_Subset
  <2>2. D \subseteq T OBVIOUS
  <2>3. {i \in rows : f[i] \in D} = {i \in rows : named[i] = id} BY <1>4, <1>5
  <2> HIDE DEF D
  <2>4. counts = [g \in D |-> Cardinality({i \in rows : f[i] = g})] BY <1>6, <2>2
  <2> HIDE DEF counts
  <2>5. Sum(counts) = Cardinality({i \in rows : f[i] \in D}) BY <1>2, <2>1, <2>4, SumOfCounts
  <2> QED BY <2>3, <2>5 DEF counts, D
<1>10. N = {named[i] : i \in rows} BY <1>4, <1>5
<1>11. Destinations(byIndex) = [id \in N |-> Sum([index \in of(id) |-> byIndex[index]])]
  BY <1>7, Zenon DEF Destinations
<1> HIDE DEF of, N
<1>12. Destinations(byIndex) = Tally(rows, named) BY <1>9, <1>10, <1>11 DEF Tally
<1>13. Sum(Destinations(byIndex)) = Cardinality(rows) BY <1>2, <1>4, <1>12, AllAreCounted
<1> QED BY <1>1, <1>13

\* So do those of the buckets, and with the empty ones there is a bucket for every
\* moment.
LEMMA RatesAddUp ==
    ASSUME TablesOK, NEW svc \in Requests[scenario], svc.service = "rates",
           AprsSvcQueryTrafficRates(svc)
    PROVE  \/ reply'.service = "refused"
           \/ /\ reply'.service = "rates"
              /\ Sum(reply'.rates) = Cardinality(reply'.rows)
              /\ reply'.svc.empties =>
                   BucketsCover(reply'.svc, reply'.rates, {packets[i].when : i \in reply'.rows})
<1> SUFFICES ASSUME svc.bucket # 0
             PROVE  /\ reply'.service = "rates"
                    /\ Sum(reply'.rates) = Cardinality(reply'.rows)
                    /\ reply'.svc.empties =>
                         BucketsCover(reply'.svc, reply'.rates,
                                      {packets[i].when : i \in reply'.rows})
  <2>1. svc.bucket = 0 => reply'.service = "refused" BY DEF AprsSvcQueryTrafficRates
  <2> QED BY <2>1
<1> DEFINE rows == Chosen(LAMBDA p : Match(svc, p))
           bucket(i) == (packets[i].when \div svc.bucket) * svc.bucket
           full == {bucket(i) : i \in rows}
           bounded == (full # {} \/ svc.start > 1) /\ (full # {} \/ svc.end > 1)
           empty == IF svc.empties /\ bounded THEN Empties(svc, full) ELSE {}
           D == full \cup empty
           rates == [t \in D |-> Cardinality({i \in rows : bucket(i) = t})]
           times == {packets[i].when : i \in rows}
<1>1. reply' = [service |-> "rates", svc |-> svc, rows |-> rows, rates |-> rates]
  BY Zenon DEF AprsSvcQueryTrafficRates
<1>2. svc.start \in Nat /\ svc.end \in Nat /\ svc.bucket \in Nat \ {0} /\ svc.empties \in BOOLEAN
  BY RequestAssumption DEF TablesOK
<1>3. IsFiniteSet(rows) BY RowsAreFinite DEF Chosen
<1>4. \A i \in rows : packets[i].when \in Nat
  BY DEF Chosen, TablesOK, PacketOK
<1> HIDE DEF rows
<1> DEFINE at == [i \in rows |-> packets[i].when]
           f == [i \in rows |-> BucketOf(packets[i].when, svc.bucket)]
<1>5. /\ DOMAIN f = rows /\ DOMAIN at = rows
      /\ \A i \in rows : f[i] = bucket(i) /\ f[i] = BucketOf(packets[i].when, svc.bucket)
                         /\ at[i] = packets[i].when
  BY DEF BucketOf
<1>6. full = {f[i] : i \in rows} /\ times = {at[i] : i \in rows} BY <1>5
<1>7. full = {BucketOf(t, svc.bucket) : t \in times} BY <1>5
<1>8. times \in SUBSET Nat BY <1>4
<1>9. full \in SUBSET Nat
  <2>1. \A t \in times : BucketOf(t, svc.bucket) \in Nat BY <1>2, <1>8, OneBucket
  <2> QED BY <1>7, <2>1
<1>10. \A t : {i \in rows : bucket(i) = t} = {i \in rows : f[i] = t} BY <1>5
<1> HIDE DEF f, at, full, times
<1>11. IsFiniteSet(full) /\ IsFiniteSet(times) BY <1>3, <1>5, <1>6, ImageIsFinite
<1>12. IsFiniteSet(D)
  <2>1. CASE svc.empties /\ bounded
    <3>1. IsFiniteSet(Empties(svc, full)) BY <1>2, <1>9, <1>11, <2>1, EmptiesAreFinite
    <3> QED BY <1>11, <2>1, <3>1, FS_Union
  <2>2. CASE ~(svc.empties /\ bounded)
    <3>1. D = full BY <2>2
    <3> QED BY <1>11, <3>1
  <2> QED BY <2>1, <2>2
<1>13. Sum(rates) = Cardinality(rows)
  <2>1. {i \in rows : f[i] \in D} = rows BY <1>6
  <2> HIDE DEF D, bucket
  <2>2. rates = [t \in D |-> Cardinality({i \in rows : f[i] = t})] BY <1>10
  <2> HIDE DEF rates
  <2>3. Sum(rates) = Cardinality({i \in rows : f[i] \in D})
    BY <1>3, <1>12, <2>2, SumOfCounts
  <2> QED BY <2>1, <2>3
<1>14. ASSUME svc.empties PROVE BucketsCover(svc, rates, times)
  <2>1. bounded => DOMAIN rates = full \cup Empties(svc, full) BY <1>14
  <2> HIDE DEF rates
  <2> QED BY <1>2, <1>7, <1>8, <1>11, <2>1, BucketsAreAll
<1> HIDE DEF rates
<1> QED BY <1>1, <1>13, <1>14 DEF times

\* What is counted stays so while a client has the reply.
LEMMA CountsKept ==
    ASSUME TablesOK, CountedOnce, [Next]_vars
    PROVE  CountedOnce'
<1>1. CASE Query
  <2> PICK svc \in Requests[scenario] :
        \/ svc.service = "packets" /\ AprsSvcQueryPackets(svc)
        \/ svc.service = "paths" /\ AprsSvcQueryUniquePaths(svc)
        \/ svc.service = "igates" /\ AprsSvcQueryUniqueIGates(svc)
        \/ svc.service = "destinations" /\ AprsSvcQueryUniqueDestinations(svc)
        \/ svc.service = "rates" /\ AprsSvcQueryTrafficRates(svc)
    BY <1>1, Zenon DEF Query
  <2>0. packets' = packets BY <1>1 DEF Query
  <2>1. CASE AprsSvcQueryPackets(svc)
    <3>1. reply'.service = "packets" BY <2>1 DEF AprsSvcQueryPackets
    <3> QED BY <3>1 DEF CountedOnce
  <2>2. CASE AprsSvcQueryUniquePaths(svc)
    <3>1. reply'.service = "paths" BY <2>2 DEF AprsSvcQueryUniquePaths
    <3> QED BY <3>1 DEF CountedOnce
  <2>3. CASE AprsSvcQueryUniqueIGates(svc) BY <2>3, GatesAddUp DEF CountedOnce
  <2>4. CASE AprsSvcQueryUniqueDestinations(svc) BY <2>4, DestinationsAddUp DEF CountedOnce
  <2>5. CASE svc.service = "rates" /\ AprsSvcQueryTrafficRates(svc)
    <3>1. {packets[i].when : i \in reply.rows}' = {packets[i].when : i \in reply'.rows}
      BY <2>0
    <3> QED BY <2>5, <3>1, RatesAddUp DEF CountedOnce
  <2> QED BY <2>1, <2>2, <2>3, <2>4, <2>5
<1>2. CASE Map
  <2>1. reply'.service = "tiles" BY <1>2 DEF Map, AprsSvcCalcOSMTiles
  <2> QED BY <2>1 DEF CountedOnce
<1>3. CASE ~Query /\ ~Map
  <2>1. CASE reply' = NoReply BY <2>1 DEF CountedOnce, NoReply
  <2>2. CASE reply' = reply /\ packets' = packets
    <3>1. {packets[i].when : i \in reply.rows}' = {packets[i].when : i \in reply.rows} BY <2>2
    <3> QED BY <2>2, <3>1, Zenon DEF CountedOnce
  <2>3. CASE reply' = reply /\ reply = NoReply BY <2>3 DEF CountedOnce, NoReply
  <2> QED BY <1>3, <2>1, <2>2, <2>3, OtherReplies
<1> QED BY <1>1, <1>2, <1>3

\* No packet is counted twice or left out, by whom it was gated, to whom or when it
\* was sent, and no moment is in two buckets or in none.
THEOREM PacketsCountOnce == Spec => []CountedOnce
<1>1. Init => TablesOK /\ CountedOnce
  BY InitTables DEF Init, NoReply, CountedOnce
<1>2. TablesOK /\ CountedOnce /\ [Next]_vars => TablesOK' /\ CountedOnce'
  BY TablesKept, CountsKept
<1> QED BY <1>1, <1>2, PTL DEF Spec

-----------------------------------------------------------------------------
(* The paths between stations.                                             *)

\* What Reached takes up in a number of steps.
IsReach(reach, keys, source) ==
    /\ reach[0] = {source}
    /\ \A n \in 1..MAX_HOPS :
         reach[n] = reach[n - 1] \cup {k.to : k \in {key \in keys : key.from \in reach[n - 1]}}

\* Reached is the last of these sets.
LEMMA ReachIs ==
    ASSUME NEW keys, NEW source
    PROVE  \E reach : IsReach(reach, keys, source) /\ Reached(keys, source) = reach[MAX_HOPS]
<1> DEFINE V == SUBSET ({source} \cup {k.to : k \in keys})
           more(R) == R \cup {k.to : k \in {key \in keys : key.from \in R}}
           next == [i \in 1..MAX_HOPS |-> [R \in V |-> more(R)]]
           body(h) == [n \in 0..MAX_HOPS |->
                         IF n = 0 THEN {source}
                         ELSE h[n - 1] \cup {k.to : k \in {key \in keys : key.from \in h[n - 1]}}]
           reach == CHOOSE h : h = body(h)
<1>1. \A R \in V : more(R) \in V OBVIOUS
<1>2. {source} \in V OBVIOUS
<1> HIDE DEF V
<1>3. next \in [1..MAX_HOPS -> [V -> V]]
  <2> HIDE DEF more
  <2> QED BY <1>1
<1>4. MAX_HOPS \in Nat BY HopsAssumption
<1>5. PICK f : Unfolds(V, {source}, next, MAX_HOPS, f)
  <2> HIDE DEF next
  <2> QED BY <1>2, <1>3, <1>4, Recursion
<1>6. f = body(f)
  <2>1. f \in [0..MAX_HOPS -> V] BY <1>5 DEF Unfolds
  <2>2. ASSUME NEW i \in 0..MAX_HOPS PROVE f[i] = body(f)[i]
    <3>1. CASE i = 0 BY <1>5, <3>1 DEF Unfolds
    <3>2. CASE i # 0
      <4>1. i \in 1..MAX_HOPS /\ i - 1 \in 0..MAX_HOPS BY <1>4, <3>2
      <4>2. f[i] = next[i][f[i - 1]] /\ f[i - 1] \in V BY <1>5, <4>1 DEF Unfolds
      <4>3. f[i] = more(f[i - 1])
        <5> HIDE DEF more
        <5> QED BY <4>1, <4>2
      <4> QED BY <3>2, <4>3
    <3> QED BY <3>1, <3>2
  <2>3. body(f) = [i \in 0..MAX_HOPS |-> body(f)[i]] OBVIOUS
  <2> HIDE DEF body
  <2> QED BY <2>1, <2>2, <2>3
<1>7. reach = body(reach)
  <2> HIDE DEF body
  <2>1. \E h : h = body(h) BY <1>6
  <2> QED BY <2>1
<1>8. Reached(keys, source) = reach[MAX_HOPS] BY Zenon DEF Reached
<1> HIDE DEF reach
<1>9. \A n \in 0..MAX_HOPS : reach[n] = body(reach)[n] BY <1>7
<1>10. IsReach(reach, keys, source)
  <2>1. reach[0] = {source}
    <3>1. 0 \in 0..MAX_HOPS BY <1>4
    <3>2. reach[0] = body(reach)[0] BY <1>9, <3>1
    <3>3. body(reach)[0] = {source} BY <3>1
    <3> QED BY <3>2, <3>3
  <2>2. ASSUME NEW n \in 1..MAX_HOPS
        PROVE  reach[n] = reach[n - 1] \cup {k.to : k \in {key \in keys : key.from \in reach[n - 1]}}
    <3>1. n \in 0..MAX_HOPS /\ n # 0 BY <1>4
    <3> QED BY <1>9, <3>1
  <2> QED BY <2>1, <2>2 DEF IsReach
<1> QED BY <1>8, <1>10

\* More steps reach no less.
LEMMA ReachGrows ==
    ASSUME NEW reach, NEW keys, NEW source, IsReach(reach, keys, source),
           NEW n \in 0..MAX_HOPS
    PROVE  reach[n] \subseteq reach[MAX_HOPS]
<1> DEFINE T == {k \in Nat : n + k <= MAX_HOPS => reach[n] \subseteq reach[n + k]}
<1>1. n \in Nat /\ MAX_HOPS \in Nat BY HopsAssumption
<1>2. 0 \in T BY <1>1
<1>3. ASSUME NEW k \in Nat, k \in T PROVE k + 1 \in T
  <2> SUFFICES ASSUME n + (k + 1) <= MAX_HOPS PROVE reach[n] \subseteq reach[n + (k + 1)]
    OBVIOUS
  <2>1. n + (k + 1) \in 1..MAX_HOPS /\ (n + (k + 1)) - 1 = n + k /\ n + k <= MAX_HOPS
    BY <1>1
  <2>2. reach[n + k] \subseteq reach[n + (k + 1)] BY <2>1 DEF IsReach
  <2>3. reach[n] \subseteq reach[n + k] BY <1>3, <2>1
  <2> QED BY <2>2, <2>3
<1> HIDE DEF T
<1>4. Nat \subseteq T BY <1>2, <1>3, NatInduct
<1>5. MAX_HOPS - n \in T BY <1>1, <1>4
<1>6. n + (MAX_HOPS - n) = MAX_HOPS BY <1>1
<1> QED BY <1>1, <1>5, <1>6 DEF T

\* A hop of the walk is passed over, or it is reached from the last one taken.
Moves(before, after, rows, seq, invalid) ==
    \/ /\ after.from = before.from /\ after.keys = before.keys
       /\ seq = 1 => Skipped(rows[seq].id, invalid)
    \/ /\ after.from = Index(rows[seq].id)
       /\ \E key : /\ key.from = before.from /\ key.to = after.from
                   /\ after.keys = Append(before.keys, key)

Path == [from : Station, fromAt : Where, to : Station, toAt : Where,
         relay : BOOLEAN, igate : BOOLEAN]
Walking == [from : Station, at : Where, passedUsed : BOOLEAN, keys : Seq(Path)]

IsWalk(walk, rows, invalid) ==
    /\ walk[Len(rows)].from = Index(rows[Len(rows)].id)
    /\ \A seq \in DOMAIN rows : walk[seq] \in Walking
    /\ \A seq \in DOMAIN rows : seq # Len(rows) => Moves(walk[seq + 1], walk[seq], rows, seq, invalid)

\* Walk goes along the hops from the sender to the gate.
LEMMA WalkIs ==
    ASSUME NEW rows \in Seq(HopType), Len(rows) \in Nat \ {0}, NEW invalid, NEW origin, NEW heard
    PROVE  \E walk : IsWalk(walk, rows, invalid) /\ Walk(rows, invalid, origin, heard) = walk[1].keys
<1> DEFINE L == Len(rows)
           start == [from |-> Index(Last(rows).id), at |-> Last(rows).where,
                     passedUsed |-> \A i \in DOMAIN rows : ~rows[i].used,
                     keys |-> <<>>]
           taken(before, seq) ==
               ~Skipped(rows[seq].id, invalid) /\ ~NotUsed(before, rows[seq], seq)
           key(before, seq) ==
               [from |-> before.from, fromAt |-> before.at,
                to |-> Index(rows[seq].id), toAt |-> rows[seq].where,
                relay |-> before.from # origin, igate |-> Index(rows[seq].id) = heard]
           step(before, seq) ==
               [from |-> IF taken(before, seq) THEN key(before, seq).to ELSE before.from,
                at |-> IF taken(before, seq) THEN key(before, seq).toAt ELSE before.at,
                passedUsed |-> before.passedUsed \/ rows[seq].used,
                keys |-> IF taken(before, seq) THEN Append(before.keys, key(before, seq))
                         ELSE before.keys]
           body(h) == [seq \in DOMAIN rows |->
                         IF seq = Len(rows) THEN start ELSE step(h[seq + 1], seq)]
           walk == CHOOSE h : h = body(h)
<1>1. DOMAIN rows = 1..L /\ L \in Nat \ {0} /\ \A seq \in 1..L : rows[seq] \in HopType
  BY LenProperties, ElementOfSeq
<1>2. start \in Walking /\ start.from = Index(rows[L].id)
  <2>1. Last(rows) = rows[L] /\ rows[L] \in HopType BY <1>1 DEF Last
  <2>2. rows[L].id \in Name /\ rows[L].where \in Where BY <2>1 DEF HopType
  <2>3. (\A i \in DOMAIN rows : ~rows[i].used) \in BOOLEAN OBVIOUS
  <2>4. Index(rows[L].id) \in Station BY <2>2 DEF Index, Station
  <2>5. <<>> \in Seq(Path) BY EmptySeq
  <2> QED BY <2>1, <2>2, <2>3, <2>4, <2>5 DEF Walking
<1>3. ASSUME NEW seq \in 1..L, NEW before \in Walking
      PROVE  step(before, seq) \in Walking /\ Moves(before, step(before, seq), rows, seq, invalid)
  <2>1. /\ before.from \in Station /\ before.at \in Where /\ before.passedUsed \in BOOLEAN
        /\ before.keys \in Seq(Path)
    BY DEF Walking
  <2>2. rows[seq].id \in Name /\ rows[seq].used \in BOOLEAN /\ rows[seq].where \in Where
    BY <1>1 DEF HopType
  <2>3. Index(rows[seq].id) \in Station BY <2>2 DEF Index, Station
  <2> DEFINE k == key(before, seq)
             after == step(before, seq)
  <2>4. k \in Path /\ k.from = before.from /\ k.to = Index(rows[seq].id) /\ k.toAt = rows[seq].where
    BY <2>1, <2>2, <2>3 DEF Path
  <2>5. /\ after.from = (IF taken(before, seq) THEN k.to ELSE before.from)
        /\ after.keys = (IF taken(before, seq) THEN Append(before.keys, k) ELSE before.keys)
    OBVIOUS
  <2>6. after = [from |-> IF taken(before, seq) THEN k.to ELSE before.from,
                 at |-> IF taken(before, seq) THEN k.toAt ELSE before.at,
                 passedUsed |-> before.passedUsed \/ rows[seq].used,
                 keys |-> IF taken(before, seq) THEN Append(before.keys, k) ELSE before.keys]
    OBVIOUS
  <2> HIDE DEF k, after
  <2>7. Append(before.keys, k) \in Seq(Path) BY <2>1, <2>4, AppendProperties
  <2>8. after \in Walking
    <3> HIDE DEF taken
    <3> QED BY <2>1, <2>2, <2>3, <2>4, <2>6, <2>7 DEF Walking
  <2>9. Moves(before, after, rows, seq, invalid)
    <3>1. CASE taken(before, seq)
      <4> HIDE DEF taken
      <4> QED BY <2>4, <2>5, <3>1 DEF Moves
    <3>2. CASE ~taken(before, seq)
      <4>1. seq = 1 => Skipped(rows[seq].id, invalid) BY <3>2 DEF NotUsed
      <4> HIDE DEF taken
      <4> QED BY <2>5, <3>2, <4>1 DEF Moves
    <3> QED BY <3>1, <3>2
  <2> QED BY <2>8, <2>9 DEF after
<1>4. Walk(rows, invalid, origin, heard) = walk[1].keys BY Zenon DEF Walk
<1>0. Len(rows) = L OBVIOUS
<1> HIDE DEF step, start, L
<1> DEFINE n == L - 1
           next == [i \in 1..n |-> [before \in Walking |-> step(before, L - i)]]
<1>5. n \in Nat /\ next \in [1..n -> [Walking -> Walking]]
  <2>1. \A i \in 1..n : L - i \in 1..L BY <1>1
  <2>2. \A i \in 1..n : \A before \in Walking : step(before, L - i) \in Walking BY <1>3, <2>1
  <2> QED BY <1>1, <2>2
<1>6. PICK f : Unfolds(Walking, start, next, n, f)
  <2> HIDE DEF n, next
  <2> QED BY <1>2, <1>5, Recursion
<1> DEFINE g == [seq \in 1..L |-> f[L - seq]]
<1>7. g = body(g)
  <2>1. ASSUME NEW seq \in 1..L PROVE g[seq] = body(g)[seq]
    <3>1. CASE seq = L
      <4>1. L - seq = 0 BY <1>1, <3>1
      <4>2. g[seq] = start BY <1>6, <4>1 DEF Unfolds
      <4> HIDE DEF g
      <4> QED BY <1>0, <1>1, <3>1, <4>2
    <3>2. CASE seq # L
      <4> DEFINE i == L - seq
      <4>1. i \in 1..n /\ L - (seq + 1) = i - 1 /\ L - i = seq /\ seq + 1 \in 1..L
            /\ i - 1 \in 0..n
        BY <1>1, <3>2
      <4>2. f[i] = next[i][f[i - 1]] /\ f[i - 1] \in Walking BY <1>6, <4>1 DEF Unfolds
      <4>3. g[seq] = f[i] /\ g[seq + 1] = f[i - 1] BY <4>1
      <4> HIDE DEF g, i
      <4>4. f[i] = step(f[i - 1], seq) BY <4>1, <4>2
      <4> QED BY <1>0, <1>1, <3>2, <4>3, <4>4
    <3> QED BY <3>1, <3>2
  <2>2. g = [seq \in 1..L |-> g[seq]] OBVIOUS
  <2>3. body(g) = [seq \in 1..L |-> body(g)[seq]] BY <1>1
  <2> HIDE DEF g, body
  <2> QED BY <2>1, <2>2, <2>3
<1>8. walk = body(walk) BY <1>7
<1> HIDE DEF walk, g
<1>9. /\ walk[L] = start
      /\ \A seq \in 1..L : seq # L => walk[seq] = step(walk[seq + 1], seq)
  <2>1. \A seq \in 1..L : walk[seq] = body(walk)[seq] BY <1>8
  <2>2. L \in 1..L BY <1>1
  <2>3. body(walk)[L] = start BY <1>0, <1>1, <2>2
  <2>4. \A seq \in 1..L : seq # L => body(walk)[seq] = step(walk[seq + 1], seq) BY <1>0, <1>1
  <2> QED BY <2>1, <2>2, <2>3, <2>4
<1> HIDE DEF body
<1> DEFINE T == {i \in Nat : i < L => walk[L - i] \in Walking}
<1>10. 0 \in T
  <2>1. L - 0 = L BY <1>1
  <2> QED BY <1>2, <1>9, <2>1
<1>11. ASSUME NEW i \in Nat, i \in T PROVE i + 1 \in T
  <2> SUFFICES ASSUME i + 1 < L PROVE walk[L - (i + 1)] \in Walking OBVIOUS
  <2> DEFINE seq == L - (i + 1)
  <2>1. seq \in 1..L /\ seq # L /\ seq + 1 = L - i /\ i < L BY <1>1
  <2>2. walk[seq + 1] \in Walking BY <1>11, <2>1
  <2> HIDE DEF seq
  <2>3. walk[seq] = step(walk[seq + 1], seq) BY <1>9, <2>1
  <2>4. walk[seq] \in Walking BY <1>3, <2>1, <2>2, <2>3
  <2> QED BY <2>4 DEF seq
<1> HIDE DEF T
<1>12. Nat \subseteq T BY <1>10, <1>11, NatInduct
<1>13. ASSUME NEW seq \in 1..L PROVE walk[seq] \in Walking
  <2>1. L - seq \in Nat /\ L - seq < L /\ L - (L - seq) = seq BY <1>1
  <2>2. L - seq \in T BY <1>12, <2>1
  <2> QED BY <2>1, <2>2 DEF T
<1>14. ASSUME NEW seq \in 1..L, seq # L
       PROVE  Moves(walk[seq + 1], walk[seq], rows, seq, invalid)
  <2>1. seq + 1 \in 1..L BY <1>1, <1>14
  <2>2. walk[seq + 1] \in Walking /\ walk[seq] = step(walk[seq + 1], seq)
    BY <1>9, <1>13, <1>14, <2>1
  <2> QED BY <1>3, <2>2
<1>15. IsWalk(walk, rows, invalid) BY <1>0, <1>1, <1>2, <1>9, <1>13, <1>14 DEF IsWalk
<1> QED BY <1>4, <1>15

\* The hop a walk takes last is reached from its first over the paths it takes.
LEMMA WalkReaches ==
    ASSUME NEW rows \in Seq(HopType), Len(rows) \in 1..MAX_HOPS, NEW invalid,
           NEW walk, IsWalk(walk, rows, invalid), ~Skipped(rows[1].id, invalid),
           NEW keys, \A m \in DOMAIN walk[1].keys : walk[1].keys[m] \in keys
    PROVE  Index(rows[1].id) \in Reached(keys, Index(rows[Len(rows)].id))
<1> DEFINE L == Len(rows)
           source == Index(rows[L].id)
           given(seq) == \A m \in DOMAIN walk[seq].keys : walk[seq].keys[m] \in keys
<1>1. DOMAIN rows = 1..L /\ L \in Nat \ {0} /\ L <= MAX_HOPS /\ MAX_HOPS \in Nat
  BY LenProperties, HopsAssumption
<1>2. PICK reach : IsReach(reach, keys, source) /\ Reached(keys, source) = reach[MAX_HOPS]
  <2> HIDE DEF source
  <2> QED BY ReachIs
<1>3. /\ walk[L].from = source /\ \A seq \in 1..L : walk[seq] \in Walking
      /\ \A seq \in 1..L : seq # L => Moves(walk[seq + 1], walk[seq], rows, seq, invalid)
  <2>1. /\ walk[L].from = source /\ \A seq \in DOMAIN rows : walk[seq] \in Walking
        /\ \A seq \in DOMAIN rows : seq # L => Moves(walk[seq + 1], walk[seq], rows, seq, invalid)
    BY DEF IsWalk
  <2> HIDE DEF L, source
  <2> QED BY <1>1, <2>1
<1>5. given(1) OBVIOUS
<1> HIDE DEF L, source
<1>6. ASSUME NEW seq \in 1..L, seq # L, given(seq)
      PROVE  /\ given(seq + 1)
             /\ \/ walk[seq].from = walk[seq + 1].from
                \/ \E key \in keys : key.from = walk[seq + 1].from /\ key.to = walk[seq].from
  <2> DEFINE before == walk[seq + 1]
             after == walk[seq]
  <2>1. Moves(before, after, rows, seq, invalid) BY <1>3, <1>6
  <2>2. seq + 1 \in 1..L BY <1>1, <1>6
  <2>3. before.keys \in Seq(Path) BY <1>3, <2>2 DEF Walking
  <2>4. \A m \in DOMAIN after.keys : after.keys[m] \in keys BY <1>6
  <2> SUFFICES /\ \A m \in DOMAIN before.keys : before.keys[m] \in keys
               /\ \/ after.from = before.from
                  \/ \E key \in keys : key.from = before.from /\ key.to = after.from
    OBVIOUS
  <2> HIDE DEF before, after
  <2>5. CASE after.from = before.from /\ after.keys = before.keys BY <2>4, <2>5
  <2>6. CASE \E key : /\ key.from = before.from /\ key.to = after.from
                      /\ after.keys = Append(before.keys, key)
    <3> PICK key : /\ key.from = before.from /\ key.to = after.from
                   /\ after.keys = Append(before.keys, key)
      BY <2>6
    <3> DEFINE s == before.keys
               K == Path \cup {key}
    <3>1. s \in Seq(K) /\ key \in K BY <2>3, SeqMonotonic
    <3> HIDE DEF K
    <3>2. /\ Append(s, key) \in Seq(K) /\ Len(Append(s, key)) = Len(s) + 1
          /\ \A m \in 1..Len(s) : Append(s, key)[m] = s[m]
          /\ Append(s, key)[Len(s) + 1] = key
      BY <3>1, AppendProperties
    <3>3. Len(s) \in Nat /\ DOMAIN s = 1..Len(s) BY <3>1, LenProperties
    <3>4. DOMAIN Append(s, key) = 1..(Len(s) + 1) BY <3>2, LenProperties
    <3>5. after.keys = Append(s, key) OBVIOUS
    <3> HIDE DEF s
    <3>6. \A m \in 1..Len(s) : s[m] \in keys BY <2>4, <3>2, <3>3, <3>4, <3>5
    <3>7. key \in keys
      <4>1. Len(s) + 1 \in DOMAIN after.keys BY <3>3, <3>4, <3>5
      <4>2. after.keys[Len(s) + 1] \in keys BY <2>4, <4>1
      <4> QED BY <3>2, <3>5, <4>2
    <3> QED BY <3>3, <3>6, <3>7 DEF s
  <2> QED BY <2>1, <2>5, <2>6 DEF Moves
<1> HIDE DEF given
<1> DEFINE T == {n \in Nat : n + 1 <= L => given(n + 1)}
<1>7. 0 \in T BY <1>5
<1>8. ASSUME NEW n \in Nat, n \in T PROVE n + 1 \in T
  <2>1. n + 2 <= L => n + 1 \in 1..L /\ n + 1 # L /\ (n + 1) + 1 = n + 2 BY <1>1
  <2>2. n + 2 <= L => given(n + 2) BY <1>1, <1>6, <1>8, <2>1
  <2>3. (n + 1) + 1 = n + 2 OBVIOUS
  <2> QED BY <2>2, <2>3
<1> HIDE DEF T
<1>9. Nat \subseteq T BY <1>7, <1>8, NatInduct
<1>10. ASSUME NEW seq \in 1..L PROVE given(seq)
  <2>1. seq - 1 \in T /\ (seq - 1) + 1 = seq /\ seq <= L BY <1>1, <1>9
  <2> QED BY <2>1 DEF T
<1> DEFINE U == {n \in Nat : n < L => walk[L - n].from \in reach[n]}
<1>11. 0 \in U
  <2>1. L - 0 = L /\ source \in reach[0] BY <1>1, <1>2 DEF IsReach
  <2> QED BY <1>3, <2>1
<1>12. ASSUME NEW n \in Nat, n \in U PROVE n + 1 \in U
  <2> SUFFICES ASSUME n + 1 < L PROVE walk[L - (n + 1)].from \in reach[n + 1] OBVIOUS
  <2> DEFINE seq == L - (n + 1)
             m == n + 1
  <2>1. seq \in 1..L /\ seq # L /\ seq + 1 = L - n /\ n < L /\ m \in 1..MAX_HOPS /\ m - 1 = n
    BY <1>1
  <2>2. walk[seq + 1].from \in reach[n] BY <1>12, <2>1
  <2> HIDE DEF seq, m
  <2>3. \/ walk[seq].from = walk[seq + 1].from
        \/ \E key \in keys : key.from = walk[seq + 1].from /\ key.to = walk[seq].from
    BY <1>6, <1>10, <2>1
  <2>4. reach[m] = reach[n] \cup {k.to : k \in {key \in keys : key.from \in reach[n]}}
    BY <1>2, <2>1 DEF IsReach
  <2>5. walk[seq].from \in reach[m] BY <2>2, <2>3, <2>4
  <2> QED BY <2>5 DEF seq, m
<1> HIDE DEF U
<1>13. Nat \subseteq U BY <1>11, <1>12, NatInduct
<1>14. walk[1].from \in reach[L - 1]
  <2>1. L - 1 \in Nat /\ L - 1 < L /\ L - (L - 1) = 1 BY <1>1
  <2>2. L - 1 \in U BY <1>13, <2>1
  <2> QED BY <2>1, <2>2 DEF U
<1>15. reach[L - 1] \subseteq reach[MAX_HOPS]
  <2>1. L - 1 \in 0..MAX_HOPS BY <1>1
  <2> QED BY <1>2, <2>1, ReachGrows
<1>16. walk[1].from = Index(rows[1].id)
  <2>1. CASE L = 1 BY <1>3, <2>1 DEF source
  <2>2. CASE L # 1
    <3>1. 1 \in 1..L BY <1>1
    <3>2. Moves(walk[1 + 1], walk[1], rows, 1, invalid) BY <1>3, <2>2, <3>1
    <3> QED BY <3>2 DEF Moves
  <2> QED BY <2>1, <2>2
<1> QED BY <1>2, <1>14, <1>15, <1>16 DEF source, L

-----------------------------------------------------------------------------
(* The gates of the packets.                                               *)

\* The gate of a packet is the hop it ends with.
IsGate(p) ==
    p.heard # NotFound =>
        /\ p.heard = Index(p.hops[1].id)
        /\ p.hops[1].id \notin KnownQ \cup OtherQ \cup Alias
GateInv == \A i \in DOMAIN packets : IsGate(packets[i])

\* A packet that is stored ends with its gate.
LEMMA InsertsGate ==
    ASSUME TablesOK, GateInv, NEW in, NEW hops, NEW path \in Seq(Piece), Len(path) >= 2,
           NEW gate, NEW onRF, Insert(in, hops, path, gate, onRF),
           gate # NoName => /\ Len(path) >= 3 /\ path[Len(path)].id = gate
                            /\ gate \notin KnownQ \cup OtherQ \cup Alias
    PROVE  GateInv'
<1> DEFINE rows == HopRows(path)
<1>1. PICK p : /\ packets' = Append(packets, p)
               /\ p.heard = GetIndex(gate, gate)
               /\ DOMAIN p.hops = DOMAIN rows
               /\ \A i \in DOMAIN rows : p.hops[i].id = rows[i].id
  <2> DEFINE heard == GetIndex(gate, gate)
             table == Known(Touched(in, hops),
                            ({Dest(in, hops), heard} \ {NoDest, NotFound})
                              \cup {Index(rows[i].id) : i \in DOMAIN rows})
             stored == [i \in DOMAIN rows |->
                          [id |-> rows[i].id, used |-> rows[i].used,
                           where |-> table[Index(rows[i].id)]]]
             q == [origin |-> Origin(in, hops), dest |-> Dest(in, hops), heard |-> heard,
                   onRF |-> onRF, mice |-> in.mice, when |-> in.when, where |-> in.where,
                   hops |-> stored]
  <2>1. packets' = Append(packets, q) BY Zenon DEF Insert
  <2> HIDE DEF rows, table
  <2>2. q.heard = GetIndex(gate, gate) /\ q.hops = stored OBVIOUS
  <2>3. DOMAIN stored = DOMAIN rows /\ \A i \in DOMAIN rows : stored[i].id = rows[i].id OBVIOUS
  <2> HIDE DEF q, stored
  <2> QED BY <2>1, <2>2, <2>3
<1>2. IsGate(p)
  <2>1. CASE gate = NoName BY <1>1, <2>1 DEF IsGate, GetIndex
  <2>2. CASE gate # NoName
    <3>1. rows[1] = path[Len(path)] BY <2>2, FirstRow
    <3>2. 1 \in DOMAIN rows
      <4>1. DOMAIN rows = 1..(Len(path) - 1) BY HopRowsType
      <4>2. Len(path) \in Nat BY LenProperties
      <4> QED BY <4>1, <4>2
    <3> HIDE DEF rows
    <3>3. p.hops[1].id = gate BY <1>1, <2>2, <3>1, <3>2
    <3>4. p.heard = Index(gate) BY <1>1, <2>2 DEF GetIndex, Index
    <3> QED BY <2>2, <3>3, <3>4 DEF IsGate
  <2> QED BY <2>1, <2>2
<1> DEFINE all == {packets[i] : i \in DOMAIN packets} \cup {p}
<1>3. packets \in Seq(all) /\ p \in all BY SeqMonotonic DEF TablesOK
<1> HIDE DEF all
<1>4. /\ packets' \in Seq(all) /\ Len(packets') = Len(packets) + 1
      /\ \A i \in 1..Len(packets) : packets'[i] = packets[i]
      /\ packets'[Len(packets) + 1] = p
  BY <1>1, <1>3, AppendProperties
<1>5. Len(packets) \in Nat /\ DOMAIN packets = 1..Len(packets)
      /\ DOMAIN packets' = 1..(Len(packets) + 1)
  BY <1>3, <1>4, LenProperties
<1>6. \A i \in DOMAIN packets' : IsGate(packets'[i]) BY <1>2, <1>4, <1>5 DEF GateInv
<1> QED BY <1>6 DEF GateInv

\* Every step keeps that the gates are the ends of the paths.
LEMMA GatesKept ==
    ASSUME GatesEndPaths, TablesOK, GateInv, [Next]_vars
    PROVE  GateInv'
<1>1. CASE Log
  <2> PICK in \in Inputs[scenario] : AprsLogPacket(in) \/ AprsLogReceivedPacket(in)
    BY <1>1 DEF Log
  <2>1. /\ in \in PacketInput /\ scenario \in Scenario
        /\ Len(in.path) >= 2 /\ (in.third = <<>> \/ Len(in.third) = 2)
    BY DEF TablesOK
  <2> DEFINE hops == Hops(in.path, in.third)
             gate == IF in.by = NoName THEN IGate(hops) ELSE in.by
  <2>2. /\ in.path \in Seq(Piece) /\ in.third \in Seq(Piece) /\ in.by \in Name \cup {NoName}
    BY <2>1 DEF PacketInput
  <2>3. hops \in Seq(Piece) /\ Len(hops) \in 2..MAX_HOPS BY <2>1, <2>2, HopsType
  <2>4. gate # NoName =>
          /\ gate \notin KnownQ \cup OtherQ \cup Alias
          /\ in.by = NoName => Len(hops) >= 3 /\ Last(hops).id = gate
    BY <2>1, Zenon DEF GatesEndPaths
  <2>5. Len(hops) \in Nat /\ Len(hops) >= 2 /\ Last(hops) = hops[Len(hops)]
    BY <2>3, LenProperties, HopsAssumption DEF Last
  <2>6. CASE AprsLogPacket(in)
    <3>1. in.by = NoName /\ gate = IGate(hops) BY <2>6 DEF AprsLogPacket
    <3>2. CASE in.where # NoCoord
      <4>1. Insert(in, hops, hops, IGate(hops), FALSE) BY <2>6, <3>2, Zenon DEF AprsLogPacket
      <4> HIDE DEF hops, gate
      <4> QED BY <2>3, <2>4, <2>5, <3>1, <4>1, InsertsGate
    <3>3. CASE in.where = NoCoord
      <4>1. packets' = packets BY <2>6, <3>3, Zenon DEF AprsLogPacket
      <4> QED BY <4>1 DEF GateInv
    <3> QED BY <3>2, <3>3
  <2>7. CASE AprsLogReceivedPacket(in)
    <3> DEFINE final == [id |-> in.by, used |-> FALSE]
               path == Append(hops, final)
    <3>1. in.by # NoName /\ in.by \in Name /\ gate = in.by
      BY <2>2, <2>7 DEF AprsLogReceivedPacket
    <3>2. final \in Piece /\ final.id = in.by BY <3>1 DEF Piece
    <3>3. Insert(in, hops, path, in.by, in.third = <<>>)
      BY <2>7, Zenon DEF AprsLogReceivedPacket
    <3> HIDE DEF hops, final, gate
    <3>4. path \in Seq(Piece) /\ Len(path) = Len(hops) + 1 /\ path[Len(hops) + 1] = final
      BY <2>3, <3>2, AppendProperties
    <3>5. Len(path) >= 3 /\ path[Len(path)].id = in.by BY <2>5, <3>2, <3>4
    <3> HIDE DEF path
    <3>6. Len(path) >= 2 BY <2>5, <3>4
    <3> QED BY <2>4, <3>1, <3>3, <3>4, <3>5, <3>6, InsertsGate
  <2> QED BY <2>6, <2>7
<1>2. CASE packets' = packets BY <1>2 DEF GateInv
<1> QED BY <1>1, <1>2 DEF Next, Query, Map, Taken, vars

\* The paths of a reply lead to the gates.
LEMMA PathsReachGates ==
    ASSUME TablesOK, GateInv, NEW svc, AprsSvcQueryUniquePaths(svc), packets' = packets
    PROVE  GateIsReached'
<1> DEFINE rows == Chosen(LAMBDA p : Match(svc, p))
           uses == UNION {{<<i, n>> : n \in DOMAIN PathsOf(svc, i)} : i \in rows}
           key(use) == PathsOf(svc, use[1])[use[2]]
           data(k) ==
               LET of == {use \in uses : key(use) = k}
                   times == {packets[use[1]].when : use \in of}
               IN  [uses |-> Cardinality(of), first |-> Min(times), last |-> Max(times)]
           keys == {k \in {key(use) : use \in uses} : ~svc.direct \/ Direct(svc, k)}
           paths == [k \in keys |-> data(k)]
<1>1. reply' = [service |-> "paths", svc |-> svc, rows |-> rows, paths |-> paths]
  BY Zenon DEF AprsSvcQueryUniquePaths
<1>2. DOMAIN paths = keys OBVIOUS
<1>3. rows \subseteq DOMAIN packets BY DEF Chosen
<1>4. ASSUME ~svc.direct, NEW i \in rows, NEW n \in DOMAIN PathsOf(svc, i)
      PROVE  PathsOf(svc, i)[n] \in keys
  <2> DEFINE use == <<i, n>>
  <2>1. use \in uses
    <3> DEFINE of(j) == {<<j, m>> : m \in DOMAIN PathsOf(svc, j)}
    <3>1. use \in of(i) BY <1>4
    <3>2. uses = UNION {of(j) : j \in rows} OBVIOUS
    <3> HIDE DEF use, uses, of
    <3> QED BY <3>1, <3>2
  <2>2. key(use) = PathsOf(svc, i)[n] OBVIOUS
  <2> HIDE DEF use, uses, key
  <2> QED BY <1>4, <2>1, <2>2
<1> HIDE DEF rows, keys, paths
<1>5. reply'.svc = svc /\ reply'.rows = rows /\ DOMAIN reply'.paths = keys BY <1>1, <1>2
<1>6. ASSUME ~svc.direct, NEW i \in rows, packets[i].heard # NotFound,
             svc.invalid \/ packets[i].heard[1] \in Call
      PROVE  packets[i].heard \in Reached(keys, Index(Last(packets[i].hops).id))
  <2> DEFINE p == packets[i]
             h == p.hops
  <2>1. i \in DOMAIN packets BY <1>3
  <2>2. h \in Seq(HopType) /\ Len(h) \in 1..MAX_HOPS
    BY <2>1 DEF TablesOK, PacketOK
  <2>3. p.heard = Index(h[1].id) /\ h[1].id \notin KnownQ \cup OtherQ \cup Alias
    BY <1>6, <2>1 DEF GateInv, IsGate
  <2>4. ~Skipped(h[1].id, svc.invalid) BY <1>6, <2>3 DEF Skipped, Index
  <2>5. PathsOf(svc, i) = Walk(h, svc.invalid, p.origin, p.heard) BY DEF PathsOf
  <2>6. Last(h) = h[Len(h)] BY DEF Last
  <2> HIDE DEF h
  <2>7. Len(h) \in Nat \ {0} BY <2>2, HopsAssumption
  <2>8. PICK walk : /\ IsWalk(walk, h, svc.invalid)
                    /\ Walk(h, svc.invalid, p.origin, p.heard) = walk[1].keys
    <3> DEFINE o == p.origin
               g == p.heard
    <3> HIDE DEF o, g
    <3>1. \E walk : IsWalk(walk, h, svc.invalid) /\ Walk(h, svc.invalid, o, g) = walk[1].keys
      BY <2>2, <2>7, WalkIs
    <3> QED BY <3>1 DEF o, g
  <2>9. \A m \in DOMAIN walk[1].keys : walk[1].keys[m] \in keys
    BY <1>4, <1>6, <2>5, <2>8
  <2>10. Index(h[1].id) \in Reached(keys, Index(h[Len(h)].id))
    BY <2>2, <2>4, <2>8, <2>9, WalkReaches
  <2> QED BY <2>3, <2>6, <2>10 DEF h
<1> QED BY <1>5, <1>6, Zenon DEF GateIsReached

\* What the paths of a reply reach stays so while a client has it.
LEMMA ReachedKept ==
    ASSUME TablesOK, GateInv, GateIsReached, [Next]_vars
    PROVE  GateIsReached'
<1>1. CASE Query
  <2> PICK svc \in Requests[scenario] :
        \/ AprsSvcQueryPackets(svc) \/ AprsSvcQueryUniquePaths(svc)
        \/ AprsSvcQueryUniqueIGates(svc) \/ AprsSvcQueryUniqueDestinations(svc)
        \/ AprsSvcQueryTrafficRates(svc)
    BY <1>1, Zenon DEF Query
  <2>1. CASE AprsSvcQueryUniquePaths(svc)
    <3>1. packets' = packets BY <1>1 DEF Query
    <3> QED BY <2>1, <3>1, PathsReachGates
  <2>2. CASE ~AprsSvcQueryUniquePaths(svc)
    <3>1. AprsSvcQueryPackets(svc) => reply'.service = "packets" BY DEF AprsSvcQueryPackets
    <3>2. AprsSvcQueryUniqueIGates(svc) => reply'.service \in {"refused", "igates"}
      BY DEF AprsSvcQueryUniqueIGates
    <3>3. AprsSvcQueryUniqueDestinations(svc) => reply'.service \in {"refused", "destinations"}
      BY DEF AprsSvcQueryUniqueDestinations
    <3>4. AprsSvcQueryTrafficRates(svc) => reply'.service \in {"refused", "rates"}
      BY DEF AprsSvcQueryTrafficRates
    <3>5. reply'.service # "paths" BY <2>2, <3>1, <3>2, <3>3, <3>4
    <3> QED BY <3>5 DEF GateIsReached
  <2> QED BY <2>1, <2>2
<1>2. CASE Map
  <2>1. reply'.service = "tiles" BY <1>2 DEF Map, AprsSvcCalcOSMTiles
  <2> QED BY <2>1 DEF GateIsReached
<1>3. CASE ~Query /\ ~Map
  <2>1. CASE reply' = NoReply BY <2>1 DEF GateIsReached, NoReply
  <2>2. CASE reply' = reply /\ packets' = packets BY <2>2, Zenon DEF GateIsReached
  <2>3. CASE reply' = reply /\ reply = NoReply BY <2>3 DEF GateIsReached, NoReply
  <2> QED BY <1>3, <2>1, <2>2, <2>3, OtherReplies
<1> QED BY <1>1, <1>2, <1>3

\* Along the paths between stations every packet gets from its sender to its gate,
\* whatever hops are passed over on its way, when the gate is a station at the end of
\* its path.
THEOREM PathsReachTheGate == GatesEndPaths => (Spec => []GateIsReached)
<1> SUFFICES ASSUME GatesEndPaths PROVE Spec => []GateIsReached OBVIOUS
<1>1. Init => TablesOK /\ GateInv /\ GateIsReached
  BY InitTables DEF Init, NoReply, GateInv, GateIsReached
<1>2. TablesOK /\ GateInv /\ GateIsReached /\ [Next]_vars
        => TablesOK' /\ GateInv' /\ GateIsReached'
  BY TablesKept, GatesKept, ReachedKept
<1> QED BY <1>1, <1>2, PTL DEF Spec

=============================================================================
