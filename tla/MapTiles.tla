------------------------------ MODULE MapTiles ------------------------------
(***************************************************************************)
(* The map of a set of positions (services.c): the box around them, and    *)
(* the tiles of the OpenStreetMap that cover a box with some margin.       *)
(*                                                                         *)
(* A position is [x, y] in pixels of the map at the zoom MAX_ZOOM, x to    *)
(* the east and y to the south, with the equator and Greenwich at Zero:    *)
(* longitudes are proportional to x; latitudes fall with y, and within one *)
(* tile, where the code compares degrees with pixels of a margin, they are *)
(* taken as proportional as well.                                          *)
(*                                                                         *)
(* Operators with a name of the form <Definition>_<Fault> are the          *)
(* definition with a plausible fault of the code: each shows that a        *)
(* property can fail.  No specification uses them.                         *)
(***************************************************************************)
EXTENDS Integers, SequencesExt

CONSTANTS MAX_ZOOM,   \* the first zoom tried, 18 in the code
          TileSize    \* pixels of a tile, 256

ASSUME TilesAssumption == MAX_ZOOM \in Nat \ {0, 1} /\ TileSize \in Nat \ {0}

Zero == [x |-> TileSize * 2^(MAX_ZOOM - 1), y |-> TileSize * 2^(MAX_ZOOM - 1)]
Lower(a, b)  == IF a < b THEN a ELSE b
Higher(a, b) == IF a > b THEN a ELSE b

(* AprsBoundingBox: min is the south-west corner, max the north-east one.  *)
(* A corner with the coordinates 0, 0 is one that is not set yet.          *)
NoBox == [min |-> Zero, max |-> Zero]
AprsBoundingBox_MinOnly(box, p) ==
    IF p = Zero THEN box
    ELSE IF box.min = Zero THEN [min |-> p, max |-> p]
    ELSE [box EXCEPT !.min = [x |-> Lower(p.x, @.x), y |-> Higher(p.y, @.y)]]
AprsBoundingBox(box, p) ==
    IF p = Zero THEN box
    ELSE [min |-> IF box.min = Zero THEN p
                  ELSE [x |-> Lower(p.x, box.min.x), y |-> Higher(p.y, box.min.y)],
          max |-> IF box.max = Zero THEN p
                  ELSE [x |-> Higher(p.x, box.max.x), y |-> Lower(p.y, box.max.y)]]

(* The tiles of a zoom that hold the box of svc, and those its margins     *)
(* need: a side with too little room in its tile gets one more, to the     *)
(* north and to the west unless the map ends there.                        *)
Pixel(zoom) == 2^(MAX_ZOOM - zoom)
Tile(p, zoom) == p \div (TileSize * Pixel(zoom))

TilesAt_NoRightMargin(svc, zoom) ==
    LET size   == TileSize * Pixel(zoom)
        startX == Tile(Lower(svc.min.x, svc.max.x), zoom)
        endX   == Tile(Higher(svc.min.x, svc.max.x), zoom)
        startY == Tile(Lower(svc.min.y, svc.max.y), zoom)
        endY   == Tile(Higher(svc.min.y, svc.max.y), zoom)
        needs(room, margin) == room < margin * Pixel(zoom)
    IN  [startX |-> IF needs(svc.min.x - startX * size, svc.left) /\ startX > 0
                    THEN startX - 1 ELSE startX,
         endX   |-> IF needs(endX * size - svc.max.x, svc.right) THEN endX + 1 ELSE endX,
         startY |-> IF needs(svc.max.y - startY * size, svc.top) /\ startY > 0
                    THEN startY - 1 ELSE startY,
         endY   |-> IF needs((endY + 1) * size - svc.min.y, svc.bottom) THEN endY + 1 ELSE endY]
TilesAt(svc, zoom) ==
    LET size   == TileSize * Pixel(zoom)
        startX == Tile(Lower(svc.min.x, svc.max.x), zoom)
        endX   == Tile(Higher(svc.min.x, svc.max.x), zoom)
        startY == Tile(Lower(svc.min.y, svc.max.y), zoom)
        endY   == Tile(Higher(svc.min.y, svc.max.y), zoom)
        needs(room, margin) == room < margin * Pixel(zoom)
    IN  [startX |-> IF needs(svc.min.x - startX * size, svc.left) /\ startX > 0
                    THEN startX - 1 ELSE startX,
         endX   |-> IF needs((endX + 1) * size - svc.max.x, svc.right) THEN endX + 1 ELSE endX,
         startY |-> IF needs(svc.max.y - startY * size, svc.top) /\ startY > 0
                    THEN startY - 1 ELSE startY,
         endY   |-> IF needs((endY + 1) * size - svc.min.y, svc.bottom) THEN endY + 1 ELSE endY]

TileCount(t) == (t.endX - t.startX + 1) * (t.endY - t.startY + 1)

(* AprsSvcCalcOSMTiles: the zoom asked for, or the first from MAX_ZOOM     *)
(* down to 2 with no more than MaxTiles tiles, or 2.                       *)
ZoomFrom(svc) ==
    LET zoom[z \in 2..MAX_ZOOM] ==
            IF z = 2 \/ TileCount(TilesAt(svc, z)) <= svc.maxTiles THEN z ELSE zoom[z - 1]
    IN  zoom[MAX_ZOOM]

CalcOSMTiles(svc) ==
    LET zoom == IF svc.zoom > 0 THEN svc.zoom ELSE ZoomFrom(svc)
    IN  [zoom |-> zoom, tiles |-> TilesAt(svc, zoom)]

-----------------------------------------------------------------------------
(* What a map promises, without the way it is computed.                    *)

\* The tiles t of a zoom hold the box of svc with its margins, except where the
\* map ends in the north and in the west.
Hold(t, svc, zoom) ==
    LET size == TileSize * Pixel(zoom) IN
    /\ t.startX = 0 \/ t.startX * size + svc.left * Pixel(zoom) <= svc.min.x
    /\ svc.max.x < (t.endX + 1) * size
    /\ svc.max.x + svc.right * Pixel(zoom) <= (t.endX + 1) * size
    /\ t.startY = 0 \/ t.startY * size + svc.top * Pixel(zoom) <= svc.max.y
    /\ svc.min.y < (t.endY + 1) * size
    /\ svc.min.y + svc.bottom * Pixel(zoom) <= (t.endY + 1) * size

=============================================================================
