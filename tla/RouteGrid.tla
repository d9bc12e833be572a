----------------------------- MODULE RouteGrid -----------------------------
(***************************************************************************)
(* Blocks on the grid, for the walkers: rotation (catalogue/loader.py),    *)
(* the ground or air variant of a block and its cells, bounds and contact  *)
(* (clip_walker.py, grammar_walker.py).                                    *)
(*                                                                         *)
(* A cell or an offset is <<x, y, z>>.  A block of the catalogue is        *)
(* [ground, air, way, directional, surface, bridge, ports]: ground and air *)
(* are variants [units, size], way is its waypoint kind.                   *)
(***************************************************************************)
EXTENDS Integers, Sequences, FiniteSets

CONSTANTS Catalogue,          \* block id |-> block
          GridMin, GridMax,   \* XZ bounds, the upper one excluded
          GroundY, MaxY       \* the rows a route may use

Plus(a, b) == <<a[1] + b[1], a[2] + b[2], a[3] + b[3]>>
Minus(a, b) == <<a[1] - b[1], a[2] - b[2], a[3] - b[3]>>
Sign(n) == IF n > 0 THEN 1 ELSE IF n < 0 THEN -1 ELSE 0
Abs(n) == IF n < 0 THEN -n ELSE n

\* Faces are counted from north, +z; one quarter turn looks at -x.
FaceDeltas == [f \in 0 .. 3 |-> CASE f = 0 -> <<0, 0, 1>> [] f = 1 -> <<-1, 0, 0>>
                                  [] f = 2 -> <<0, 0, -1>> [] f = 3 -> <<1, 0, 0>>]
RotateFace(f, d) == (f + d) % 4
OppositeFace(f) == (f + 2) % 4
RotateVector(v, d) ==
    CASE d % 4 = 0 -> v
      [] d % 4 = 1 -> <<-v[3], v[2], v[1]>>
      [] d % 4 = 2 -> <<-v[1], v[2], -v[3]>>
      [] d % 4 = 3 -> <<v[3], v[2], -v[1]>>
\* Re-anchored: the rotated footprint's least corner is the origin again.
RotateOffset(v, d, size) ==
    CASE d % 4 = 0 -> v
      [] d % 4 = 1 -> <<size[3] - 1 - v[3], v[2], v[1]>>
      [] d % 4 = 2 -> <<size[1] - 1 - v[1], v[2], size[3] - 1 - v[3]>>
      [] d % 4 = 3 -> <<v[3], v[2], size[1] - 1 - v[1]>>

\* Positions of cells.
Lattice == Int \X Int \X Int

\* A variant is re-anchored as rotate_offset says: "the rotated footprint's min corner
\* is (0, 0, 0)".  A port is on a unit of the ground variant (UnitPort).
Anchored(v) ==
    /\ v.units \subseteq Lattice /\ IsFiniteSet(v.units) /\ v.size \in Lattice
    /\ v.units # {} => \A d \in 0 .. 3, k \in 1 .. 3 :
                           \E u \in v.units : RotateOffset(u, d, v.size)[k] = 0

ASSUME GridAssumption ==
    /\ {GridMin, GridMax, GroundY, MaxY} \subseteq Int
    /\ GridMin < GridMax /\ GroundY <= MaxY
    /\ \A b \in DOMAIN Catalogue :
          /\ Anchored(Catalogue[b].ground) /\ Anchored(Catalogue[b].air)
          /\ IsFiniteSet(Catalogue[b].ports)
          /\ \A p \in Catalogue[b].ports : p.cell \in Catalogue[b].ground.units /\ p.face \in 0 .. 3

\* The variant the game picks at a height, or the other when it is empty.
VariantKind(y) == IF y <= GroundY THEN "ground" ELSE "air"
VariantOf(b, y) ==
    LET g == Catalogue[b].ground
        a == Catalogue[b].air
        first == IF VariantKind(y) = "ground" THEN g ELSE a
    IN  IF first.units # {} THEN first ELSE IF first = g THEN a ELSE g

Origin == LET m == GridMin + (GridMax - GridMin) \div 2 IN <<m, GroundY, m>>
InBounds(cells) ==
    \A c \in cells : /\ c[1] \in GridMin .. GridMax - 1
                     /\ c[2] \in GroundY .. MaxY
                     /\ c[3] \in GridMin .. GridMax - 1

GroundCells ==
    (GridMin .. GridMax - 1) \X (GroundY .. MaxY) \X (GridMin .. GridMax - 1)

\* Do two footprints share a face?
Touches(source, target) ==
    \E a \in source, b \in target :
        Abs(a[1] - b[1]) + Abs(a[2] - b[2]) + Abs(a[3] - b[3]) = 1

ColumnsOf(cells) == {<<c[1], c[3]>> : c \in cells}
=============================================================================
