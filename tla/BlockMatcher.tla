---------------------------- MODULE BlockMatcher ----------------------------
(***************************************************************************)
(* Which blocks could the car be on? (src/route/block_matcher.py)          *)
(*                                                                         *)
(* Positions are whole metres, times milliseconds, speeds metres per       *)
(* second.  A point between two samples has rational coordinates: <<x, y,  *)
(* z, d>> stands for <<x/d, y/d, z/d>>.  A sample is [at, t, vy].          *)
(*                                                                         *)
(* A placement is [id, block, free, at, rot, tilt]: at is a cell for a     *)
(* grid placement and metres for a free one.  Yaw is kept to quarter turns *)
(* and tilt to none or upright, where the code's sines are 0 and 1.  Each  *)
(* kind of a block has one variant or none, with its units known.          *)
(***************************************************************************)
EXTENDS RouteGrid, Orders

CONSTANT MaxPerCell     \* MAX_PLACEMENTS_PER_CELL
ASSUME MatcherAssumption == MaxPerCell \in Nat \ {0}

CellSize == 32
LevelHeight == 8
GroundAbsY == 8
FreePad == 8
\* Placements as the catalogue and the map's parse give them.
Placement == [id : Nat, block : STRING, free : BOOLEAN, at : Lattice, rot : 0 .. 3, tilt : BOOLEAN]
RowTolerance == <<0, -1>>

Point(at) == <<at[1], at[2], at[3], 1>>
ToCell(p) == <<p[1] \div (CellSize * p[4]),
               GroundY + (p[2] - GroundAbsY * p[4]) \div (LevelHeight * p[4]),
               p[3] \div (CellSize * p[4])>>
Row(c, dy) == <<c[1], c[2] + dy, c[3]>>

\* Free placements have no row, and prefer the ground variant.
PickVariant(p) == VariantOf(p.block, IF p.free THEN GroundY ELSE p.at[2])
GridFootprintCells(p) ==
    IF p.free THEN {}
    ELSE IF p.block \notin DOMAIN Catalogue THEN {p.at}
    ELSE LET v == PickVariant(p)
         IN  {Plus(p.at, RotateOffset(u, p.rot, v.size)) : u \in v.units}

\* Half extents of a free placement's box about its centre.
FreePlacementBox(p) ==
    LET size == IF p.block \in DOMAIN Catalogue THEN PickVariant(p).size ELSE <<1, 1, 1>>
        e == <<size[1] * (CellSize \div 2), size[2] * (LevelHeight \div 2), size[3] * (CellSize \div 2)>>
        grow == IF p.tilt THEN Largest({e[1], e[2], e[3]}) ELSE 0
    IN  [i \in 1 .. 3 |-> e[i] + grow + FreePad]
\* The yaw undone about the vertical axis.
BoxContains(p, q) ==
    LET h == FreePlacementBox(p)
        d == [i \in 1 .. 3 |-> Abs(q[i] - p.at[i] * q[4])]
        r == IF p.rot % 2 = 0 THEN d ELSE <<d[3], d[2], d[1]>>
    IN  \A i \in 1 .. 3 : r[i] <= h[i] * q[4]

\* A cell keeps the first placements that cover it, up to the cap.
Bucket(ps, c) ==
    LET own == Picked(ps, {i \in DOMAIN ps : c \in GridFootprintCells(ps[i])})
    IN  [i \in 1 .. Smallest({Len(own), MaxPerCell}) |-> own[i].id]
GridCandidates(ps, q, dy) == Bucket(ps, Row(ToCell(q), dy))
FreeCandidates(ps, q) ==
    LET own == Picked(ps, {i \in DOMAIN ps : ps[i].free /\ BoxContains(ps[i], q)})
    IN  [i \in DOMAIN own |-> own[i].id]
GridHit(ps, q, dy) == GridCandidates(ps, q, dy) # << >>
FreeHit(ps, q) == FreeCandidates(ps, q) # << >>

\* Ballistic: the vertical acceleration is within 8 of -24 m/s2.
ClassifyAirborne(s) ==
    [i \in DOMAIN s |->
        /\ i > 1 /\ i < Len(s)
        /\ LET dt == s[i + 1].t - s[i - 1].t
               dv == 1000 * (s[i + 1].vy - s[i - 1].vy)
           IN  dt > 0 /\ -32 * dt <= dv /\ dv <= -16 * dt]
=============================================================================
