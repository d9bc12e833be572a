--------------------------- MODULE RouteValidators ---------------------------
(***************************************************************************)
(* The checks a generated map goes through before it is emitted:           *)
(* src/generation/geom_validator.py, jump_validator.py, preemit.py, and    *)
(* the strip-to-route policies of stripper.py.  They are pure functions of *)
(* a block list, the geometry catalogue and a route.                       *)
(*                                                                         *)
(* A cell is <<x, y, z>>.  A block is [name, cell, rot]; the catalogue geo *)
(* maps the names it knows to [fx, shape, anchor].  A finding's "by" tells *)
(* findings of the same code and cell apart, since the code keeps a list.  *)
(***************************************************************************)
EXTENDS Integers, Sequences, FiniteSets, FiniteSetsExt, Orders

CONSTANTS GroundY,       \* the level that needs no support from below
          Cone,          \* JumpConeConfig: [min, max, rise, drop, lateral]
          NearRadius,    \* how near a finding must be to count for a corridor
          VerticalExt,   \* _PATH_VERTICAL_EXT
          AnchorRadius   \* _ANCHOR_RADIUS_CHEB

ASSUME ValidatorsAssumption ==
    /\ GroundY \in Int
    /\ Cone.min > 0 /\ Cone.max >= Cone.min
    /\ NearRadius \in Nat /\ VerticalExt \in Nat \ {0} /\ AnchorRadius \in Nat

Cells == Int \X Int \X Int
Apart(i, j) == IF i < j THEN j - i ELSE i - j
Chebyshev(a, b) == Max({Apart(a[k], b[k]) : k \in 1 .. 3})
Shift(c, dx, dy, dz) == <<c[1] + dx, c[2] + dy, c[3] + dz>>

\* The unit step of a rotation, in the XZ plane.
DirByRot == [r \in 0 .. 3 |-> CASE r = 0 -> <<1, 0>> [] r = 1 -> <<0, 1>>
                                [] r = 2 -> <<-1, 0>> [] r = 3 -> <<0, -1>>]
FootprintCells(o, rot, n) ==
    {o} \cup {Shift(o, DirByRot[rot % 4][1] * i, 0, DirByRot[rot % 4][2] * i) :
                 i \in 1 .. n - 1}

\* cell_to_block.setdefault: the first block placed in a cell is the one seen.
AtCell(blocks, c) == {i \in DOMAIN blocks : blocks[i].cell = c}
Occupied(blocks, c) == AtCell(blocks, c) # {}
SeenAt(blocks, c) == blocks[Smallest(AtCell(blocks, c))]
Known(geo, b) == b.name \in DOMAIN geo

-----------------------------------------------------------------------------
(* geom_validator.py                                                       *)

Finding(code, sev, c, by) == [code |-> code, sev |-> sev, cell |-> c, by |-> by]

CheckPartialMulticell(blocks, geo) ==
    UNION {{Finding("partial_multicell",
                    IF Occupied(blocks, c) THEN "warn" ELSE "fail", c, i) :
               c \in FootprintCells(blocks[i].cell, blocks[i].rot,
                                    geo[blocks[i].name].fx) \ {blocks[i].cell}} :
           i \in {j \in DOMAIN blocks : Known(geo, blocks[j])}}

CheckRouteContinuity(route) ==
    {Finding("route_gap", "warn", route[i], i) :
        i \in {j \in 2 .. Len(route) : Chebyshev(route[j - 1], route[j]) > 1}}

CheckRouteCellsHaveBlocks(blocks, route) ==
    {Finding("route_cell_missing_block", "fail", route[i], i) :
        i \in {j \in DOMAIN route : ~Occupied(blocks, route[j])}}

SelfSupportingShapes ==
    {"ramp", "loop", "platform", "start", "checkpoint", "finish"}
CheckMissingSupport(blocks, geo, route) ==
    {Finding("missing_support", "warn", route[i], i) :
        i \in {j \in DOMAIN route :
                  /\ route[j][2] > GroundY
                  /\ Occupied(blocks, route[j])
                  /\ LET b == SeenAt(blocks, route[j])
                     IN  ~(Known(geo, b) /\ geo[b.name].shape \in SelfSupportingShapes)
                  /\ ~Occupied(blocks, Shift(route[j], 0, -1, 0))}}

CheckSpawnIntersect(blocks, geo, spawn) ==
    {Finding("spawn_intersect", "fail", c, 0) :
        c \in {s \in {spawn} :
                  /\ Occupied(blocks, s)
                  /\ LET b == SeenAt(blocks, s)
                     IN  ~(Known(geo, b) /\ geo[b.name].anchor)}
              \cup {h \in {Shift(spawn, 0, 1, 0)} : Occupied(blocks, h)}}

\* Spawns is {} or a singleton.
ValidateMapGeometry(blocks, geo, route, spawns) ==
    CheckPartialMulticell(blocks, geo)
    \cup CheckRouteContinuity(route)
    \cup CheckRouteCellsHaveBlocks(blocks, route)
    \cup CheckMissingSupport(blocks, geo, route)
    \cup UNION {CheckSpawnIntersect(blocks, geo, s) : s \in spawns}

-----------------------------------------------------------------------------
(* jump_validator.py                                                       *)

TakeoffShapes == {"ramp", "loop"}
LandingShapes == {"straight", "curve", "ramp", "platform", "loop", "start",
                  "checkpoint", "finish"}

ShapeAt(blocks, geo, c) ==
    IF Occupied(blocks, c) /\ Known(geo, SeenAt(blocks, c))
    THEN geo[SeenAt(blocks, c).name].shape ELSE "unknown"

\* The docstring says the gap must exceed the minimum; the code takes >= 2.
DetectJumpCandidates(blocks, geo, route) ==
    {i \in 2 .. Len(route) :
        \/ ShapeAt(blocks, geo, route[i - 1]) \in TakeoffShapes
        \/ Chebyshev(route[i - 1], route[i]) >= 2}

\* The dominant horizontal axis towards the next cell, X on a tie; +X when
\* the next cell is straight above or below.
Forward(from, next) ==
    LET dx == next[1] - from[1]
        dz == next[3] - from[3]
    IN  CASE Apart(dx, 0) >= Apart(dz, 0) /\ dx # 0 -> <<IF dx > 0 THEN 1 ELSE -1, 0>>
          [] ~(Apart(dx, 0) >= Apart(dz, 0) /\ dx # 0) /\ dz # 0
                -> <<0, IF dz > 0 THEN 1 ELSE -1>>
          [] OTHER -> <<1, 0>>

FindLandingCandidates(blocks, geo, from, next) ==
    LET f == Forward(from, next)
        InCone(c) ==
            LET dx == c[1] - from[1]
                dz == c[3] - from[3]
            IN  /\ dx * f[1] + dz * f[2] \in Cone.min .. Cone.max
                /\ dz * f[1] - dx * f[2] \in -Cone.lateral .. Cone.lateral
                /\ c[2] - from[2] \in -Cone.drop .. Cone.rise
    IN  {c \in {blocks[i].cell : i \in DOMAIN blocks} :
            InCone(c) /\ ShapeAt(blocks, geo, c) \in LandingShapes}

\* touched is {} when no corridor has a confidence: the callers pass None.
ClassifyJump(blocks, geo, from, next, touched) ==
    LET landings == FindLandingCandidates(blocks, geo, from, next)
    IN  IF from \in touched /\ \E c \in touched : Chebyshev(next, c) <= 1
        THEN "supported_by_replay"
        ELSE IF landings = {} /\ ShapeAt(blocks, geo, from) \in TakeoffShapes
        THEN "likely_broken"
        ELSE IF \E c \in landings : Chebyshev(next, c) <= 1
        THEN "geometrically_plausible" ELSE "uncertain"

\* The class of every candidate step of the route.
ValidateJumps(blocks, geo, route, touched) ==
    [i \in DetectJumpCandidates(blocks, geo, route) |->
        ClassifyJump(blocks, geo, route[i - 1], route[i], touched)]

ClassToSeverity ==
    [supported_by_replay |-> "info", geometrically_plausible |-> "info",
     uncertain |-> "warn", likely_broken |-> "fail"]

JumpFindings(jumps, route) ==
    {Finding("jump", ClassToSeverity[jumps[i]], route[i - 1], i) : i \in DOMAIN jumps}

-----------------------------------------------------------------------------
(* preemit.py: the score of one corridor, in hundredths, and the summary.  *)

CorridorValidationScore(partial, support, gaps, broken, uncertain) ==
    Max({0, 100 - (8 * partial + 4 * support + 5 * gaps + 30 * broken
                   + 8 * uncertain)})

NearPath(path, c) == \E i \in DOMAIN path : Chebyshev(c, path[i]) <= NearRadius

ScoreCorridor(blocks, geo, path, touched) ==
    LET found == ValidateMapGeometry(blocks, geo, path, {})
        jumps == ValidateJumps(blocks, geo, path, touched)
        Jumps(k) == Cardinality({i \in DOMAIN jumps : jumps[i] = k})
        Hits(code) == Cardinality({f \in found : f.code = code})
    IN  CorridorValidationScore(
            Cardinality({f \in found : /\ f.code = "partial_multicell"
                                       /\ f.sev = "fail"
                                       /\ NearPath(path, f.cell)}),
            Hits("missing_support"), Hits("route_gap"),
            Jumps("likely_broken"), Jumps("uncertain"))

\* Findings by severity; the wording and the list of the first twenty are left
\* out, the scores of the corridors are ScoreCorridor of each.
RunPreemitValidation(blocks, geo, route, spawns, touched) ==
    LET all == ValidateMapGeometry(blocks, geo, route, spawns)
               \cup JumpFindings(ValidateJumps(blocks, geo, route, touched), route)
    IN  [s \in {"fail", "warn", "info"} |-> Cardinality({f \in all : f.sev = s})]

-----------------------------------------------------------------------------
(* stripper.py                                                             *)

Offsets(dx, dy, dz) == {<<i, j, k>> : i \in -dx .. dx, j \in -dy .. dy, k \in -dz .. dz}
AxisNeighbors == {<<1, 0, 0>>, <<-1, 0, 0>>, <<0, 1, 0>>, <<0, -1, 0>>,
                  <<0, 0, 1>>, <<0, 0, -1>>}

\* What each policy keeps around a cell of the path.
PathHalo(policy) ==
    CASE policy = "halo_axis_1" -> AxisNeighbors
      [] policy = "halo_axis_1_plus_anchor_radius_3" -> AxisNeighbors
      [] policy = "halo_axis_1_plus_anchor_radius_3_vext_3"
            -> AxisNeighbors \cup Offsets(0, VerticalExt, 0)
      [] policy = "halo_xz_cheb_1_vext_3_plus_anchor_radius_3"
            -> Offsets(1, 0, 1) \cup Offsets(0, VerticalExt, 0)
      [] policy = "halo_prism_3x7x3_plus_anchor_radius_3"
            -> Offsets(1, VerticalExt, 1)

AroundAll(cells, offsets) ==
    {Shift(c, o[1], o[2], o[3]) : c \in cells, o \in offsets}

\* anchors: the cells of the route's anchors; every: those of all waypoints.
ComputeKeptCells(path, anchors, every, policy) ==
    path \cup AroundAll(path, PathHalo(policy)) \cup anchors
    \cup (IF policy = "halo_axis_1" THEN {}
          ELSE AroundAll(every, Offsets(AnchorRadius, AnchorRadius, AnchorRadius)))

FilterBlocksByCells(blocks, kept) ==
    Picked(blocks, {i \in DOMAIN blocks : blocks[i].cell \in kept})

StripRoute(path, anchors, every, blocks, policy) ==
    IF policy = "none" THEN [blocks |-> blocks, intact |-> TRUE]
    ELSE LET kept == ComputeKeptCells(path, anchors, every, policy)
         IN  [blocks |-> FilterBlocksByCells(blocks, kept), intact |-> path \subseteq kept]
=============================================================================
