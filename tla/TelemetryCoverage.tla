------------------------- MODULE TelemetryCoverage -------------------------
(***************************************************************************)
(* compute_coverage (src/route/coverage_store.py): how much of a capture   *)
(* lies on something known.  A capture is [samples, cps, anchored, exit]   *)
(* and a map [placements, items, baked]: items are cells, baked blocks     *)
(* [at, terrain, clip].  Steps between samples follow one axis, where the  *)
(* Euclidean distance is the difference of the coordinates.                *)
(***************************************************************************)
EXTENDS BlockMatcher

CONSTANTS ItemRadius,         \* cells around an item's anchor
          CheckpointWindow    \* samples around a crossing

LoadItemCells(items) ==
    {<<c[1] + dx, c[2] + dy, c[3] + dz>> :
        c \in items, dx \in -ItemRadius .. ItemRadius, dz \in -ItemRadius .. ItemRadius,
        dy \in {0, -1}}
LoadBakedCells(baked) == {b.at : b \in {b \in baked : ~b.terrain /\ ~b.clip}}

\* Mutant: a sample counts for every source that holds.
SourceUnranked(m, q) ==
    LET c == ToCell(q)
    IN  (IF \E k \in DOMAIN RowTolerance : GridHit(m.placements, q, RowTolerance[k])
         THEN {"grid"} ELSE {})
        \cup (IF FreeHit(m.placements, q) THEN {"free"} ELSE {})
        \cup (IF c \in LoadItemCells(m.items) THEN {"item"} ELSE {})
        \cup (IF c \in LoadBakedCells(m.baked) THEN {"baked"} ELSE {})

\* The source a grounded sample is put down to: the first of four that holds.
Source(m, q) ==
    LET c == ToCell(q)
    IN  IF \E k \in DOMAIN RowTolerance : GridHit(m.placements, q, RowTolerance[k]) THEN {"grid"}
        ELSE IF FreeHit(m.placements, q) THEN {"free"}
        ELSE IF c \in LoadItemCells(m.items) THEN {"item"}
        ELSE IF c \in LoadBakedCells(m.baked) THEN {"baked"} ELSE {}
OnGround(s) == ToCell(Point(s.at))[2] = GroundY /\ 2 * Abs(s.at[2] - GroundAbsY) <= 3

StepM(s, i) == IF i = 1 THEN 0
               ELSE Abs(s[i].at[1] - s[i - 1].at[1]) + Abs(s[i].at[2] - s[i - 1].at[2])
                    + Abs(s[i].at[3] - s[i - 1].at[3])
StepMs(s, i) == IF i = 1 \/ s[i].t < s[i - 1].t THEN 0 ELSE s[i].t - s[i - 1].t
One(b) == IF b THEN 1 ELSE 0

\* One sample of the first loop.
TallyGrounded(s, acc, i, src) ==
    LET terrain == src = {} /\ OnGround(s[i])
        lost == src = {} /\ ~terrain
    IN  [acc EXCEPT !.grounded = @ + 1,
                    !.grid = @ + One("grid" \in src), !.free = @ + One("free" \in src),
                    !.item = @ + One("item" \in src), !.baked = @ + One("baked" \in src),
                    !.covered = IF src # {} THEN @ \cup {i} ELSE @,
                    !.terrain = IF terrain THEN Append(@, ToCell(Point(s[i].at))) ELSE @,
                    !.lost = @ + One(lost),
                    !.lostM = @ + (IF lost THEN StepM(s, i) ELSE 0),
                    !.lostMs = @ + (IF lost THEN StepMs(s, i) ELSE 0)]
Tally(m, s, air, acc, i) ==
    IF air[i] THEN [acc EXCEPT !.air = @ + 1]
    ELSE TallyGrounded(s, acc, i, Source(m, Point(s[i].at)))
NoTally == [air |-> 0, grounded |-> 0, grid |-> 0, free |-> 0, item |-> 0, baked |-> 0,
            covered |-> {}, terrain |-> << >>, lost |-> 0, lostM |-> 0, lostMs |-> 0]

\* The first loop, up to each sample.
TallyTo(m, s, air) ==
    LET upto[i \in 0 .. Len(s)] == IF i = 0 THEN NoTally ELSE Tally(m, s, air, upto[i - 1], i)
    IN  upto

\* One sample of the second loop, and <<samples, metres, milliseconds>> of the run of
\* unexplained samples that has the most samples.
GapStep(s, air, covered, acc, i) ==
    LET cur == <<acc.cur[1] + 1, acc.cur[2] + StepM(s, i), acc.cur[3] + StepMs(s, i)>>
    IN  IF air[i] \/ i \in covered \/ OnGround(s[i])
        THEN [acc EXCEPT !.cur = <<0, 0, 0>>]
        ELSE [cur |-> cur, best |-> IF cur[1] > acc.best[1] THEN cur ELSE acc.best]
NoGap == [cur |-> <<0, 0, 0>>, best |-> <<0, 0, 0>>]
GapTo(s, air, covered) ==
    LET upto[i \in 0 .. Len(s)] ==
            IF i = 0 THEN NoGap ELSE GapStep(s, air, covered, upto[i - 1], i)
    IN  upto
LongestGap(s, air, covered) == GapTo(s, air, covered)[Len(s)].best

CheckpointSamples(s, air, cps) ==
    {x \in (DOMAIN cps) \X (DOMAIN s) : ~air[x[2]] /\ Abs(x[2] - cps[x[1]]) <= CheckpointWindow}

CaptureStatus(capture, grounded) ==
    CASE ~capture.anchored -> "no_movement"
      [] capture.exit \in {"playback_timeout", "max_frames_capped"} -> "incomplete"
      [] grounded = 0 -> "corrupt"
      [] OTHER -> "valid"
\* covered / grounded and terrain / grounded against 0.8, 0.5 and 0.2.
RouteSurfaceClass(status, covered, terrain, grounded) ==
    CASE status # "valid" -> "null"
      [] 10 * covered >= 8 * grounded -> "block_covered"
      [] 2 * terrain >= grounded -> "terrain_offroad"
      [] 5 * terrain >= grounded -> "mixed"
      [] OTHER -> "unresolved_elevated"

\* The measures, from the airborne samples and the tally a of the first loop.
Measures(capture, air, a) ==
    LET s == capture.samples
        gap == LongestGap(s, air, a.covered)
        cp == CheckpointSamples(s, air, capture.cps)
        status == CaptureStatus(capture, a.grounded)
    IN  [total |-> Len(s), air |-> a.air, grounded |-> a.grounded, grid |-> a.grid,
         free |-> a.free, item |-> a.item, baked |-> a.baked, any |-> Cardinality(a.covered),
         cp |-> Cardinality(cp), cpCovered |-> Cardinality({x \in cp : x[2] \in a.covered}),
         lost |-> a.lost, lostM |-> a.lostM, lostMs |-> a.lostMs,
         gap |-> gap[1], gapM |-> gap[2], gapMs |-> gap[3],
         terrain |-> Len(a.terrain), cells |-> a.terrain, status |-> status,
         class |-> RouteSurfaceClass(status, Cardinality(a.covered), Len(a.terrain), a.grounded)]
MeasuresWith(m, capture, air) ==
    Measures(capture, air, TallyTo(m, capture.samples, air)[Len(capture.samples)])
ComputeCoverage(m, capture) == MeasuresWith(m, capture, ClassifyAirborne(capture.samples))
=============================================================================
