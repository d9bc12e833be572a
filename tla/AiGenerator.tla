----------------------------- MODULE AiGenerator -----------------------------
(***************************************************************************)
(* Synthesising a route block by block between the anchors of a base map:  *)
(* src/generation/ai_generator.py.  One interval at a time, a beam search  *)
(* extends up to BeamWidth partial paths one cell per layer.               *)
(*                                                                         *)
(* Scores are exact in 600ths: a prior or a share is in sixtieths (Unit),  *)
(* a weight in tenths.                                                     *)
(***************************************************************************)
EXTENDS RouteValidators, SequencesExt, Orders

CONSTANTS AiBases,      \* base maps: anchor rows and blocks
          Rows,         \* the block_geometry rows, as a sequence
          PairCounts,   \* block_pair_transitions: <<a, b>> |-> count
          TripleCounts, \* block_triple_transitions: <<a, b, c>> |-> count
          BeamWidths,   \* the widths a run may ask for
          MaxDepth,     \* max_interval_depth
          TopChildren   \* DEFAULT_TOP_N_CANDIDATES

\* What the columns of map_checkpoints and block_placements hold: a cell is
\* three integers, or a waypoint is free.
BaseLoads(b) ==
    /\ Len(b.waypoints) \in Nat /\ DOMAIN b.waypoints = 1 .. Len(b.waypoints)
    /\ Len(b.blocks) \in Nat /\ DOMAIN b.blocks = 1 .. Len(b.blocks)
    /\ \A i \in DOMAIN b.waypoints :
          b.waypoints[i].order \in Int /\ b.waypoints[i].cell \in Cells

ASSUME AiAssumption ==
    /\ BeamWidths \subseteq Nat /\ MaxDepth \in Nat /\ TopChildren \in Nat \ {0}
    /\ \A b \in AiBases : BaseLoads(b)
    /\ Len(Rows) \in Nat /\ DOMAIN Rows = 1 .. Len(Rows)
    /\ IsFiniteSet(DOMAIN PairCounts) /\ \A p \in DOMAIN PairCounts : PairCounts[p] \in Nat
    /\ IsFiniteSet(DOMAIN TripleCounts) /\ \A p \in DOMAIN TripleCounts : TripleCounts[p] \in Nat

VARIABLES aiBase,    \* the base map's anchors, in the order walked, and blocks
          width,     \* beam width of this run
          aiAt,      \* the interval being walked, 0 before and after
          occupied,  \* cells of the anchors and of finished intervals
          built,     \* synthesised blocks, and the route's cells per interval
          live,      \* beams still going
          completed, \* beams that arrived
          layer,     \* layers expanded in this interval
          outcome    \* the artifact's verdict

aiVars == <<aiBase, width, aiAt, occupied, built, live, completed, layer, outcome>>

Unit == 60

-----------------------------------------------------------------------------
(* Loading.                                                                *)

\* _ANCHOR_SQL: grid waypoints of every tag, ORDER BY waypoint_order,
\* waypoint_index.
GridAnchors(b) ==
    LET grid == {i \in DOMAIN b.waypoints : ~b.waypoints[i].free}
        ord == Ordered(grid, Stable(grid, [i \in grid |-> b.waypoints[i].order]))
    IN  [i \in 1 .. Cardinality(grid) |-> b.waypoints[ord[i]]]
\* Blocks standing on an anchor cell are kept, the rest is synthesised.
FetchBaseAnchors(b) ==
    LET anchors == GridAnchors(b)
        cells == {anchors[i].cell : i \in DOMAIN anchors}
    IN  [anchors |-> anchors,
         blocks |-> Picked(b.blocks, {i \in DOMAIN b.blocks : b.blocks[i].cell \in cells}),
         families |-> {b.blocks[i].family : i \in DOMAIN b.blocks}]

IsLinked(a) == \E i \in DOMAIN a.anchors : a.anchors[i].tag = "LinkedCheckpoint"

\* The candidates: straight, unit-length, grid-placeable, stock blocks seen in
\* some map, of the base map's families when it has any.
LoadCandidateCatalogue(families) ==
    Picked(Rows, {i \in DOMAIN Rows :
        /\ ~Rows[i].anchor /\ ~Rows[i].deco /\ Rows[i].shape = "straight"
        /\ Rows[i].mode \in {"grid_only", "mixed", "unknown"}
        /\ Rows[i].connector /\ Rows[i].fx = 1 /\ ~Rows[i].custom /\ Rows[i].maps >= 1
        /\ families = {} \/ Rows[i].family \in families})

\* P(next | given) in sixtieths; zero when the transition was never seen.
Prior(counts, given, next) ==
    LET total == SumOver(counts, {p \in DOMAIN counts : SubSeq(p, 1, Len(given)) = given})
        p == Append(given, next)
    IN  IF p \in DOMAIN counts /\ total > 0 THEN (counts[p] * Unit) \div total ELSE 0
LoadPairPriors(prev, next) == Prior(PairCounts, <<prev>>, next)
LoadTriplePriors(pp, prev, next) == Prior(TripleCounts, <<pp, prev>>, next)

\* Shape and surface of a block, anchors included; "" when it is not known.
ShapeSurface(n) ==
    LET S == {i \in DOMAIN Rows : Rows[i].name = n}
    IN  IF S = {} THEN [shape |-> "", surface |-> ""]
        ELSE [shape |-> Rows[Max(S)].shape, surface |-> Rows[Max(S)].surface]
\* _SHAPE_COMPATIBLE_PAIRS of sequence_scoring.py.
CompatiblePairs ==
    LET road == {"straight", "curve", "ramp", "platform"}
        Both(A, B) == (A \X B) \cup (B \X A)
    IN  ({"straight", "curve", "ramp"} \X {"straight", "curve", "ramp"})
        \cup Both({"platform"}, {"platform", "ramp"})
        \cup Both({"loop"}, {"straight", "ramp", "loop"})
        \cup ({"start"} \X road) \cup Both({"checkpoint"}, road \cup {"checkpoint"})
        \cup Both({"finish"}, {"straight", "ramp"})
        \cup Both({"gate"}, {"straight", "ramp", "checkpoint"})
SequencePairScore(prev, next) ==
    LET a == ShapeSurface(prev)
        b == ShapeSurface(next)
    IN  CASE a.shape = "" \/ b.shape = "" -> 0
          [] a.shape # "" /\ b.shape # "" /\ "unknown" \in {a.shape, b.shape}
                -> (Unit * 3) \div 10
          [] OTHER -> (Unit \div 10) *
                      (4 + (IF <<a.shape, b.shape>> \in CompatiblePairs THEN 3 ELSE 0)
                         + (IF a.surface # "" /\ a.surface = b.surface THEN 3 ELSE 0))

-----------------------------------------------------------------------------
(* Scoring a candidate.  A beam is [blocks, cell, own, sum]; its previous  *)
(* blocks are the last of its path, or the anchor's block at the start.    *)

\* Share of the candidate's shadow that is taken.
ShadowCellsClear(c, rot, fx, taken) ==
    LET shadow == FootprintCells(c, rot, fx) \ {c}
    IN  IF shadow = {} THEN 0
        ELSE (Cardinality(shadow \cap taken) * Unit) \div Cardinality(shadow)

PrevBlock(beam, n) ==
    LET path == beam.from \o [i \in DOMAIN beam.blocks |-> beam.blocks[i].name]
    IN  IF Len(path) >= n THEN path[Len(path) - n + 1] ELSE "none"

\* prev_prev_block starts as None and then takes prev_block, the anchor's block.
ScoreCandidate(beam, row, c, rot, taken) ==
    LET p1 == PrevBlock(beam, 1)
        p2 == PrevBlock(beam, 2)
        pair == IF p1 = "none" THEN 0 ELSE LoadPairPriors(p1, row.name)
        triple == IF "none" \in {p1, p2} THEN 0 ELSE LoadTriplePriors(p2, p1, row.name)
        seq == IF p1 = "none" THEN 0 ELSE SequencePairScore(p1, row.name)
        same == Cardinality({i \in DOMAIN beam.blocks : beam.blocks[i].name = row.name})
        repeat == IF beam.blocks = << >> THEN 0 ELSE (same * Unit) \div Len(beam.blocks)
    IN  10 * pair + 7 * triple + 5 * Unit + (IF pair > 0 THEN 5 * Unit ELSE 0)
        + 3 * seq - 3 * repeat - 4 * ShadowCellsClear(c, rot, row.fx, taken)

\* The sum of the positive weights, each signal at its cap of one.
BestStepScore == (10 + 7 + 5 + 5 + 3) * Unit

-----------------------------------------------------------------------------
(* The walk.                                                               *)

DirectionToward(src, dst) ==
    LET dx == dst[1] - src[1]
        dz == dst[3] - src[3]
    IN  CASE Apart(dx, 0) >= Apart(dz, 0) -> IF dx >= 0 THEN 0 ELSE 2
          [] OTHER -> IF dz >= 0 THEN 1 ELSE 3
StepFrom(c, rot) == Shift(c, DirByRot[rot][1], 0, DirByRot[rot][2])

\* Chebyshev distance at most one in the XZ plane: heights are not compared.
WithinTwoXZ(a, b) == Apart(a[1], b[1]) <= 2 /\ Apart(a[3], b[3]) <= 2
BesideXZ(a, b) == Apart(a[1], b[1]) <= 1 /\ Apart(a[3], b[3]) <= 1

\* Mutant: two cells away counts as arrived.
BeamReachedDstNearly(beam, dst) == beam.blocks # << >> /\ WithinTwoXZ(beam.cell, dst)

BeamReachedDst(beam, dst) == beam.blocks # << >> /\ BesideXZ(beam.cell, dst)

\* The indices of a sequence, sorted by descending key; the sort is stable.
Ranked(D, keys) == Ordered(D, Stable(D, Value([i \in D |-> -keys[i]])))
FirstN(s, n) == SubSeq(s, 1, Min({n, Len(s)}))

\* Cells a beam may not enter: anchors, finished intervals, its own blocks.
Taken(beam) == occupied \cup beam.own

ExpandBeam(beam, dst, catalogue) ==
    LET rot == DirectionToward(beam.cell, dst)
        c == StepFrom(beam.cell, rot)
        scores == Value([i \in DOMAIN catalogue |->
                            ScoreCandidate(beam, catalogue[i], c, rot, Taken(beam))])
        best == FirstN(Ranked(DOMAIN catalogue, scores), TopChildren)
    IN  IF c \in Taken(beam) THEN << >>
        ELSE [i \in 1 .. Len(best) |->
                [from |-> beam.from,
                 blocks |-> Append(beam.blocks, [name |-> catalogue[best[i]].name, cell |-> c,
                                                 rot |-> rot]),
                 cell |-> c,
                 own |-> beam.own \cup FootprintCells(c, rot, catalogue[best[i]].fx),
                 sum |-> beam.sum + scores[best[i]]]]

Src == aiBase.anchors[aiAt]
Dst == aiBase.anchors[aiAt + 1]

\* Best mean score, then the fewest blocks, then the first found.
Better(a, b) ==
    LET la == Max({1, Len(a.blocks)})
        lb == Max({1, Len(b.blocks)})
    IN  \/ a.sum * lb > b.sum * la
        \/ a.sum * lb = b.sum * la /\ Len(a.blocks) < Len(b.blocks)
BestBeam(s) ==
    s[CHOOSE i \in DOMAIN s :
        /\ \A j \in DOMAIN s : ~Better(s[j], s[i])
        /\ \A j \in 1 .. i - 1 : Better(s[i], s[j])]

BeamPath(beam) == <<Src.cell>> \o [i \in DOMAIN beam.blocks |-> beam.blocks[i].cell]

-----------------------------------------------------------------------------
(* generate_ai_map                                                         *)

Verdict(verified, reason) == [done |-> TRUE, verified |-> verified, reason |-> reason]
Open == [done |-> FALSE, verified |-> FALSE, reason |-> "none"]

Arrive(i) ==
    /\ aiAt' = i
    /\ live' = << >> /\ completed' = << >> /\ layer' = 0

\* Fetch, and the two early returns.
BeginAi ==
    /\ aiBase.anchors = << >> /\ ~outcome.done
    /\ \E b \in AiBases, w \in BeamWidths :
          LET a == FetchBaseAnchors(b)
          IN  /\ aiBase' = a
              /\ width' = Max({1, w})
              /\ occupied' = {a.anchors[i].cell : i \in DOMAIN a.anchors}
              /\ CASE Len(a.anchors) < 2
                        -> outcome' = Verdict(FALSE, "empty_corridors") /\ aiAt' = 0
                   [] Len(a.anchors) >= 2 /\ ~IsLinked(a)
                        -> outcome' = Verdict(FALSE, "plain_cp_not_supported_v0") /\ aiAt' = 0
                   [] Len(a.anchors) >= 2 /\ IsLinked(a)
                        -> outcome' = outcome /\ aiAt' = 1
    /\ UNCHANGED <<built, live, completed, layer>>

Walking == aiAt > 0 /\ aiAt < Len(aiBase.anchors)

\* The block standing at the interval's first anchor.
AnchorBlockAt(c) ==
    LET S == {i \in DOMAIN aiBase.blocks : aiBase.blocks[i].cell = c}
    IN  IF S = {} THEN << >> ELSE <<aiBase.blocks[Min(S)].name>>

\* Anchors side by side need no blocks; otherwise the search starts.
StartInterval ==
    /\ Walking /\ layer = 0 /\ live = << >> /\ completed = << >>
    /\ IF BesideXZ(Src.cell, Dst.cell)
       THEN /\ Arrive(aiAt + 1)
            /\ built' = [built EXCEPT !.routes = Append(@, <<Src.cell>>)]
       ELSE /\ live' = <<[from |-> AnchorBlockAt(Src.cell), blocks |-> << >>,
                          cell |-> Src.cell, own |-> {}, sum |-> 0]>>
            /\ UNCHANGED <<aiAt, built, completed, layer>>
    /\ UNCHANGED <<aiBase, width, occupied, outcome>>

\* One layer: beams that arrived are set aside, the others expanded, the best
\* of all children kept.
Catalogue == LoadCandidateCatalogue(aiBase.families)
Going == Picked(live, {i \in DOMAIN live : ~BeamReachedDst(live[i], Dst.cell)})
Arrived == Picked(live, {i \in DOMAIN live : BeamReachedDst(live[i], Dst.cell)})
Children == Joined([i \in DOMAIN Going |-> ExpandBeam(Going[i], Dst.cell, Catalogue)])

TopBeams(s, n) ==
    LET best == FirstN(Ranked(DOMAIN s, [i \in DOMAIN s |-> s[i].sum]), n)
    IN  [i \in DOMAIN best |-> s[best[i]]]

ExpandLayer ==
    /\ Walking /\ live # << >> /\ layer < MaxDepth
    /\ Going # << >> /\ Children # << >>
    /\ completed' = completed \o Arrived
    /\ live' = TopBeams(Value(Children), width)
    /\ layer' = layer + 1
    /\ UNCHANGED <<aiBase, width, aiAt, occupied, built, outcome>>

\* The search is over: nothing left to expand, or the depth is used up.
Exhausted ==
    Walking /\ live # << >> /\ (layer = MaxDepth \/ Going = << >> \/ Children = << >>)
AllArrived == completed \o Arrived

\* The winner's cells join the occupied set.
MergeWinner(beam) == occupied \cup beam.own
CloseInterval ==
    /\ Exhausted /\ AllArrived # << >>
    /\ LET best == BestBeam(AllArrived)
       IN  /\ built' = [built EXCEPT !.blocks = @ \o best.blocks,
                                     !.routes = Append(@, BeamPath(best)),
                                     !.sum = @ + best.sum]
           /\ occupied' = MergeWinner(best)
    /\ Arrive(aiAt + 1)
    /\ UNCHANGED <<aiBase, width, outcome>>

\* A rejected interval ends the run; its best partial path is in the artifact.
RejectInterval ==
    /\ Exhausted /\ AllArrived = << >>
    /\ LET best == BestBeam(live)
       IN  built' = IF layer = 0 THEN built
                    ELSE [built EXCEPT !.blocks = @ \o best.blocks,
                                       !.routes = Append(@, BeamPath(best)),
                                       !.sum = @ + best.sum]
    /\ outcome' = Verdict(FALSE, IF layer = 0 THEN "no_valid_candidates"
                                 ELSE "beam_exhausted")
    /\ UNCHANGED <<aiBase, width, aiAt, occupied, live, completed, layer>>

\* Confidence is the mean step score over the best possible one, the floor 0.30.
FinishAi ==
    /\ aiAt > 0 /\ aiAt = Len(aiBase.anchors) /\ ~outcome.done
    /\ LET n == Len(built.blocks)
           enough == 10 * built.sum >= 3 * n * BestStepScore
       IN  outcome' = CASE n = 0 -> Verdict(FALSE, "none")
                        [] n > 0 /\ enough -> Verdict(TRUE, "none")
                        [] n > 0 /\ ~enough -> Verdict(FALSE, "confidence_below_floor")
    /\ UNCHANGED <<aiBase, width, aiAt, occupied, built, live, completed, layer>>

AiInit ==
    /\ aiBase = [anchors |-> << >>, blocks |-> << >>, families |-> {}]
    /\ width = 1 /\ aiAt = 0 /\ occupied = {} /\ live = << >> /\ completed = << >>
    /\ built = [blocks |-> << >>, routes |-> << >>, sum |-> 0]
    /\ layer = 0 /\ outcome = Open

AiStep ==
    ~outcome.done /\ (StartInterval \/ ExpandLayer \/ CloseInterval \/ RejectInterval \/ FinishAi)
AiNext == BeginAi \/ AiStep

-----------------------------------------------------------------------------
(* No synthesised block stands on an anchor or in a cell another           *)
(* synthesised block has, whichever interval placed it ("so subsequent     *)
(* intervals don't collide").                                              *)
BlocksApart ==
    LET cells == [i \in DOMAIN built.blocks |-> built.blocks[i].cell]
    IN  /\ \A i, j \in DOMAIN cells : cells[i] = cells[j] => i = j
        /\ \A i \in DOMAIN cells : \A k \in DOMAIN aiBase.anchors :
              cells[i] # aiBase.anchors[k].cell

(* A verified route has no hole: every interval's cells are one step apart *)
(* from the anchor it starts at, and end beside the anchor it goes to.     *)
VerifiedHasNoHole ==
    outcome.verified =>
        /\ Len(built.routes) = Len(aiBase.anchors) - 1
        /\ \A i \in DOMAIN built.routes :
              LET r == built.routes[i]
              IN  /\ r[1] = aiBase.anchors[i].cell
                  /\ \A k \in 2 .. Len(r) : Chebyshev(r[k - 1], r[k]) = 1
                  /\ BesideXZ(Last(r), aiBase.anchors[i + 1].cell)

(* The beams of an interval differ in blocks, never in cells: the next     *)
(* cell depends on the current one and the destination alone.  So they     *)
(* dead-end together, and a wider beam reaches no anchor a greedy walk     *)
(* misses.                                                                 *)
BeamsMoveTogether ==
    \A i, j \in DOMAIN live : live[i].own = live[j].own /\ live[i].cell = live[j].cell

(* The synthesised route is connected and stands in free cells, whichever  *)
(* beam won: the three conditions above.                                   *)
SynthesisSound == BlocksApart /\ VerifiedHasNoHole /\ BeamsMoveTogether
=============================================================================
