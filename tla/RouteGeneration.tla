--------------------------- MODULE RouteGeneration ---------------------------
(***************************************************************************)
(* Generating a map from a base map's scored corridors:                    *)
(* src/generation/generator.py, assembly.py and finishability.py.          *)
(*                                                                         *)
(* A run reads the base map and its corridors in one transaction, so a run *)
(* is one step; between runs the corridors are scored again.  The artifact *)
(* it writes can be validated later by validate-generation, which          *)
(* assembles the route a second time.                                      *)
(*                                                                         *)
(* Scores are in tenths.  A seed is the digest per interval that           *)
(* _pick_within_top_k reduces modulo K.                                    *)
(***************************************************************************)
EXTENDS RouteValidators, SequencesExt, Orders

CONSTANTS Bases,       \* the base maps: blocks, waypoints, corridors
          Geometry,    \* the block_geometry catalogue
          LearnedScores, \* the scores a learned model may give
          Seeds,       \* random seeds, as digests per interval
          TopK,        \* _TOP_K_CANDIDATES
          ValidatorCap,\* _VALIDATOR_CANDIDATE_CAP
          ConfidenceFloor, \* AI_CONFIDENCE_FLOOR, in tenths
          MaxRescores, \* bound on runs of score-corridors-learned
          MaxArtifacts \* bound on runs of generate-map

\* No score, as the sort key has it: -1.0.
Unscored == -10

\* The rows of block_placements, map_checkpoints and route_corridors a run reads.
Placements == [name : STRING, cell : Cells, rot : Int]
CorridorReads(c) ==
    /\ c = [id |-> c.id, src |-> c.src, dst |-> c.dst, path |-> c.path,
            learned |-> c.learned, seq |-> c.seq, conf |-> c.conf]
    /\ c.id \in Int /\ c.learned \in Int /\ c.seq \in Int /\ c.path \in Seq(Cells)
OfTag(ws, t) == {i \in DOMAIN ws : ws[i].tag = t}
BaseReads(b) ==
    /\ b = [blocks |-> b.blocks, waypoints |-> b.waypoints, corridors |-> b.corridors]
    /\ b.blocks \in Seq(Placements)
    /\ Len(b.waypoints) \in Nat /\ DOMAIN b.waypoints = 1 .. Len(b.waypoints)
    /\ \A i \in DOMAIN b.waypoints : b.waypoints[i].order \in Int
    /\ Len(b.corridors) \in Nat /\ DOMAIN b.corridors = 1 .. Len(b.corridors)
    /\ \A i \in DOMAIN b.corridors : CorridorReads(b.corridors[i])
    /\ \A i, j \in DOMAIN b.corridors : b.corridors[i].id = b.corridors[j].id => i = j

ASSUME GenerationAssumption ==
    /\ TopK \in Nat \ {0} /\ ValidatorCap \in Nat \ {0}
    /\ ConfidenceFloor \in 0 .. 10 /\ MaxRescores \in Nat /\ MaxArtifacts \in Nat
    /\ LearnedScores \subseteq Int \ {Unscored}
    /\ \A n \in DOMAIN Geometry : Geometry[n].fx \in Nat
    /\ \A b \in Bases : BaseReads(b)

VARIABLES baseMap,    \* the base map of this run of the tools, or NoBase
          artifact,   \* the last artifact, [state |-> "none"] before it
          validated,  \* what validate-generation looked at last
          rescores, generated

generationVars == <<baseMap, artifact, validated, rescores, generated>>

NoBase == [blocks |-> << >>, waypoints |-> << >>, corridors |-> << >>]
NoArtifact == [state |-> "none"]

-----------------------------------------------------------------------------
(* The base map.  A waypoint is [tag, order, cell, free]: a free one has   *)
(* no grid cell, its absolute position snaps to cell.                      *)

GridWaypoints(b) == {i \in DOMAIN b.waypoints : ~b.waypoints[i].free}
AnchorCells(b) == {b.waypoints[i].cell : i \in DOMAIN b.waypoints}
TouchedCells(b) == UNION {ToSet(b.corridors[i].path) :
                             i \in {j \in DOMAIN b.corridors : b.corridors[j].conf > 0}}

\* One anchor per (tag, order), the first of its rows; Spawn, the checkpoints
\* by order, Goal.  A map is Linked-CP when only LinkedCheckpoints are used.
OrdersOf(ws, t) == {ws[i].order : i \in OfTag(ws, t)}
FirstOf(ws, S) == ws[Smallest(S)]
IsLinkedCp(ws) == OfTag(ws, "LinkedCheckpoint") # {} /\ OfTag(ws, "Checkpoint") = {}
                  /\ OfTag(ws, "Goal") # {}
OneOfTag(ws, t) == IF OfTag(ws, t) = {} THEN << >> ELSE <<FirstOf(ws, OfTag(ws, t))>>

\* Mutant: the checkpoints are ordered within their tag only.
DetectAndOrderAnchorsPerTag(ws) ==
    OneOfTag(ws, "Spawn") \o OneOfTag(ws, "LinkedCheckpoint") \o OneOfTag(ws, "Checkpoint")
    \o OneOfTag(ws, "Goal")

CheckpointAt(ws, o) ==
    LET L == {i \in OfTag(ws, "LinkedCheckpoint") : ws[i].order = o}
    IN  FirstOf(ws, IF L # {} THEN L ELSE {i \in OfTag(ws, "Checkpoint") : ws[i].order = o})
DetectAndOrderAnchors(ws) ==
    LET cps == Ascending(OrdersOf(ws, "LinkedCheckpoint") \cup OrdersOf(ws, "Checkpoint"))
    IN  OneOfTag(ws, "Spawn") \o [i \in DOMAIN cps |-> CheckpointAt(ws, cps[i])]
        \o OneOfTag(ws, "Goal")

\* A seed has a digest for each interval of a base map.
ASSUME SeedsAssumption ==
    \A s \in Seeds, b \in Bases :
        \A i \in 1 .. Len(DetectAndOrderAnchors(b.waypoints)) - 1 : s[i] \in Nat

Key(w) == <<w.tag, w.order>>

-----------------------------------------------------------------------------
(* assembly.py.  A corridor is [id, src, dst, path, learned, seq, conf];   *)
(* vs is its validation score in hundredths, -1 when it has none.          *)

\* Is tuple a before tuple b, field by field?
Earlier(a, b) ==
    \E k \in DOMAIN a : a[k] < b[k] /\ \A j \in 1 .. k - 1 : a[j] = b[j]
TieBreakKey(c) == <<-c.learned, -c.seq, Len(c.path), c.id>>

\* Mutant: the validators' verdict comes before the learned score.
TieBreakKeyValidationFirst(c, vs) ==
    <<IF vs = 0 THEN 1 ELSE 0, -vs, -c.learned, -c.seq, Len(c.path), c.id>>

TieBreakKeyWithValidation(c, vs) ==
    <<-c.learned, IF vs = 0 THEN 1 ELSE 0, -vs, -c.seq, Len(c.path), c.id>>

Pool(b, src, dst) == {i \in DOMAIN b.corridors :
                         /\ b.corridors[i].src = Key(src)
                         /\ b.corridors[i].dst = Key(dst)}

\* The candidates of an interval with their validation scores.  Only the best
\* few by learned score are validated.
Unvalidated(b, pool) == {[row |-> b.corridors[i], vs |-> -1] : i \in pool}
ByTieBreak(b, pool) ==
    {p \in pool \X pool :
        Earlier(TieBreakKey(b.corridors[p[1]]), TieBreakKey(b.corridors[p[2]]))}
ScoreTopCandidates(b, pool) ==
    LET ranked == Ordered(pool, ByTieBreak(b, pool))
        top == {ranked[n] : n \in 1 .. Smallest({Cardinality(pool),
                                                 Largest({TopK, ValidatorCap})})}
        asked == {i \in pool \cap top : b.corridors[i].learned # Unscored
                                        /\ b.corridors[i].path # << >>}
    IN  {[row |-> b.corridors[i],
          vs |-> ScoreCorridor(b.blocks, Geometry, b.corridors[i].path, TouchedCells(b))] :
            i \in asked}
        \cup Unvalidated(b, pool \ asked)

PickWithinTopK(seed, idx, size) == seed[idx] % Smallest({TopK, size})

\* The corridor of one interval; useValidation is whether a validator is given.
RankOf(c, useValidation) ==
    IF useValidation THEN TieBreakKeyWithValidation(c.row, c.vs) ELSE TieBreakKey(c.row)
Candidates(b, pool, useValidation) ==
    {c \in IF useValidation THEN ScoreTopCandidates(b, pool) ELSE Unvalidated(b, pool) :
        c.row.learned # Unscored}
ByRank(S, useValidation) ==
    {p \in S \X S : Earlier(RankOf(p[1], useValidation), RankOf(p[2], useValidation))}
PickCorridor(b, idx, src, dst, seed, useValidation) ==
    LET scored == Value(Candidates(b, Pool(b, src, dst), useValidation))
        ranked == Ordered(scored, ByRank(scored, useValidation))
    IN  ranked[PickWithinTopK(seed, idx, Cardinality(scored)) + 1].row

Failed(reason) == [ok |-> FALSE, reason |-> reason]

ChainBroken(chosen) ==
    \E i \in 1 .. Len(chosen) - 1 :
        /\ chosen[i].dst # chosen[i + 1].src
        /\ Chebyshev(Last(chosen[i].path), Head(chosen[i + 1].path)) > 1

\* The route over the anchors with one corridor per interval; chosen is looked at only
\* when no interval is without a candidate.
MissingAt(b, anchors, i) ==
    \A c \in Pool(b, anchors[i], anchors[i + 1]) : b.corridors[c].learned = Unscored
RouteOver(b, anchors, chosen) ==
    LET n == Len(anchors) - 1
    IN  IF n < 1 THEN Failed("empty_corridors")
        ELSE IF ~IsLinkedCp(b.waypoints) THEN Failed("plain_cp_not_supported_v0")
        ELSE IF b.corridors = << >> THEN Failed("empty_corridors")
        ELSE IF \E i \in 1 .. n : MissingAt(b, anchors, i)
             THEN Failed("missing_corridor_in_interval")
        ELSE IF n > 1 /\ \E i \in 1 .. n : chosen[i].path = << >> THEN Failed("invalid_schema")
        ELSE IF n > 1 /\ ChainBroken(chosen) THEN Failed("chain_broken")
        ELSE [ok |-> TRUE, chosen |-> chosen, anchors |-> anchors]
PickAlong(b, anchors, seed, useValidation) ==
    RouteOver(b, anchors,
              [i \in 1 .. Len(anchors) - 1 |->
                  PickCorridor(b, i, anchors[i], anchors[i + 1], seed, useValidation)])
AssembleRoute(b, seed, useValidation) ==
    PickAlong(b, DetectAndOrderAnchors(b.waypoints), seed, useValidation)

-----------------------------------------------------------------------------
(* finishability.py, generator.py                                          *)

\* The mean learned score, compared without dividing.
RouteScore(route) ==
    FoldFunction(LAMBDA c, acc : c.learned + acc, 0, route.chosen)
RunFinishabilityGate(route) ==
    IF ~route.ok THEN [verified |-> FALSE, reason |-> route.reason]
    ELSE IF RouteScore(route) < ConfidenceFloor * Len(route.chosen)
         THEN [verified |-> FALSE, reason |-> "confidence_below_floor"]
    ELSE [verified |-> TRUE, reason |-> "none"]

RouteCells(route) == Joined([i \in DOMAIN route.chosen |-> route.chosen[i].path])

StripPolicy == "halo_prism_3x7x3_plus_anchor_radius_3"
Stripped(b, route) ==
    StripRoute(ToSet(RouteCells(route)),
               {w.cell : w \in {v \in ToSet(route.anchors) : ~v.free}},
               AnchorCells(b), b.blocks, StripPolicy)

\* The parts of generated_map.schema.json that data can fail: at least one
\* block, two grid checkpoints, scores within 0 .. 1.  A ridge model's
\* prediction is not clipped.
Conforms(a) ==
    /\ a.blocks # << >>
    /\ Cardinality(a.checkpoints) >= 2
    /\ \A i \in DOMAIN a.chosen : a.chosen[i].learned \in 0 .. 10

BuildArtifact(b, route, gate, blocks, seed, strip) ==
    [state |-> "written", verified |-> gate.verified, reason |-> gate.reason,
     blocks |-> blocks, checkpoints |-> GridWaypoints(b),
     chosen |-> IF route.ok THEN route.chosen ELSE << >>,
     base |-> b, seed |-> seed, strip |-> strip]

EmitArtifact(a) == IF Conforms(a) THEN a ELSE [state |-> "raised", gate |-> a.reason]
\* The artifact of a route, with what stripping the map to it leaves.
ArtifactOf(b, route, cut, seed, strip) ==
    EmitArtifact(BuildArtifact(b, route,
        IF strip /\ route.ok /\ ~cut.intact
        THEN [verified |-> FALSE, reason |-> "stripped_route_broken"]
        ELSE RunFinishabilityGate(route),
        IF strip /\ route.ok THEN cut.blocks ELSE b.blocks, seed, strip))
GenerateRoute(b, route, seed, strip) == ArtifactOf(b, route, Stripped(b, route), seed, strip)

\* A catalogue that is empty means no validator.
GenerateFromBase ==
    /\ baseMap # NoBase /\ generated < MaxArtifacts
    /\ generated' = generated + 1
    /\ \E seed \in Seeds, strip \in BOOLEAN :
          artifact' = GenerateRoute(baseMap, AssembleRoute(baseMap, seed, Geometry # << >>),
                                    seed, strip)
    /\ UNCHANGED <<baseMap, validated, rescores>>

\* validate_artifact_file: assemble again from the seed in the file, without a
\* validator, strip again, and run the pre-emit checks on that.
RouteCounts(b, blocks, cells) ==
    RunPreemitValidation(blocks, Geometry, cells,
                         IF cells = << >> THEN {} ELSE {Head(cells)}, TouchedCells(b))
ValidationOf(a, b, route) ==
    IF ~route.ok \/ Geometry = << >> THEN [state |-> "skipped"]
    ELSE [state |-> "checked", of |-> a, chosen |-> route.chosen,
          counts |-> RouteCounts(b, IF a.strip THEN Stripped(b, route).blocks ELSE b.blocks,
                                 RouteCells(route))]
ValidateArtifactFile ==
    /\ artifact.state = "written"
    /\ validated' = ValidationOf(artifact, baseMap,
                                 AssembleRoute(baseMap, artifact.seed, FALSE))
    /\ UNCHANGED <<baseMap, artifact, rescores, generated>>

-----------------------------------------------------------------------------
(* The rest of the system, as far as generation can see it.                *)

ChooseBase ==
    /\ baseMap = NoBase
    /\ baseMap' \in Bases
    /\ UNCHANGED <<artifact, validated, rescores, generated>>

\* score-corridors-learned commits every corridor of a map at once.
ScoreMapLearned ==
    /\ baseMap # NoBase /\ rescores < MaxRescores
    /\ rescores' = rescores + 1
    /\ \E s \in [DOMAIN baseMap.corridors -> LearnedScores] :
          baseMap' = [baseMap EXCEPT !.corridors =
                         [i \in DOMAIN @ |-> [@[i] EXCEPT !.learned = s[i]]]]
    /\ UNCHANGED <<artifact, validated, generated>>

GenerationInit ==
    /\ baseMap = NoBase /\ artifact = NoArtifact
    /\ validated = [state |-> "skipped"] /\ rescores = 0 /\ generated = 0

GenerationNext ==
    ChooseBase \/ ScoreMapLearned \/ GenerateFromBase \/ ValidateArtifactFile

-----------------------------------------------------------------------------
Written == artifact.state = "written"

(* A verified artifact is a whole lap: its corridors lead from Spawn over  *)
(* every linked checkpoint once, in ascending order, to Goal, each ending  *)
(* where the next begins.  A start that is a StartFinish is no anchor of   *)
(* the assembler: that lap begins at the first checkpoint.                 *)
VerifiedIsWholeLap ==
    Written /\ artifact.verified =>
        LET c == artifact.chosen
            ws == artifact.base.waypoints
            orders == Ascending(OrdersOf(ws, "LinkedCheckpoint"))
            before == Len(OneOfTag(ws, "Spawn"))
        IN  /\ c # << >> /\ Len(c) = before + Len(orders) /\ Last(c).dst[1] = "Goal"
            /\ before = 1 => c[1].src[1] = "Spawn"
            /\ \A i \in DOMAIN orders : c[before + i].src = <<"LinkedCheckpoint", orders[i]>>
            /\ \A i \in 1 .. Len(c) - 1 : c[i].dst = c[i + 1].src

(* The learned ranking stays authoritative: the corridor of an interval is *)
(* among the best TopK by learned score, whatever the validators and the   *)
(* sequence scores say.                                                    *)
LearnedDecides ==
    Written => \A i \in DOMAIN artifact.chosen :
        LET c == artifact.chosen[i]
            better == {d \in ToSet(artifact.base.corridors) :
                          /\ d.src = c.src /\ d.dst = c.dst
                          /\ d.learned # Unscored /\ d.learned > c.learned}
        IN  Cardinality(better) < TopK

(* Stripping a map to its route takes nothing from under the route: what   *)
(* the validators say of the route's own cells is the same before and      *)
(* after, and no jump they accepted loses its landing.                     *)
OnRoute(found) == {f \in found : f.code \in {"route_gap", "route_cell_missing_block",
                                             "missing_support"}}
Accepted(jumps) == {i \in DOMAIN jumps : jumps[i] \in {"supported_by_replay",
                                                       "geometrically_plausible"}}
StripKeepsTheRoute ==
    Written /\ artifact.strip /\ artifact.verified =>
        LET cells == RouteCells([chosen |-> artifact.chosen])
            full == artifact.base.blocks
            cut == artifact.blocks
            touched == TouchedCells(artifact.base)
        IN  /\ OnRoute(ValidateMapGeometry(full, Geometry, cells, {}))
                  = OnRoute(ValidateMapGeometry(cut, Geometry, cells, {}))
            /\ Accepted(ValidateJumps(full, Geometry, cells, touched))
                  = Accepted(ValidateJumps(cut, Geometry, cells, touched))

(* What is verified can be driven, and stripping leaves it so: the two     *)
(* conditions above.                                                       *)
VerifiedRunsThrough == VerifiedIsWholeLap /\ StripKeepsTheRoute
=============================================================================
