---------------------------- MODULE CorridorStages ----------------------------
(***************************************************************************)
(* The tables the corridor stages keep for one map: edge evidence with its *)
(* three signals, stored corridors and their confidence                    *)
(* (evidence.py, route_corridors.py, scoring.py and                        *)
(* corridor_scoring_pipeline.py).  Each stage is one transaction; the      *)
(* operator and the pipeline may run them in any order, and a parse or a   *)
(* newly cleaned replay may come between any two.                          *)
(*                                                                         *)
(* Scores are hundredths; the logarithms of the formula are replaced by    *)
(* linear ratios, which keep its zero, its one and its order.              *)
(***************************************************************************)
EXTENDS CorridorGraph

CONSTANTS ParseResults, \* what a parse leaves: [blocks, ways]
          Surveys,      \* [blocks, ways, runs] the algorithms are tried on
          RunCounts,    \* checkpoint counts of a clean replay's sidecar
          DecoThreshold,\* DECO_CLUSTER_NEIGHBOR_THRESHOLD
          TopN,         \* DEFAULT_TOP_N
          MaxParses, MaxCleaned

VARIABLES map,       \* [blocks, ways, runs] as the tables hold them
          evidence,  \* <<lo, hi>> placement ids |-> state and signals
          corridors, \* route_corridors rows
          stamps,    \* history: the parse each table was last written under
          parses     \* parses so far; -1 for a survey

corridorVars == <<map, evidence, corridors, stamps, parses>>

-----------------------------------------------------------------------------
(* What the stages read.                                                   *)

Anchors(w) == BuildAnchorSets(w.ways, CellToFamily(w.blocks))
Observed(w) == BuildObservations(Anchors(w), w.runs)
Intervals(w) == IF w.blocks = << >> \/ w.ways = {} THEN {} ELSE PlanIntervals(Anchors(w))
PathsOf(w, iv) ==
    EnumerateSimplePaths(BuildEnumerationGraph(w.blocks, Observed(w)),
                         iv.sources, iv.targets)

Pids(blocks, e) ==
    LET at == CellToPlacementMap(blocks)
        a == at[e[1]].pid
        b == at[e[2]].pid
    IN  IF a < b THEN <<a, b>> ELSE <<b, a>>
Hops(path) == {<<path[k], path[k + 1]>> : k \in 1 .. Len(path) - 1}
Placed(w) == {w.blocks[i].cell : i \in DOMAIN w.blocks}
Block(w, pid) == w.blocks[CHOOSE i \in DOMAIN w.blocks : w.blocks[i].pid = pid]

-----------------------------------------------------------------------------
(* Evidence.                                                               *)

\* _build_rows_for_map, and the delete and insert of build_map_evidence: the
\* new rows have their signals at the schema's defaults.
BuildRowsForMap(blocks) ==
    LET at == CellToPlacementMap(blocks)
        es == Members(EdgeSeq(blocks))
        rowOf(p) == CHOOSE e \in es : Pids(blocks, e) = p
    IN  [p \in {Pids(blocks, e) : e \in es} |->
            [state |-> LabelEdge(at[rowOf(p)[1]].fam, at[rowOf(p)[2]].fam),
             support |-> 0, weight |-> 0, negative |-> 0]]
BuildMapEvidence ==
    /\ parses > 0 /\ map.blocks # << >>
    /\ evidence' = BuildRowsForMap(map.blocks)
    /\ stamps' = [stamps EXCEPT !.evidence = parses]
    /\ UNCHANGED <<map, corridors, parses>>

\* Signal 1: how often the enumerated paths use an edge.  Only edges some path
\* uses are updated.
RECURSIVE Total(_, _)
Total(S, f) == IF S = {} THEN 0
               ELSE LET x == CHOOSE x \in S : TRUE IN f[x] + Total(S \ {x}, f)
UsesOf(w, p) ==
    LET uses(path) == Cardinality({k \in 1 .. Len(path) - 1 :
                          /\ {path[k], path[k + 1]} \subseteq Placed(w)
                          /\ path[k] # path[k + 1]
                          /\ Pids(w.blocks, <<path[k], path[k + 1]>>) = p})
        inInterval == [iv \in Intervals(w) |->
            LET ps == PathsOf(w, iv)
            IN  Total(DOMAIN ps, [i \in DOMAIN ps |-> uses(ps[i])])]
    IN  Total(Intervals(w), inInterval)
UpdatePathSupport ==
    /\ parses > 0
    /\ evidence' = [p \in DOMAIN evidence |->
           LET n == UsesOf(map, p)
           IN  IF n > 0 THEN [evidence[p] EXCEPT !.support = n] ELSE evidence[p]]
    /\ stamps' = [stamps EXCEPT !.support = parses]
    /\ UNCHANGED <<map, corridors, parses>>

\* Signal 3: how common the edge's pair of families is, against the commonest.
FamilyPair(p) == {Block(map, p[1]).fam, Block(map, p[2]).fam}
PairCount(p) == Cardinality({q \in DOMAIN evidence : FamilyPair(q) = FamilyPair(p)})
UpdatePatternWeights ==
    /\ parses > 0 /\ evidence # << >>
    /\ LET most == CHOOSE n \in {PairCount(p) : p \in DOMAIN evidence} :
                       \A p \in DOMAIN evidence : PairCount(p) <= n
       IN  evidence' = [p \in DOMAIN evidence |->
               [evidence[p] EXCEPT !.weight = (10 * PairCount(p)) \div most]]
    /\ UNCHANGED <<map, corridors, stamps, parses>>

\* Signal 4: deco around both ends of an edge, recorded from the threshold on.
CountNonDrivableNeighbors(fam, c) ==
    Cardinality({n \in Members(Axis(c)) : n \in DOMAIN fam /\ fam[n] = "deco"})
UpdateNegativeEvidence ==
    /\ parses > 0 /\ map.blocks # << >>
    /\ LET fam == CellToFamily(map.blocks)
           around(p) == CountNonDrivableNeighbors(fam, Block(map, p[1]).cell)
                        + CountNonDrivableNeighbors(fam, Block(map, p[2]).cell)
       IN  evidence' = [p \in DOMAIN evidence |->
               IF around(p) >= DecoThreshold
               THEN [evidence[p] EXCEPT !.negative = around(p)] ELSE evidence[p]]
    /\ UNCHANGED <<map, corridors, stamps, parses>>

-----------------------------------------------------------------------------
(* Corridors.                                                              *)

ContainsVirtualEdge(path, virtual) ==
    \E h \in Hops(path) : h \in virtual \/ <<h[2], h[1]>> \in virtual
\* The first TopN paths; a path found twice takes two ranks, which a set of
\* rows shows once.
RankPaths(paths) ==
    {p \in Members(paths) :
        Cardinality({i \in DOMAIN paths : paths[i] # p /\ Ahead(paths[i], p)}) < TopN}
NewCorridors(w) ==
    UNION {{[key |-> <<iv.src, iv.dst>>, path |-> p,
             virtual |-> ContainsVirtualEdge(p, VirtualPairs(Observed(w))),
             score |-> -1] : p \in RankPaths(PathsOf(w, iv))} : iv \in Intervals(w)}

\* Nothing enumerated returns before the delete: the old rows stay.
BuildRouteCorridors ==
    /\ parses > 0
    /\ corridors' = IF NewCorridors(map) = {} THEN corridors ELSE NewCorridors(map)
    /\ stamps' = [stamps EXCEPT !.corridors = parses]
    /\ UNCHANGED <<map, evidence, parses>>

ScoreEdge(ev, most) ==
    IF ev.state # "seed_valid" THEN 0
    ELSE LET boost == IF most > 0 THEN (10 * ev.support) \div most ELSE 0
         IN  ((50 + 3 * boost + 2 * ev.weight) * (24 - ev.negative)) \div 24
Least(S) == CHOOSE n \in S : \A m \in S : n <= m
ScoreCorridor(evs, virtual, most) ==
    IF evs = {} THEN 50
    ELSE LET low == Least({ScoreEdge(ev, most) : ev \in evs})
         IN  IF virtual THEN (8 * low) \div 10 ELSE low
MaxSupport == IF evidence = << >> THEN 0
              ELSE CHOOSE n \in {evidence[p].support : p \in DOMAIN evidence} :
                       \A p \in DOMAIN evidence : evidence[p].support <= n

\* Hops between cells that are not placed, or have no evidence, are skipped.
ScoreMapCorridors ==
    /\ parses > 0 /\ map.blocks # << >> /\ corridors # {}
    /\ LET known(path) == {h \in Hops(path) : {h[1], h[2]} \subseteq Placed(map)
                              /\ Pids(map.blocks, h) \in DOMAIN evidence}
           evs(path) == {evidence[Pids(map.blocks, h)] : h \in known(path)}
       IN  corridors' = {[r EXCEPT !.score = ScoreCorridor(evs(r.path), r.virtual, MaxSupport)] :
                            r \in corridors}
    /\ stamps' = [stamps EXCEPT !.scores = parses, !.under = stamps.evidence]
    /\ UNCHANGED <<map, evidence, parses>>

-----------------------------------------------------------------------------
(* The rest of the system.                                                 *)

\* Mutant: the new placements take the ids of the old ones over.
ParseMapKeepIds(q) ==
    /\ parses \in 0 .. MaxParses - 1
    /\ map' = [blocks |-> [i \in DOMAIN q.blocks |->
                              [pid |-> i, cell |-> q.blocks[i].cell, fam |-> q.blocks[i].fam]],
               ways |-> q.ways, runs |-> map.runs]
    /\ evidence' = [p \in {x \in DOMAIN evidence : x[2] <= Len(q.blocks)} |-> evidence[p]]
    /\ parses' = parses + 1
    /\ UNCHANGED <<corridors, stamps>>

\* A parse replaces the block rows, with new ids, and the waypoints: the
\* foreign keys delete the evidence of the old rows.
ParseMap(q) ==
    /\ parses \in 0 .. MaxParses - 1
    /\ map' = [blocks |-> [i \in DOMAIN q.blocks |->
                              [pid |-> 10 * parses + i, cell |-> q.blocks[i].cell,
                               fam |-> q.blocks[i].fam]],
               ways |-> q.ways, runs |-> map.runs]
    /\ evidence' = << >>
    /\ parses' = parses + 1
    /\ UNCHANGED <<corridors, stamps>>

CleanReplay ==
    /\ parses > 0 /\ Len(map.runs) < MaxCleaned
    /\ \E n \in RunCounts : map' = [map EXCEPT !.runs = Append(@, n)]
    /\ UNCHANGED <<evidence, corridors, stamps, parses>>

\* A map the algorithms alone are tried on.
Survey ==
    /\ parses = 0
    /\ map' \in Surveys
    /\ parses' = -1
    /\ UNCHANGED <<evidence, corridors, stamps>>

CorridorInit ==
    /\ map = [blocks |-> << >>, ways |-> {}, runs |-> << >>]
    /\ evidence = << >> /\ corridors = {}
    /\ stamps = [evidence |-> 0, support |-> 0, corridors |-> 0, scores |-> 0, under |-> 0]
    /\ parses = 0

CorridorNext ==
    \/ BuildMapEvidence \/ UpdatePathSupport \/ UpdatePatternWeights
    \/ UpdateNegativeEvidence \/ BuildRouteCorridors \/ ScoreMapCorridors
    \/ \E q \in ParseResults : ParseMap(q)
    \/ CleanReplay \/ Survey

-----------------------------------------------------------------------------
(* The evidence table never speaks of another parse of the map: its rows   *)
(* are none, or one for each pair of neighbouring cells of the blocks as   *)
(* they are now, labelled by the blocks that win those cells, whatever     *)
(* stages and parses were interleaved.                                     *)
EvidenceIsCurrent ==
    evidence # << >> =>
        LET fam == CellToFamily(map.blocks)
        IN  /\ {{Block(map, p[1]).cell, Block(map, p[2]).cell} : p \in DOMAIN evidence}
               = {{a, b} : <<a, b>> \in {x \in Placed(map) \X Placed(map) : Adjacent(x[1], x[2])}}
            /\ \A p \in DOMAIN evidence :
                  evidence[p].state = LabelEdge(fam[Block(map, p[1]).cell],
                                                fam[Block(map, p[2]).cell])

(* What is stored, scored under the evidence of the same parse: a corridor *)
(* made of grid edges keeps at least half its baseline, and one with a     *)
(* confidence above zero never crosses a grid edge that is not seed-valid. *)
ScoredAsDriven ==
    stamps.corridors = parses /\ stamps.scores = parses /\ stamps.under = parses
    /\ parses > 0 /\ NewCorridors(map) # {} =>
        \A r \in corridors : r.score >= 0 =>
            /\ ~r.virtual /\ Len(r.path) > 1 => r.score >= 25
            /\ r.score > 0 => \A h \in Hops(r.path) :
                   Adjacent(h[1], h[2]) /\ {h[1], h[2]} \subseteq Placed(map) =>
                       \A c \in {h[1], h[2]} : CellToFamily(map.blocks)[c] = "road"

(* Evidence and scores belong to one parse, whatever stages ran between:   *)
(* the two conditions above.                                               *)
ScoresFollowEvidence == EvidenceIsCurrent /\ ScoredAsDriven

(* Every enumerated path is a real one: it runs from a source to a target  *)
(* without passing another target or a cell twice, along edges of the      *)
(* graph, within the depth cap.                                            *)
PathsAreReal ==
    \A iv \in Intervals(map) :
        LET nbrs == BuildEnumerationGraph(map.blocks, Observed(map))
            ps == PathsOf(map, iv)
        IN  \A i \in DOMAIN ps :
               LET p == ps[i]
               IN  /\ p[1] \in iv.sources /\ p[Len(p)] \in iv.targets
                   /\ Len(p) - 1 <= DepthCap
                   /\ \A k \in 1 .. Len(p) - 1 :
                         p[k] \notin iv.targets /\ p[k + 1] \in Members(nbrs[p[k]])
                   /\ \A k, l \in DOMAIN p : k # l => p[k] # p[l]

(* The shared visited set loses paths, but never the interval: some path   *)
(* is found exactly when the targets are within the depth cap.             *)
RECURSIVE Within(_, _, _)
Within(nbrs, S, n) ==
    IF n = 0 THEN S ELSE Within(nbrs, S \cup UNION {Members(nbrs[c]) : c \in S}, n - 1)
FindsSomeRoute ==
    \A iv \in Intervals(map) :
        PathsOf(map, iv) # << >> <=>
            Within(BuildEnumerationGraph(map.blocks, Observed(map)), iv.sources, DepthCap)
                \cap iv.targets # {}

(* The enumeration finds real paths, and one wherever there is one.        *)
EnumerationSound == PathsAreReal /\ FindsSomeRoute

(* The gates an interval is judged by: no path crosses a grid edge that    *)
(* touches deco, deco is on a path only where a waypoint stands, and when  *)
(* nothing is found with all observations nothing is found with one of     *)
(* them held out, so that stability need not be assessed.                  *)
SanityHolds ==
    \A iv \in Intervals(map) :
        LET ps == PathsOf(map, iv)
            marks == UNION {a.cells : a \in Anchors(map)}
            sane == EvaluateCorridorSanity(ps, CellToFamily(map.blocks),
                                           VirtualPairs(Observed(map)), marks)
            held(i) == [map EXCEPT !.runs = Without(@, i)]
        IN  /\ sane.unsupported = {}
            /\ sane.nonDrivable \subseteq marks
            /\ AssessPathStability(map.blocks, Observed(map), iv, TopRankedPath(ps)) = "not_assessed"
               /\ Len(Observed(map)) >= 2 =>
                   \A i \in DOMAIN map.runs : PathsOf(held(i), iv) = << >>

(* The validation's union-find and the enumeration's graph tell the same   *)
(* story: an anchor is in the spawn's component exactly when a walk over   *)
(* seed and observed edges leads to it.                                    *)
ReachabilityAgrees ==
    map.blocks # << >> /\ CellsOf(Anchors(map), SpawnTags) # {} =>
        LET nbrs == BuildEnumerationGraph(map.blocks, Observed(map))
            near == BfsReachable(nbrs, CellsOf(Anchors(map), SpawnTags))
        IN  ReachableAnchors(map.blocks, Anchors(map), Observed(map))
                = {a \in Anchors(map) : a.tag \notin SpawnTags /\ a.cells \cap near # {}}

(* The intervals of a map with linked checkpoints form one chain: from the *)
(* spawn to the goal through every checkpoint in order, each entered and   *)
(* left once, which is what route assembly looks up.                       *)
RECURSIVE ChainFrom(_, _)
ChainFrom(ivs, k) ==
    LET nexts == {iv.dst : iv \in {x \in ivs : x.src = k}}
    IN  <<k>> \o (IF nexts = {} THEN << >> ELSE ChainFrom(ivs, CHOOSE n \in nexts : TRUE))
ChainCloses ==
    LET ivs == Intervals(map)
        linked == {a \in Anchors(map) : a.tag = "LinkedCheckpoint"}
    IN  ivs # {} /\ linked # {} /\ {a \in Anchors(map) : a.tag = "Checkpoint"} = {}
        /\ {a \in Anchors(map) : a.tag = "Goal"} # {} =>
            LET c == ChainFrom(ivs, <<"Spawn", 0>>)
            IN  /\ Len(c) = Cardinality(linked) + 2
                /\ c[Len(c)][1] = "Goal"
                /\ \A i \in 2 .. Len(c) - 2 : c[i][2] < c[i + 1][2]

(* Validation, planning and enumeration, three pieces of code over one     *)
(* graph, agree: the three conditions above.                               *)
VerdictsAgree == SanityHolds /\ ReachabilityAgrees /\ ChainCloses
=============================================================================
