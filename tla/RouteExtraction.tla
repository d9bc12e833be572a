-------------------------- MODULE RouteExtraction --------------------------
(***************************************************************************)
(* extract-route: route/pipeline.py, route/extract.py, route/artifact.py.  *)
(*                                                                         *)
(* The projection onto the centerline and the clusterer are numerical      *)
(* libraries: a sample comes with the arc length s it projects to and its  *)
(* cluster, -1 for noise.  A file is named by the hash of what it holds,   *)
(* so it is its content; a replay is its samples.                          *)
(***************************************************************************)
EXTENDS Integers, Sequences, FiniteSets, Orders

CONSTANTS Library,        \* replay |-> [map, duration, samples, checkpoints]
          RouteVersions,  \* values of --route-version
          MinReplays,     \* min_replays_per_map
          BinSize,        \* branch_bin_size_m
          MinSamples,     \* branch_min_samples_per_cluster
          Boundaries,     \* n_segment_boundaries_default
          MaxExtracts,    \* bound on runs, and on what changes between them
          MaxCuts         \* bound on kills and database errors

ASSUME ExtractionAssumption ==
    /\ MinReplays \in Nat \ {0} /\ BinSize \in Nat \ {0}
    /\ MinSamples \in Nat \ {0} /\ Boundaries \in Nat
    /\ MaxExtracts \in Nat /\ MaxCuts \in Nat
    /\ DOMAIN Library \subseteq Int /\ IsFiniteSet(DOMAIN Library)
    /\ \A r \in DOMAIN Library :
           /\ Library[r].duration \in Nat
           /\ Library[r].samples \in Seq([s : Int, lab : Nat \cup {-1}])

VARIABLES extracting,   \* the running command
          cohort,       \* replay |-> "none", "other" or "intent"
          sidecar,      \* replay |-> "missing", "malformed" or "ok"
          routes,       \* route_artifacts
          routeFiles,   \* the files under artifacts/routes
          routeTemps,   \* the .tmp files beside them
          extracts, cuts
extractVars == <<extracting, cohort, sidecar, routes, routeFiles, routeTemps,
                 extracts, cuts>>

RMaps == {Library[r].map : r \in DOMAIN Library}
NotExtracting == [at |-> "idle", todo |-> {}, map |-> 0, version |-> "", sources |-> {},
                  result |-> <<>>]

-----------------------------------------------------------------------------
(* RouteExtractor.                                                         *)

Apart(a, b) == IF a < b THEN b - a ELSE a - b

\* Twice the median of a sequence of durations.
TwiceMedian(ds) ==
    LET sorted == Ordered(DOMAIN ds, Stable(DOMAIN ds, ds))
        n == Len(ds)
    IN  ds[sorted[(n + 1) \div 2]] + ds[sorted[n \div 2 + 1]]

\* The first replay whose duration is nearest to the median.
Durations(rs) == [i \in DOMAIN rs |-> Library[rs[i]].duration]
FromMedian(ds) == LET m == TwiceMedian(ds) IN [i \in DOMAIN ds |-> Apart(2 * ds[i], m)]
PickSeed(rs) == rs[Ordered(DOMAIN rs, Stable(DOMAIN rs, FromMedian(Durations(rs))))[1]]

\* The bins start at the least s, and none ends behind the greatest: a sample there
\* is in the last bin only if the bin is not full.
Arcs(samples) == {samples[i].s : i \in DOMAIN samples}
Bins(samples) ==
    LET full == (Largest(Arcs(samples)) - Smallest(Arcs(samples)) + BinSize - 1) \div BinSize
    IN  0 .. (IF full < 1 THEN 1 ELSE full) - 1
InBin(samples, b, lab) ==
    LET from == Smallest(Arcs(samples))
    IN  Cardinality({i \in DOMAIN samples : /\ samples[i].s >= from + b * BinSize
                                            /\ samples[i].s < from + (b + 1) * BinSize
                                            /\ samples[i].lab = lab})
Significant(samples, b) ==
    {lab \in {samples[i].lab : i \in DOMAIN samples} \ {-1} :
        InBin(samples, b, lab) >= MinSamples}
Branch(samples, b) ==
    LET labs == Significant(samples, b)
        sizes == [lab \in labs |-> InBin(samples, b, lab)]
        primary == Largest({sizes[lab] : lab \in labs})
    IN  [lo |-> Smallest(Arcs(samples)) + b * BinSize, clusters |-> Cardinality(labs),
         primary |-> primary, alternates |-> SumOver(sizes, labs) - primary]
DetectBranches(samples) ==
    {Branch(samples, b) : b \in {c \in Bins(samples) : Cardinality(Significant(samples, c)) > 1}}

PathLength(samples) == Largest(Arcs(samples)) - Smallest(Arcs(samples))

\* Where a segment begins: s as a fraction.
SegmentBoundaries(seed) ==
    LET l == Library[seed]
    IN  IF l.checkpoints # <<>>
        THEN [k \in DOMAIN l.checkpoints |-> <<l.samples[l.checkpoints[k]].s, 1>>]
        ELSE [k \in 1 .. Boundaries |-> <<k * PathLength(l.samples), Boundaries + 1>>]

AllSamples(rs) == Joined([i \in DOMAIN rs |-> Library[rs[i]].samples])

\* build_initial_centerline needs two samples and a path of some length.
SeedRaises(seed) ==
    Len(Library[seed].samples) < 2 \/ PathLength(Library[seed].samples) = 0
Extract(rs) ==
    [seed |-> PickSeed(rs), branches |-> DetectBranches(AllSamples(rs)),
     segments |-> SegmentBoundaries(PickSeed(rs))]

-----------------------------------------------------------------------------
(* RoutePipeline.                                                          *)

FetchCandidateMapIds == {Library[r].map : r \in {q \in DOMAIN Library : cohort[q] # "none"}}
FetchReplaysInCohort(m) == {r \in DOMAIN Library : Library[r].map = m /\ cohort[r] = "intent"}

\* Mutant: a replay is recorded as a source before its telemetry is loaded.
LoadedSourcesAll(rs) == rs
\* A replay whose sidecar is missing or empty is left out.
LoadedSources(rs) == {r \in rs : sidecar[r] = "ok"}

ExtractInit ==
    /\ extracting = NotExtracting
    /\ cohort = [r \in DOMAIN Library |-> "intent"]
    /\ sidecar = [r \in DOMAIN Library |-> IF Library[r].samples = <<>> THEN "missing" ELSE "ok"]
    /\ routes = {} /\ routeFiles = {} /\ routeTemps = {}
    /\ extracts = 0 /\ cuts = 0

StartExtract ==
    /\ extracting.at = "idle" /\ extracts < MaxExtracts
    /\ \E v \in RouteVersions, asked \in {RMaps} \cup {{m} : m \in RMaps} :
           extracting' = [NotExtracting EXCEPT !.at = "map", !.version = v,
                                               !.todo = asked \cap FetchCandidateMapIds]
    /\ extracts' = extracts + 1
    /\ UNCHANGED <<cohort, sidecar, routes, routeFiles, routeTemps, cuts>>

\* Too few replays, a sidecar that raises, too few loaded, or no path in the seed: the
\* map counts as failed.  Otherwise its route is ready to be written.
ProcessMap ==
    /\ extracting.at = "map"
    /\ \E m \in extracting.todo :
        LET rs == FetchReplaysInCohort(m)
            loaded == LoadedSources(rs)
            fails == \/ Cardinality(rs) < MinReplays
                     \/ \E r \in rs : sidecar[r] = "malformed"
                     \/ Cardinality(loaded) < MinReplays
                     \/ SeedRaises(PickSeed(Ascending(loaded)))
        IN  extracting' =
                IF fails THEN [extracting EXCEPT !.todo = @ \ {m}]
                ELSE [extracting EXCEPT !.at = "temp", !.todo = @ \ {m}, !.map = m,
                                        !.sources = loaded,
                                        !.result = Extract(Ascending(loaded))]
    /\ UNCHANGED <<cohort, sidecar, routes, routeFiles, routeTemps, extracts, cuts>>

WriteTemp ==
    /\ extracting.at = "temp"
    /\ routeTemps' = routeTemps \cup {extracting.result}
    /\ extracting' = [extracting EXCEPT !.at = "replace"]
    /\ UNCHANGED <<cohort, sidecar, routes, routeFiles, extracts, cuts>>
ReplaceTemp ==
    /\ extracting.at = "replace"
    /\ routeTemps' = routeTemps \ {extracting.result}
    /\ routeFiles' = routeFiles \cup {extracting.result}
    /\ extracting' = [extracting EXCEPT !.at = "insert"]
    /\ UNCHANGED <<cohort, sidecar, routes, extracts, cuts>>

\* The row of an earlier run of this version stays as it is.
InsertRouteArtifact ==
    LET x == extracting
        collides == \E row \in routes : row.map = x.map /\ row.version = x.version
    IN  /\ x.at = "insert"
        /\ routes' = IF collides THEN routes
                     ELSE routes \cup {[map |-> x.map, version |-> x.version,
                                        sources |-> x.sources, file |-> x.result]}
        /\ extracting' = [x EXCEPT !.at = "map"]
        /\ UNCHANGED <<cohort, sidecar, routeFiles, routeTemps, extracts, cuts>>
\* Another database error is raised, and counted for this map.
InsertRaises ==
    /\ extracting.at = "insert" /\ cuts < MaxCuts /\ cuts' = cuts + 1
    /\ extracting' = [extracting EXCEPT !.at = "map"]
    /\ UNCHANGED <<cohort, sidecar, routes, routeFiles, routeTemps, extracts>>
EndExtract ==
    /\ extracting.at = "map" /\ extracting.todo = {}
    /\ extracting' = NotExtracting
    /\ UNCHANGED <<cohort, sidecar, routes, routeFiles, routeTemps, extracts, cuts>>
KillExtract ==
    /\ extracting.at # "idle" /\ cuts < MaxCuts /\ cuts' = cuts + 1
    /\ extracting' = NotExtracting
    /\ UNCHANGED <<cohort, sidecar, routes, routeFiles, routeTemps, extracts>>

\* Between runs: assign-cohorts moves a replay, and parse-replays writes a sidecar.
Recohort ==
    /\ extracting.at = "idle" /\ extracts < MaxExtracts
    /\ \E r \in DOMAIN Library, c \in {"none", "other", "intent"} :
           cohort[r] # c /\ cohort' = [cohort EXCEPT ![r] = c]
    /\ extracts' = extracts + 1
    /\ UNCHANGED <<extracting, sidecar, routes, routeFiles, routeTemps, cuts>>
SidecarChanges ==
    /\ extracting.at = "idle" /\ extracts < MaxExtracts
    /\ \E r \in DOMAIN Library :
           /\ Library[r].samples # <<>>
           /\ \E s \in {"malformed", "missing", "ok"} \ {sidecar[r]} :
                  sidecar' = [sidecar EXCEPT ![r] = s]
    /\ extracts' = extracts + 1
    /\ UNCHANGED <<extracting, cohort, routes, routeFiles, routeTemps, cuts>>

ExtractNext ==
    \/ StartExtract \/ ProcessMap \/ WriteTemp \/ ReplaceTemp
    \/ InsertRouteArtifact \/ InsertRaises \/ EndExtract \/ KillExtract
    \/ Recohort \/ SidecarChanges

-----------------------------------------------------------------------------
\* The clusters that really run side by side in the bin k of samples, the last metre left
\* out when it would begin another bin.
SideBySide(samples, k) ==
    LET from == Smallest(Arcs(samples))
        bin(i) == (samples[i].s - from) \div BinSize
    IN  {lab \in {samples[i].lab : i \in DOMAIN samples} :
            /\ lab >= 0
            /\ Cardinality({i \in DOMAIN samples :
                               bin(i) = k /\ samples[i].lab = lab}) >= MinSamples}

(* A row of route_artifacts can be trusted: its file was written before    *)
(* the row named it; there is one route per map and version; the replays   *)
(* it lists are enough, of that map, and the ones the file was made from;  *)
(* its seed has as many slower as faster ones among them; its branches are *)
(* the bins in which several clusters run side by side (_process_map).     *)
RoutesTrue ==
    \A row \in routes :
        LET rs == Ascending(row.sources)
            all == AllSamples(rs)
            from == Smallest(Arcs(all))
            slower == {r \in row.sources : Library[r].duration > Library[row.file.seed].duration}
            faster == {r \in row.sources : Library[r].duration < Library[row.file.seed].duration}
        IN  /\ row.file \in routeFiles
            /\ \A other \in routes :
                   other.map = row.map /\ other.version = row.version => other = row
            /\ Len(rs) >= MinReplays
            /\ \A r \in row.sources : Library[r].map = row.map /\ Library[r].samples # <<>>
            /\ row.file.seed \in row.sources
            /\ 2 * Cardinality(slower) <= Len(rs) /\ 2 * Cardinality(faster) <= Len(rs)
            /\ \A k \in 0 .. (PathLength(all) - 1) \div BinSize :
                   Cardinality(SideBySide(all, k)) > 1
                       <=> \E b \in row.file.branches : b.lo = from + k * BinSize
            /\ \A b \in row.file.branches : b.primary >= MinSamples /\ b.alternates >= MinSamples
=============================================================================
