-------------------------- MODULE TelemetryStages --------------------------
(***************************************************************************)
(* One replay's capture through the telemetry stages: ingest-openplanet-   *)
(* telemetry, ingest-map-items, the coverage store's compute and persist,  *)
(* and extract-driven-paths (src/cli/__main__.py).  The stages are         *)
(* commands an operator runs in any order; persist is taken as the         *)
(* library's operation.                                                    *)
(***************************************************************************)
EXTENDS TelemetryCoverage, DrivenPath

CONSTANTS Layouts,        \* sequences of placements a map may have
          Captures,       \* id |-> capture
          ItemParses,     \* sets of item positions in metres, one per parse
          BakedParses,    \* sets of baked blocks, one per parse
          MaxGapM,        \* --max-gap-m
          MaxCommands     \* commands run

ASSUME LayoutAssumption == Layouts \subseteq Seq(Placement)
ASSUME CaptureAssumption ==
    /\ "none" \notin DOMAIN Captures
    /\ \A c \in DOMAIN Captures :
          Captures[c].samples \in Seq([at : Lattice, t : Int, vy : Int])

VARIABLES layout,     \* block_placements of the map, << >> before it is parsed
          items,      \* map_items: their cells
          baked,      \* map_baked_blocks
          capture,    \* the capture in the replay's file, "none" before one
          cov,        \* replay_telemetry_coverage: key |-> metrics
          terrain,    \* replay_terrain_cells: cell |-> sample count
          visits,     \* driven_block_visits: [run, k, visit]
          job,        \* the extraction under way
          ran         \* how many commands ran

driveVars == <<layout, items, baked, capture, cov, terrain, visits, job, ran>>

NoJob == [pc |-> "idle", queue |-> 0, id |-> "none", adj |-> {}, steps |-> << >>, col |-> 0,
          costs |-> << >>, back |-> << >>, path |-> << >>]

DriveInit ==
    /\ layout = << >> /\ items = {} /\ baked = {} /\ capture = "none"
    /\ cov = << >> /\ terrain = << >> /\ visits = {} /\ job = NoJob
    /\ ran = 0

DriveBegin ==
    /\ layout = << >>
    /\ layout' \in Layouts
    /\ UNCHANGED <<items, baked, capture, cov, terrain, visits, job, ran>>

\* A file is telemetry when it has samples and its crossings are among them.
IsTelemetry(c) == c.samples # << >> /\ Range(c.cps) \subseteq DOMAIN c.samples
\* The row is inserted, or updated in place to the new file's hash.
IngestDirectory ==
    /\ layout # << >> /\ ran < MaxCommands
    /\ \E c \in DOMAIN Captures :
          c # capture /\ IsTelemetry(Captures[c]) /\ capture' = c
    /\ ran' = ran + 1
    /\ UNCHANGED <<layout, items, baked, cov, terrain, visits, job>>

\* Delete-then-insert of the map's items, with the cell each position derives to.
DeriveCell(at) == ToCell(Point(at))
IngestMapItems ==
    /\ layout # << >> /\ items = {} /\ ran < MaxCommands
    /\ \E parse \in ItemParses :
          items' = {DeriveCell(at) : at \in parse}
    /\ ran' = ran + 1
    /\ UNCHANGED <<layout, baked, capture, cov, terrain, visits, job>>
IngestBakedBlocks ==
    /\ layout # << >> /\ baked = {} /\ ran < MaxCommands
    /\ baked' \in BakedParses
    /\ ran' = ran + 1
    /\ UNCHANGED <<layout, items, capture, cov, terrain, visits, job>>

MapWith(withBaked) == [placements |-> layout, items |-> items,
                       baked |-> IF withBaked THEN baked ELSE {}]

\* One transaction: the row of this key, and the replay's terrain cells replaced.
TerrainCells(m) == {m.cells[i] : i \in DOMAIN m.cells}
Persist(key, m) ==
    /\ cov' = [k \in DOMAIN cov \cup {key} |-> IF k = key THEN m ELSE cov[k]]
    /\ terrain' = [c \in TerrainCells(m) |-> Cardinality({i \in DOMAIN m.cells : m.cells[i] = c})]
\* The key: the telemetry's hash and the parameters, which say whether baked blocks count.
StoreCoverage ==
    /\ capture # "none" /\ ran < MaxCommands
    /\ \E withBaked \in BOOLEAN :
          Persist([tele |-> capture, baked |-> withBaked],
                  ComputeCoverage(MapWith(withBaked), Captures[capture]))
    /\ ran' = ran + 1
    /\ UNCHANGED <<layout, items, baked, capture, visits, job>>

\* A row of coverage lets its replay through.
Passes(m) == m.status = "valid" /\ m.class = "block_covered" /\ m.gapM <= MaxGapM
\* The query, without --limit: one row per coverage row that passes, so a replay may be
\* listed twice.
ExtractStart ==
    /\ job.pc = "idle" /\ ran < MaxCommands
    /\ \E redo \in BOOLEAN :
          LET rows == {k \in DOMAIN cov : Passes(cov[k]) /\ (redo \/ visits = {})}
          IN  job' = [NoJob EXCEPT !.pc = IF rows = {} THEN "idle" ELSE "next",
                                   !.queue = Cardinality(rows)]
    /\ ran' = ran + 1
    /\ UNCHANGED <<layout, items, baked, capture, cov, terrain, visits>>
ExtractEnd ==
    /\ job.pc = "next" /\ job.queue = 0
    /\ job' = NoJob
    /\ UNCHANGED <<layout, items, baked, capture, cov, terrain, visits, ran>>
\* The file is read as it is now, whatever the coverage row was computed from.
ExtractOpen ==
    /\ job.pc = "next" /\ job.queue > 0
    /\ LET steps == StepStates(layout, Captures[capture].samples)
       IN  job' = [NoJob EXCEPT !.pc = "search", !.queue = job.queue - 1, !.id = capture,
                                !.adj = Adjacency(layout), !.steps = steps, !.col = 1, !.costs = FirstColumn(steps[1])]
    /\ UNCHANGED <<layout, items, baked, capture, cov, terrain, visits, ran>>
ExtractColumn ==
    /\ job.pc = "search" /\ job.col < Len(job.steps)
    /\ LET c == NextColumn(job.adj, job.steps[job.col], job.costs, job.steps[job.col + 1])
       IN  job' = [job EXCEPT !.col = @ + 1, !.costs = [k \in DOMAIN c |-> c[k].cost],
                              !.back = Append(@, [k \in DOMAIN c |-> c[k].back])]
    /\ UNCHANGED <<layout, items, baked, capture, cov, terrain, visits, ran>>

\* DELETE of the replay's visits of this extractor version, then the new ones.
ReplaceVisits(found) ==
    visits' = {[run |-> <<ran, job.queue>>, k |-> k, visit |-> found[k]] :
                k \in DOMAIN found}
ExtractSave ==
    /\ job.pc = "search" /\ job.col = Len(job.steps)
    /\ LET path == Backtrace(job.steps, job.costs, job.back)
       IN  ReplaceVisits(Visits(path)) /\ job' = [job EXCEPT !.pc = "next", !.path = path]
    /\ UNCHANGED <<layout, items, baked, capture, cov, terrain, ran>>

\* The search reads only what ExtractOpen read, so no other command runs in its midst.
DriveNext ==
    \/ /\ job.pc # "search"
       /\ \/ DriveBegin \/ IngestDirectory \/ IngestMapItems \/ IngestBakedBlocks
          \/ StoreCoverage
    \/ ExtractStart \/ ExtractEnd \/ ExtractOpen \/ ExtractColumn \/ ExtractSave

-----------------------------------------------------------------------------
(* Every sample of a capture is accounted for once in its coverage row:    *)
(* airborne, put down to exactly one of the four sources, terrain or       *)
(* unmatched (the counters compute_coverage adds up in one loop).          *)
CountsAddUp ==
    \A k \in DOMAIN cov :
        LET m == cov[k]
        IN  /\ m.total = m.air + m.grounded
            /\ m.any = m.grid + m.free + m.item + m.baked
            /\ m.grounded = m.any + m.terrain + m.lost

(* The longest gap is one run of unmatched samples: it is made of samples, *)
(* metres and time the unmatched totals also hold, with no flight and no   *)
(* ground inside it (the second loop of compute_coverage against the       *)
(* first).                                                                 *)
GapIsARun ==
    \A k \in DOMAIN cov :
        LET m == cov[k]
            s == Captures[k.tele].samples
            air == ClassifyAirborne(s)
        IN  /\ m.gap <= m.lost /\ m.gapM <= m.lostM /\ m.gapMs <= m.lostMs
            /\ m.gap > 0 => \E i \in DOMAIN s : \A j \in i .. i + m.gap - 1 :
                               j \in DOMAIN s /\ ~air[j] /\ ~OnGround(s[j])

(* The terrain cells on record are those of one stored coverage run, whole *)
(* (persist writes both in a transaction): their samples are that row's    *)
(* terrain samples.                                                        *)
TerrainOfOneRow ==
    DOMAIN cov # {} =>
        \E k \in DOMAIN cov : /\ DOMAIN terrain = TerrainCells(cov[k])
                              /\ cov[k].terrain = SumOver(terrain, DOMAIN terrain)

(* The coverage rows add up, gap and terrain included: the three           *)
(* conditions above.                                                       *)
CoverageSound == CountsAddUp /\ GapIsARun /\ TerrainOfOneRow

(* The sequence of blocks the search settles on costs the least of all     *)
(* sequences ("Viterbi over the trajectory. Returns the best state         *)
(* sequence", driven_path.py).                                             *)
BestSequence ==
    job.path # << >> =>
        \A f \in AllPaths(job.steps) :
            PathCost(job.adj, job.steps, job.path) <= PathCost(job.adj, job.steps, f)

(* A replay's recorded visits tile the samples of one capture, in order    *)
(* and with a change of state between any two, even when its coverage rows *)
(* list it twice or a later run replaces them (driven_block_visits).       *)
VisitsTile ==
    visits # {} =>
        /\ \E c \in DOMAIN Captures :
              UNION {v.visit.first .. v.visit.last : v \in visits} = DOMAIN Captures[c].samples
        /\ \A v, w \in visits :
              /\ v # w => v.visit.last < w.visit.first \/ w.visit.last < v.visit.first
              /\ w.k = v.k + 1 => /\ w.visit.first = v.visit.last + 1
                                  /\ w.visit.state # v.visit.state

(* A sample the coverage stage puts down to a placed block has a candidate *)
(* in the extraction, and one without is never given a block: the two      *)
(* stages look under the car in the same rows (ROW_TOLERANCE, twice).      *)
CoveredHasCandidate ==
    job.col = 1 =>
        LET s == Captures[job.id].samples
        IN  \A i \in DOMAIN s :
               Source([placements |-> layout, items |-> {}, baked |-> {}], Point(s[i].at)) # {}
                   => \E x \in Range(job.steps[i]) : x \notin NoBlock

(* The extraction finds the best path over the candidates it must have.    *)
PathIsBest == BestSequence /\ CoveredHasCandidate

(* What the telemetry stages derive from a capture is right: the best path *)
(* through the blocks it may have touched, and visits that tile it.        *)
DrivenPathSound == PathIsBest /\ VisitsTile

(* The gate's "longest unmatched gap at most --max-gap-m": a capture that  *)
(* passes has no run of unmatched samples longer than that in metres.      *)
GateBoundsGap ==
    \A k \in DOMAIN cov : Passes(cov[k]) =>
        LET s == Captures[k.tele].samples
            air == ClassifyAirborne(s)
            m == MapWith(k.baked)
            bad == {i \in DOMAIN s : /\ ~air[i] /\ ~OnGround(s[i])
                                     /\ Source(m, Point(s[i].at)) = {}}
        IN  \A i, j \in DOMAIN s : i .. j \subseteq bad /\ i <= j =>
               SumOver([n \in i .. j |-> StepM(s, n)], i .. j) <= MaxGapM
=============================================================================
