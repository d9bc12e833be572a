-------------------------- MODULE BlockStatistics --------------------------
(***************************************************************************)
(* What blocks follow and touch each other, counted over all maps:         *)
(* constraints/block_transitions.py (pairs and triples along corridor      *)
(* paths), constraints/face_transitions.py (ports that meet) and           *)
(* constraints/sequence_scoring.py, which scores the corridors with it.    *)
(*                                                                         *)
(* Family and name of a block are one identifier of the catalogue.  A      *)
(* table is a function from the keys it has rows for to [n, maps]:         *)
(* transition_count and map_count.  A key is <<environment, block, ...>>.  *)
(* The run's uncommitted view of its two tables is in mining.              *)
(***************************************************************************)
EXTENDS RouteGrid, Orders

CONSTANTS StatMaps,       \* map ids, in order
          Environment,    \* map |-> environment
          Placed,         \* map |-> grid rows of block_placements, in order
          PathVersions,   \* map |-> the corridor paths it may have
          Geometry,       \* block |-> [surface, shape, deco]: its block_geometry row
          MaxBuilds,      \* bound on commands
          MaxHitches      \* bound on failed statements and kills

\* block_placements is read into tuples of integers, path_cells into a list of cells.
ASSUME StatisticsAssumption ==
    /\ MaxBuilds \in Nat /\ MaxHitches \in Nat
    /\ StatMaps \in Seq(DOMAIN PathVersions)
    /\ \A m \in DOMAIN PathVersions :
          /\ Placed[m] \in Seq([block : STRING, rot : Int, cell : Lattice])
          /\ PathVersions[m] \subseteq Seq(Seq(Lattice))

VARIABLES mining,   \* the running command
          pairs, triples, faces,   \* the committed tables
          corr,     \* map |-> path_cells of its corridors
          seqScore, \* map |-> combined_sequence_score of its corridors
          torn,     \* was the last reset cut between its two TRUNCATEs?
          builds, hitches
statVars == <<mining, pairs, triples, faces, corr, seqScore, torn, builds, hitches>>

NoRows == [k \in {} |-> 0]
Null == [num |-> 0, den |-> 0]
Resting == [at |-> "idle", todo |-> <<>>, both |-> FALSE, pairs |-> NoRows, triples |-> NoRows]

-----------------------------------------------------------------------------
(* Counting along corridor paths.                                          *)

\* The block at each cell: of several, the one read last.
FetchBlocksByCell(m) ==
    [c \in {Placed[m][i].cell : i \in DOMAIN Placed[m]} |->
        Placed[m][Largest({i \in DOMAIN Placed[m] : Placed[m][i].cell = c})].block]

\* Windows of n consecutive cells of a path, each of which has a block.
Windows(m, n) ==
    LET at == FetchBlocksByCell(m)
    IN  {w \in UNION {{p} \X (1 .. Len(corr[m][p]) - n + 1) : p \in DOMAIN corr[m]} :
            \A i \in 0 .. n - 1 : corr[m][w[1]][w[2] + i] \in DOMAIN at}

WindowKey(m, w, n) ==
    LET at == FetchBlocksByCell(m)
    IN  [i \in 1 .. n + 1 |->
            IF i = 1 THEN Environment[m] ELSE at[corr[m][w[1]][w[2] + i - 2]]]

\* A Counter: how often each value of f occurs, in one map.
Counter(f) ==
    [k \in {f[x] : x \in DOMAIN f} |->
        [n |-> Cardinality({x \in DOMAIN f : f[x] = k}), maps |-> 1]]
CountsOf(m, n) == Counter([w \in Windows(m, n) |-> WindowKey(m, w, n)])

ExtractPairCounts(m) == CountsOf(m, 2)
\* Mutant: a window that closes over the cells without a block.
ExtractTripleCountsClosing(m) ==
    LET at == FetchBlocksByCell(m)
        known == {w \in UNION {{p} \X (1 .. Len(corr[m][p])) : p \in DOMAIN corr[m]} :
                     corr[m][w[1]][w[2]] \in DOMAIN at}
        runs == {r \in known \X known \X known :
                     /\ r[1][1] = r[2][1] /\ r[2][1] = r[3][1]
                     /\ r[1][2] < r[2][2] /\ r[2][2] < r[3][2]
                     /\ \A w \in known : w[1] = r[1][1] /\ w[2] \in r[1][2] .. r[3][2]
                                         => w \in {r[1], r[2], r[3]}}
        key(r) == <<Environment[m]>> \o [i \in 1 .. 3 |-> at[corr[m][r[i][1]][r[i][2]]]]
    IN  [k \in {key(r) : r \in runs} |->
            [n |-> Cardinality({r \in runs : key(r) = k}), maps |-> 1]]
ExtractTripleCounts(m) == CountsOf(m, 3)

\* INSERT ... ON DUPLICATE KEY UPDATE: the counts accumulate.
Upsert(table, counts) ==
    LET row(t, k) == IF k \in DOMAIN t THEN t[k] ELSE [n |-> 0, maps |-> 0]
    IN  [k \in DOMAIN table \cup DOMAIN counts |->
            [n |-> row(table, k).n + row(counts, k).n,
             maps |-> row(table, k).maps + row(counts, k).maps]]

WithPaths(ms) == Picked(ms, {i \in DOMAIN ms : corr[ms[i]] # <<>>})
MapsWithPaths == WithPaths(StatMaps)

\* One map was asked for, the first few, or all of them.
Targets == {<<m>> : m \in {StatMaps[i] : i \in DOMAIN StatMaps}}
           \cup {SubSeq(MapsWithPaths, 1, n) : n \in 1 .. Len(MapsWithPaths)}

-----------------------------------------------------------------------------
(* Ports that meet.                                                        *)

PortIndex(b, rot) ==
    IF b \notin DOMAIN Catalogue THEN {}
    ELSE IF Catalogue[b].ground.units = {} THEN {}
    ELSE {[cell |-> RotateOffset(p.cell, rot, Catalogue[b].ground.size),
           face |-> RotateFace(p.face, rot), clip |-> p.clip] : p \in Catalogue[b].ports}

\* Each world cell and face, with the port of the last placement that has one.
OpenPorts(m) ==
    LET at(i) == {<<Plus(Placed[m][i].cell, p.cell), p.face>> :
                      p \in PortIndex(Placed[m][i].block, Placed[m][i].rot)}
        places == UNION {at(i) : i \in DOMAIN Placed[m]}
        last(w) == Largest({i \in DOMAIN Placed[m] : w \in at(i)})
    IN  [w \in places |->
            LET i == last(w)
                p == CHOOSE q \in PortIndex(Placed[m][i].block, Placed[m][i].rot) :
                         <<Plus(Placed[m][i].cell, q.cell), q.face>> = w
            IN  [block |-> Placed[m][i].block, rot |-> Placed[m][i].rot, clip |-> p.clip]]

Across(w) == <<Plus(w[1], FaceDeltas[w[2]]), OppositeFace(w[2])>>

FaceKey(m, open, w) ==
    LET a == open[w]
        b == open[Across(w)]
    IN  <<Environment[m], a.block, b.block, a.clip, (b.rot - a.rot) % 4>>

\* Every port is looked at, so a meeting is counted once from each side.
FaceCountsOf(m) ==
    LET open == OpenPorts(m)
        meet == {w \in DOMAIN open : /\ Across(w) \in DOMAIN open
                                     /\ open[Across(w)].clip = open[w].clip}
    IN  Counter([w \in meet |-> FaceKey(m, open, w)])

FaceCounts ==
    LET after[i \in 0 .. Len(StatMaps)] ==
            IF i = 0 THEN NoRows ELSE Upsert(after[i - 1], FaceCountsOf(StatMaps[i]))
    IN  after[Len(StatMaps)]

-----------------------------------------------------------------------------
(* Scores: num / (400 * den).                                              *)

Symmetric(R) == R \cup {<<r[2], r[1]>> : r \in R}
ShapeCompatiblePairs ==
    ({"straight", "curve"} \X {"straight", "curve"})
    \cup {<<s, s>> : s \in {"platform", "ramp", "loop", "checkpoint"}}
    \cup ({"start"} \X {"straight", "ramp", "curve", "platform"})
    \cup Symmetric(({"ramp"} \X {"straight", "curve", "platform", "loop",
                                 "checkpoint", "finish", "gate"})
                   \cup ({"straight"} \X {"loop", "checkpoint", "finish", "gate"})
                   \cup ({"checkpoint"} \X {"curve", "platform", "gate"}))

\* In twentieths.
GeometryScore(a, b) ==
    LET known == {a, b} \cap DOMAIN Geometry
        sum(ga, gb) ==
            8 + (IF ga.surface # "" /\ ga.surface = gb.surface THEN 5 ELSE 0)
              + (IF <<ga.shape, gb.shape>> \in ShapeCompatiblePairs THEN 6 ELSE 0)
              - (IF ga.deco \/ gb.deco THEN 7 ELSE 0)
              - (IF "unknown" \in {ga.shape, gb.shape} THEN 2 ELSE 0)
        clamp(n) == IF n < 0 THEN 0 ELSE IF n > 20 THEN 20 ELSE n
    IN  IF known = {} THEN 0
        ELSE IF {a, b} \subseteq known THEN clamp(sum(Geometry[a], Geometry[b])) ELSE 3

\* How often the row's block goes on to this one: count and marginal.
RowCount(t, k) == IF k \in DOMAIN t THEN t[k].n ELSE 0
TotalOf(t, S) == SumOver([k \in S |-> RowCount(t, k)], S)
FetchPattern(key) ==
    [count |-> RowCount(pairs, key),
     marginal |-> TotalOf(pairs, {k \in DOMAIN pairs : k[1] = key[1] /\ k[2] = key[2]})]

\* 11 parts of the pattern's share and 9 of the geometry.
ScorePair(key) ==
    LET p == FetchPattern(key)
        g == 9 * GeometryScore(key[2], key[3])
    IN  IF p.marginal = 0 THEN [num |-> g, den |-> 1]
        ELSE [num |-> 220 * p.count + g * p.marginal, den |-> p.marginal]

\* The mean over the pairs of one path; NULL when it has none.
AddScore(t, s) ==
    [num |-> t.num * s.den + s.num * t.den, den |-> t.den * s.den, n |-> t.n + 1]
ScoreCorridorPath(m, p) ==
    LET ws == Windows(m, 2)
        upTo[i \in 0 .. Len(corr[m][p])] ==
            IF i = 0 THEN [num |-> 0, den |-> 1, n |-> 0]
            ELSE IF <<p, i>> \in ws
                 THEN AddScore(upTo[i - 1], ScorePair(WindowKey(m, <<p, i>>, 2)))
                 ELSE upTo[i - 1]
        all == upTo[Len(corr[m][p])]
    IN  IF all.n = 0 THEN Null ELSE [num |-> all.num, den |-> all.den * all.n]

-----------------------------------------------------------------------------
(* The commands.  They run one at a time.                                  *)

StatInit ==
    /\ mining = Resting
    /\ pairs = NoRows /\ triples = NoRows /\ faces = NoRows
    /\ corr = [m \in DOMAIN PathVersions |-> <<>>]
    /\ seqScore = [m \in DOMAIN PathVersions |-> <<>>]
    /\ torn = FALSE /\ builds = 0 /\ hitches = 0

Begin(at, todo, both) ==
    mining' = [at |-> at, todo |-> todo, both |-> both, pairs |-> pairs, triples |-> triples]
Started == mining.at = "idle" /\ builds < MaxBuilds /\ builds' = builds + 1

\* build-block-transition-counts [--reset] [--no-triples].
BuildBlockTransitionCounts ==
    /\ Started
    /\ \E t \in Targets, both \in BOOLEAN, at \in {"pairs", "truncate pairs"} :
           Begin(at, t, both)
    /\ UNCHANGED <<pairs, triples, faces, corr, seqScore, torn, hitches>>

\* TRUNCATE commits by itself, so a reset is two steps.
TruncatePairs ==
    /\ mining.at = "truncate pairs"
    /\ pairs' = NoRows
    /\ mining' = [mining EXCEPT !.at = "truncate triples", !.pairs = NoRows]
    /\ UNCHANGED <<triples, faces, corr, seqScore, torn, builds, hitches>>
TruncateTriples ==
    /\ mining.at = "truncate triples"
    /\ triples' = NoRows /\ torn' = FALSE
    /\ mining' = [mining EXCEPT !.at = "pairs", !.triples = NoRows]
    /\ UNCHANGED <<pairs, faces, corr, seqScore, builds, hitches>>

NextMap(proc) == [proc EXCEPT !.at = "pairs", !.todo = Tail(@)]

\* Without counts there is no statement and no commit.
PersistPairCounts ==
    LET counts == ExtractPairCounts(Head(mining.todo))
        view == [mining EXCEPT !.pairs = Upsert(@, counts)]
    IN  /\ mining.at = "pairs" /\ mining.todo # <<>>
        /\ IF DOMAIN counts = {} THEN UNCHANGED <<pairs, triples>>
           ELSE pairs' = view.pairs /\ triples' = view.triples
        /\ mining' = IF mining.both THEN [view EXCEPT !.at = "triples"] ELSE NextMap(view)
        /\ UNCHANGED <<faces, corr, seqScore, torn, builds, hitches>>
PersistTripleCounts ==
    LET counts == ExtractTripleCounts(Head(mining.todo))
        view == [mining EXCEPT !.triples = Upsert(@, counts)]
    IN  /\ mining.at = "triples"
        /\ IF DOMAIN counts = {} THEN UNCHANGED <<pairs, triples>>
           ELSE pairs' = view.pairs /\ triples' = view.triples
        /\ mining' = NextMap(view)
        /\ UNCHANGED <<faces, corr, seqScore, torn, builds, hitches>>

\* An exception ends one map.  The server has rolled everything back, or executemany
\* failed after some of its rows, which the next map's commit then keeps.
MapFails ==
    /\ mining.at \in {"pairs", "triples"} /\ mining.todo # <<>>
    /\ hitches < MaxHitches /\ hitches' = hitches + 1
    /\ \/ mining' = NextMap([mining EXCEPT !.pairs = pairs, !.triples = triples])
       \/ LET counts == IF mining.at = "pairs" THEN ExtractPairCounts(Head(mining.todo))
                        ELSE ExtractTripleCounts(Head(mining.todo))
          IN  \E done \in SUBSET DOMAIN counts :
                  mining' = NextMap([mining EXCEPT ![mining.at] =
                                         Upsert(@, [k \in done |-> counts[k]])])
    /\ UNCHANGED <<pairs, triples, faces, corr, seqScore, torn, builds>>

\* build-face-transitions [--reset]: the TRUNCATE, then one transaction.
BuildFaceTransitions ==
    /\ Started
    /\ \E at \in {"faces", "truncate faces"} : Begin(at, <<>>, FALSE)
    /\ UNCHANGED <<pairs, triples, faces, corr, seqScore, torn, hitches>>
ResetFaceTransitions ==
    /\ mining.at = "truncate faces"
    /\ faces' = NoRows
    /\ mining' = [mining EXCEPT !.at = "faces"]
    /\ UNCHANGED <<pairs, triples, corr, seqScore, torn, builds, hitches>>
UpsertFaces ==
    /\ mining.at = "faces"
    /\ faces' = Upsert(faces, FaceCounts)
    /\ mining' = Resting
    /\ UNCHANGED <<pairs, triples, corr, seqScore, torn, builds, hitches>>

\* score-corridor-sequences, which commits map by map.
ScoreAllCorridors ==
    /\ Started
    /\ \E t \in Targets : Begin("score", WithPaths(t), FALSE)
    /\ UNCHANGED <<pairs, triples, faces, corr, seqScore, torn, hitches>>
ScoreMap ==
    LET m == Head(mining.todo)
    IN  /\ mining.at = "score" /\ mining.todo # <<>>
        /\ seqScore' = [seqScore EXCEPT ![m] = [p \in DOMAIN corr[m] |->
                                                   ScoreCorridorPath(m, p)]]
        /\ mining' = [mining EXCEPT !.todo = Tail(@)]
        /\ UNCHANGED <<pairs, triples, faces, corr, torn, builds, hitches>>

\* conn.close() drops what was not committed.
EndBuild ==
    /\ mining.at \in {"pairs", "score"} /\ mining.todo = <<>>
    /\ mining' = Resting
    /\ UNCHANGED <<pairs, triples, faces, corr, seqScore, torn, builds, hitches>>
KillBuild ==
    /\ mining.at # "idle" /\ hitches < MaxHitches /\ hitches' = hitches + 1
    /\ mining' = Resting
    /\ torn' = (torn \/ mining.at = "truncate triples")
    /\ UNCHANGED <<pairs, triples, faces, corr, seqScore, builds>>

\* build-route-corridors replaces a map's corridors; a new row has no score.
RebuildCorridors ==
    /\ mining.at = "idle" /\ builds < MaxBuilds
    /\ \E m \in DOMAIN corr : \E ps \in PathVersions[m] \ {corr[m]} :
           /\ corr' = [corr EXCEPT ![m] = ps]
           /\ seqScore' = [seqScore EXCEPT ![m] = [p \in DOMAIN ps |-> Null]]
    /\ UNCHANGED <<mining, pairs, triples, faces, torn, builds, hitches>>

StatNext ==
    \/ BuildBlockTransitionCounts \/ TruncatePairs \/ TruncateTriples
    \/ PersistPairCounts \/ PersistTripleCounts \/ MapFails
    \/ BuildFaceTransitions \/ ResetFaceTransitions \/ UpsertFaces
    \/ ScoreAllCorridors \/ ScoreMap \/ EndBuild \/ KillBuild \/ RebuildCorridors

-----------------------------------------------------------------------------
(* Every triple that was counted was counted as two pairs too: the blocks  *)
(* a triple says follow each other do so in the pair table, at least as    *)
(* often, whatever failed or was rolled back, unless a reset was cut       *)
(* between its two tables (reset_transition_counts).                       *)
PairsCoverTriples ==
    (torn \/ mining.at = "truncate triples") \/
    \A k \in DOMAIN triples :
        LET from == {t \in DOMAIN triples : <<t[1], t[2], t[3]>> = <<k[1], k[2], k[3]>>}
            into == {t \in DOMAIN triples : <<t[1], t[3], t[4]>> = <<k[1], k[3], k[4]>>}
        IN  /\ {<<k[1], k[2], k[3]>>, <<k[1], k[3], k[4]>>} \subseteq DOMAIN pairs
            /\ TotalOf(triples, from) <= pairs[<<k[1], k[2], k[3]>>].n
            /\ TotalOf(triples, into) <= pairs[<<k[1], k[3], k[4]>>].n

(* A meeting of two ports is one whichever block is named first: the table *)
(* has the mirrored row with the same counts (build_face_transitions).     *)
FacesMutual ==
    \A k \in DOMAIN faces :
        LET mirror == <<k[1], k[3], k[2], k[4], (4 - k[5]) % 4>>
        IN  mirror \in DOMAIN faces /\ faces[mirror] = faces[k]

(* "All three scores in [0, 1]" (SequenceScore): a corridor's score is a   *)
(* mean of such, and NULL only when no two neighbours of it are known.     *)
ScoresInRange ==
    \A m \in DOMAIN seqScore : \A p \in DOMAIN seqScore[m] :
        LET s == seqScore[m][p]
        IN  /\ s.num \in 0 .. 400 * s.den
            /\ Windows(m, 2) \cap ({p} \X Nat) = {} => s = Null

StatisticsSound == PairsCoverTriples /\ FacesMutual /\ ScoresInRange
=============================================================================
