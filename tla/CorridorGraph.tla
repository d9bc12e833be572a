----------------------------- MODULE CorridorGraph -----------------------------
(***************************************************************************)
(* The drivable graph of one map and the paths through it                  *)
(* (src/corridor/traversability): which block occupies a cell, which       *)
(* edges are seed-valid, the anchor sets of the waypoints, what a clean    *)
(* replay asserts about them, reachability with and without those          *)
(* assertions, and the depth-first enumeration of corridor paths.          *)
(*                                                                         *)
(* A cell is a number of a grid GridWidth wide, in the lexicographic order *)
(* of its coordinates; the grid has two of the game's three axes.  A       *)
(* block family is its bucket: "road", "open" or "deco".                   *)
(***************************************************************************)
EXTENDS Integers, Sequences, FiniteSets

CONSTANTS GridCells,  \* number of cells
          GridWidth,
          DepthCap,   \* DEFAULT_DEPTH_CAP
          HardCap     \* P95_PATH_COUNT_CAP

Cells == 0 .. GridCells - 1
InOrder(S) == [i \in 1 .. Cardinality(S) |->
                  CHOOSE c \in S : Cardinality({d \in S : d < c}) = i - 1]
Members(s) == {s[i] : i \in DOMAIN s}
RECURSIVE Flatten(_)
Flatten(ss) == IF ss = << >> THEN << >> ELSE Head(ss) \o Flatten(Tail(ss))

\* The neighbours a loop over the axes visits, in its order.
Axis(c) ==
    SelectSeq(<<c + GridWidth, c - GridWidth,
                IF c % GridWidth < GridWidth - 1 THEN c + 1 ELSE -1,
                IF c % GridWidth > 0 THEN c - 1 ELSE -1>>,
              LAMBDA n : n \in Cells)
Adjacent(a, b) == b \in Members(Axis(a))

-----------------------------------------------------------------------------
(* Blocks.  A layout is a sequence of [pid, cell, fam], in row order.      *)

Drivability(fam) == CASE fam = "road" -> 2 [] fam = "open" -> 1 [] OTHER -> 0

\* Layered blocks: the most drivable family wins its cell, the first of them.
BestAt(layout, c) ==
    LET here == {i \in DOMAIN layout : layout[i].cell = c}
        best == {i \in here : \A j \in here :
                    Drivability(layout[j].fam) <= Drivability(layout[i].fam)}
    IN  CHOOSE i \in best : \A j \in best : i <= j
CellToFamily(layout) ==
    [c \in {layout[i].cell : i \in DOMAIN layout} |-> layout[BestAt(layout, c)].fam]

\* The evidence table and scoring resolve a cell by a copy of that rule.
CellToPlacementMap(layout) ==
    [c \in {layout[i].cell : i \in DOMAIN layout} |->
        layout[CHOOSE i \in DOMAIN layout :
            /\ layout[i].cell = c
            /\ \A j \in DOMAIN layout : layout[j].cell = c =>
                  \/ Drivability(layout[j].fam) < Drivability(layout[i].fam)
                  \/ Drivability(layout[j].fam) = Drivability(layout[i].fam) /\ i <= j]]

LabelEdge(f, g) ==
    CASE f = "deco" \/ g = "deco" -> "unsupported"
      [] f = "road" /\ g = "road" -> "seed_valid"
      [] OTHER -> "unknown"

\* The axis edges in the order the loop meets them: a pair is met first from
\* the cell whose first block comes first.
FirstBlock(layout, c) ==
    CHOOSE i \in DOMAIN layout :
        layout[i].cell = c /\ \A j \in 1 .. i - 1 : layout[j].cell # c
EdgeSeq(layout) ==
    LET firsts == SelectSeq([i \in DOMAIN layout |-> i],
                            LAMBDA i : FirstBlock(layout, layout[i].cell) = i)
        placed == {layout[i].cell : i \in DOMAIN layout}
    IN  Flatten([k \in DOMAIN firsts |->
            LET c == layout[firsts[k]].cell
                later == SelectSeq(Axis(c), LAMBDA n :
                             n \in placed /\ FirstBlock(layout, n) > firsts[k])
            IN  [j \in DOMAIN later |-> <<c, later[j]>>]])
SeedEdges(layout) ==
    LET fam == CellToFamily(layout)
    IN  SelectSeq(EdgeSeq(layout), LAMBDA e :
            LabelEdge(fam[e[1]], fam[e[2]]) = "seed_valid")

\* An undirected edge list as neighbour lists.
BuildCellGraph(es) ==
    [c \in Cells |->
        LET mine == SelectSeq(es, LAMBDA e : c \in {e[1], e[2]})
        IN  [i \in DOMAIN mine |-> IF mine[i][1] = c THEN mine[i][2] ELSE mine[i][1]]]

-----------------------------------------------------------------------------
(* Waypoints.  A waypoint is [tag, order, cell]; a free one has            *)
(* free = TRUE and cell is where it hangs, placed or not.                  *)

SpawnTags == {"Spawn", "StartFinish"}

\* The nearest road, or the nearest block when the map has no road.
Distance(a, b) ==
    LET dx == (a \div GridWidth) - (b \div GridWidth)
        dz == (a % GridWidth) - (b % GridWidth)
    IN  dx * dx + dz * dz
SnapFreeWaypointToGrid(w, fam) ==
    LET roads == {c \in DOMAIN fam : fam[c] = "road"}
        pool == IF roads # {} THEN roads ELSE DOMAIN fam
    IN  CHOOSE c \in pool :
            \A d \in pool : Distance(w.cell, c) < Distance(w.cell, d)
                            \/ (Distance(w.cell, c) = Distance(w.cell, d) /\ c <= d)
OnGridCell(w, fam) == IF w.free THEN SnapFreeWaypointToGrid(w, fam) ELSE w.cell

\* Waypoint rows with one tag and order are one anchor set.
BuildAnchorSets(ways, fam) ==
    {[tag |-> w.tag, order |-> w.order,
      cells |-> {OnGridCell(v, fam) :
                    v \in {u \in ways : u.tag = w.tag /\ u.order = w.order}}] :
        w \in ways}
CellsOf(anchors, tags) == UNION {a.cells : a \in {b \in anchors : b.tag \in tags}}

\* What a clean replay asserts: the anchors it crossed are connected.  cps is
\* the number of checkpoint times in its sidecar, or -1 when it is unreadable.
BuildObservation(anchors, cps) ==
    LET linked == {a \in anchors : a.tag = "LinkedCheckpoint"}
        plain == CellsOf(anchors, {"Checkpoint"})
        base == CellsOf(anchors, SpawnTags \cup {"Goal"})
        n == Cardinality(linked)
        m == Cardinality(plain)
    IN  CASE cps < 0 \/ (linked # {} /\ plain # {}) -> base
          [] linked # {} /\ cps \in {n, n + 1} -> base \cup UNION {a.cells : a \in linked}
          [] plain # {} /\ cps \in {m, m + 1} -> base \cup plain
          [] OTHER -> base
BuildObservations(anchors, runs) ==
    SelectSeq([i \in DOMAIN runs |-> BuildObservation(anchors, runs[i])],
              LAMBDA o : Cardinality(o) >= 2)

-----------------------------------------------------------------------------
(* Reachability.                                                           *)

RECURSIVE BfsReachable(_, _)
BfsReachable(nbrs, S) ==
    LET T == S \cup UNION {Members(nbrs[c]) : c \in S}
    IN  IF T = S THEN S ELSE BfsReachable(nbrs, T)

\* _UnionFind: parents and sizes, the smaller tree under the larger root.
Lone == [parent |-> [c \in Cells |-> c], size |-> [c \in Cells |-> 1]]
RECURSIVE Find(_, _)
Find(uf, c) == IF uf.parent[c] = c THEN c ELSE Find(uf, uf.parent[c])
Union(uf, a, b) ==
    LET ra == Find(uf, a)
        rb == Find(uf, b)
        top == IF uf.size[ra] < uf.size[rb] THEN rb ELSE ra
        low == IF top = ra THEN rb ELSE ra
    IN  IF ra = rb THEN uf
        ELSE [parent |-> [uf.parent EXCEPT ![low] = top],
              size |-> [uf.size EXCEPT ![top] = @ + uf.size[low]]]
RECURSIVE UnionAll(_, _)
UnionAll(uf, es) == IF es = << >> THEN uf
                    ELSE UnionAll(Union(uf, Head(es)[1], Head(es)[2]), Tail(es))

\* An observation is merged as a star, the spawn cells among themselves too.
Star(S) == LET s == InOrder(S) IN [i \in 1 .. Len(s) - 1 |-> <<s[1], s[i + 1]>>]
ReachableAnchors(layout, anchors, obs) ==
    LET spawn == CellsOf(anchors, SpawnTags)
        uf == UnionAll(Lone, SeedEdges(layout)
                             \o Flatten([i \in DOMAIN obs |-> Star(obs[i])])
                             \o Star(spawn))
        rep == Find(uf, CHOOSE c \in spawn : TRUE)
    IN  {a \in anchors : a.tag \notin SpawnTags
                         /\ \E c \in a.cells : Find(uf, c) = rep}

-----------------------------------------------------------------------------
(* Enumeration.                                                            *)

\* Virtual edges: the pairs of every observation, each pair once.
VirtualPairs(obs) == {<<a, b>> \in Cells \X Cells :
                        a < b /\ \E i \in DOMAIN obs : {a, b} \subseteq obs[i]}
RECURSIVE PairSeq(_)
PairSeq(S) == IF S = {} THEN << >>
              ELSE LET p == CHOOSE p \in S : \A q \in S :
                               p[1] < q[1] \/ (p[1] = q[1] /\ p[2] <= q[2])
                   IN  <<p>> \o PairSeq(S \ {p})
BuildEnumerationGraph(layout, obs) ==
    BuildCellGraph(SeedEdges(layout) \o PairSeq(VirtualPairs(obs)))

\* Mutant: a visited cell is entered again.
RECURSIVE ExpandAgain(_, _, _, _, _)
ExpandAgain(st, targets, path, depth, nbs) ==
    IF nbs = << >> \/ Len(st.paths) >= HardCap THEN st
    ELSE ExpandAgain(IF Head(nbs) \in targets
                     THEN [st EXCEPT !.paths = Append(@, Append(path, Head(nbs)))]
                     ELSE [st EXCEPT !.stack = Append(@, [path |-> Append(path, Head(nbs)),
                                                          depth |-> depth + 1])],
                     targets, path, depth, Tail(nbs))

\* The loop over one popped cell's neighbours: st has the stack, the one
\* visited set all branches share, and the paths found.
RECURSIVE Expand(_, _, _, _, _)
Expand(st, targets, path, depth, nbs) ==
    IF nbs = << >> \/ Len(st.paths) >= HardCap THEN st
    ELSE LET n == Head(nbs)
             next == CASE n \in st.visited -> st
                       [] n \notin st.visited /\ n \in targets ->
                              [st EXCEPT !.paths = Append(@, Append(path, n))]
                       [] OTHER ->
                              [st EXCEPT !.visited = @ \cup {n},
                                         !.stack = Append(@, [path |-> Append(path, n),
                                                              depth |-> depth + 1])]
         IN  Expand(next, targets, path, depth, Tail(nbs))

\* A cell leaves visited when the depth cap stops there, and when it has no
\* neighbour left to visit.
AtCap(depth) == depth >= DepthCap
Backtracked(visited, c, nbrs) ==
    IF \E n \in Members(nbrs[c]) : n \notin visited THEN visited ELSE visited \ {c}

RECURSIVE Search(_, _, _)
Search(nbrs, targets, st) ==
    IF st.stack = << >> \/ Len(st.paths) >= HardCap THEN st
    ELSE LET top == st.stack[Len(st.stack)]
             cur == top.path[Len(top.path)]
             popped == [st EXCEPT !.stack = SubSeq(@, 1, Len(@) - 1)]
             grown == Expand(popped, targets, top.path, top.depth, nbrs[cur])
             spent == [grown EXCEPT !.visited = Backtracked(@, cur, nbrs)]
         IN  Search(nbrs, targets,
                    IF AtCap(top.depth)
                    THEN [popped EXCEPT !.visited = @ \ {cur}] ELSE spent)

RECURSIVE SearchFrom(_, _, _, _)
SearchFrom(nbrs, targets, st, srcs) ==
    IF srcs = << >> \/ Len(st.paths) >= HardCap THEN st.paths
    ELSE LET s == Head(srcs)
             begun == [st EXCEPT !.stack = <<[path |-> <<s>>, depth |-> 0]>>,
                                 !.visited = @ \cup {s}]
             done == IF s \in targets THEN [st EXCEPT !.paths = Append(@, <<s>>)]
                     ELSE LET r == Search(nbrs, targets, begun)
                          IN  [r EXCEPT !.visited = @ \ {s}]
         IN  SearchFrom(nbrs, targets, done, Tail(srcs))
EnumerateSimplePaths(nbrs, sources, targets) ==
    SearchFrom(nbrs, targets, [stack |-> << >>, visited |-> {}, paths |-> << >>],
               InOrder(sources))

\* The intervals: a chain through the linked checkpoints, else from the spawn
\* to every other anchor set.  The first goal wins.
Interval(a, b, from, to) == [src |-> a, dst |-> b, sources |-> from, targets |-> to]
Key(a) == <<a.tag, a.order>>
FirstOf(S) == CHOOSE a \in S : \A b \in S : a.order <= b.order

\* Mutant: the last checkpoint leads nowhere.
NextAnchorOpen(a, linked, goal) ==
    {b \in linked : b.order > a.order
        /\ \A d \in linked : d.order > a.order => b.order <= d.order}

\* What follows a linked checkpoint: the next one in order, then the goal.
NextAnchor(a, linked, goal) ==
    IF \E b \in linked : b.order > a.order
    THEN {FirstOf({b \in linked : b.order > a.order})}
    ELSE goal
PlanIntervals(anchors) ==
    LET spawn == CellsOf(anchors, SpawnTags)
        linked == {a \in anchors : a.tag = "LinkedCheckpoint"}
        plain == {a \in anchors : a.tag = "Checkpoint"}
        goals == {a \in anchors : a.tag = "Goal"}
        goal == IF goals = {} THEN {} ELSE {FirstOf(goals)}
        rest == {a \in anchors : a.tag \notin SpawnTags \cup {"Goal"}}
        fromSpawn(A) == {Interval(<<"Spawn", 0>>, Key(a), spawn, a.cells) : a \in A}
    IN  CASE spawn = {} -> {}
          [] spawn # {} /\ linked # {} /\ plain = {} /\ goal # {} ->
               fromSpawn({FirstOf(linked)})
               \cup UNION {{Interval(Key(a), Key(b), a.cells, b.cells) :
                               b \in NextAnchor(a, linked, goal)} : a \in linked}
          [] OTHER -> fromSpawn(rest \cup goal)

\* sorted by length, then cell by cell.
RECURSIVE Before(_, _)
Before(p, q) == IF p = << >> \/ q = << >> THEN TRUE
                ELSE IF p[1] # q[1] THEN p[1] < q[1] ELSE Before(Tail(p), Tail(q))
Ahead(p, q) == Len(p) < Len(q) \/ (Len(p) = Len(q) /\ Before(p, q))
TopRankedPath(paths) ==
    IF paths = << >> THEN << >>
    ELSE CHOOSE p \in Members(paths) : \A q \in Members(paths) : Ahead(p, q)

\* Every observation held out in turn must leave the same top path.
Without(obs, i) == SubSeq(obs, 1, i - 1) \o SubSeq(obs, i + 1, Len(obs))
AssessPathStability(layout, obs, iv, top) ==
    CASE Len(obs) < 2 \/ top = << >> -> "not_assessed"
      [] OTHER ->
           IF \A i \in 1 .. (IF Len(obs) < 5 THEN Len(obs) ELSE 5) :
                  TopRankedPath(EnumerateSimplePaths(
                      BuildEnumerationGraph(layout, Without(obs, i)),
                      iv.sources, iv.targets)) = top
           THEN "stable" ELSE "unstable"

\* _evaluate_corridor_sanity: edges that are not virtual and touch a deco
\* block, deco cells on a path, and cells beside deco that are not anchors.
EvaluateCorridorSanity(paths, fam, virtual, anchorCells) ==
    LET deco(c) == c \in DOMAIN fam /\ fam[c] = "deco"
        cells == UNION {Members(paths[i]) : i \in DOMAIN paths}
        hops == UNION {{<<paths[i][k], paths[i][k + 1]>> : k \in 1 .. Len(paths[i]) - 1} :
                          i \in DOMAIN paths}
    IN  [unsupported |-> {h \in hops : /\ h \notin virtual /\ <<h[2], h[1]>> \notin virtual
                                       /\ (deco(h[1]) \/ deco(h[2]))},
         nonDrivable |-> {c \in cells : deco(c)},
         contaminated |-> {c \in cells \ anchorCells :
                              \E n \in Members(Axis(c)) : deco(n)}]
=============================================================================
