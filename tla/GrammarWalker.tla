--------------------------- MODULE GrammarWalker ---------------------------
(***************************************************************************)
(* The route walker driven by observed placements:                         *)
(* src/generation/grammar_walker.py and grammar.py.  A depth-first search  *)
(* with restarts; the order in which equally ranked moves are tried is a   *)
(* random draw, so any order is possible, and the weights that only shape  *)
(* the draw are left out.                                                  *)
(*                                                                         *)
(* A move is [block, off, rel, maps, clip], in the source block's frame.   *)
(***************************************************************************)
EXTENDS RouteGrid, FiniteSetsExt, SequencesExt

CONSTANTS Grammar,        \* block |-> its moves, strongest first
          Jumps,          \* block |-> the mined jumps from it, as moves
          WalkRequests,   \* [pool, jumps, model, length, every, require]
          MinMaps,        \* min_maps
          GapFactor,      \* GAP_MIN_MAPS_FACTOR
          NoClipFactor,   \* NO_CLIP_MIN_MAPS_FACTOR
          MaxLevels,      \* MAX_LEVELS_PER_COLUMN
          VocabRounds,    \* rounds of route_vocabulary
          PerBlock,       \* per_block of route_vocabulary
          MaxExpansions,  \* expansion budget of an attempt
          MaxAttempts     \* attempts of generate

IsMove(m) == m.off \in Lattice /\ m.rel \in 0 .. 3 /\ m.maps \in Nat /\ m.clip \in BOOLEAN

\* The pool's blocks are in the catalogue: the constructor raises otherwise.
ASSUME WalkerAssumption ==
    /\ MinMaps \in Nat /\ GapFactor \in Nat /\ NoClipFactor \in Nat
    /\ MaxLevels \in Nat \ {0} /\ VocabRounds \in Nat /\ PerBlock \in Nat
    /\ MaxExpansions \in Nat \ {0} /\ MaxAttempts \in Nat \ {0}
    /\ \A b \in DOMAIN Grammar : \A i \in DOMAIN Grammar[b] : IsMove(Grammar[b][i])
    /\ \A b \in DOMAIN Jumps : \A m \in Jumps[b] : IsMove(m)
    /\ \A r \in WalkRequests : r.pool \subseteq DOMAIN Catalogue /\ r.length \in Int

VARIABLES request,     \* what was asked for, with the vocabulary allowed
          walkState,   \* idle, refused, between, walking, closed, dead
          attempt,     \* attempts begun
          expansions,  \* nodes entered in this attempt
          route,       \* the placements, each with the moves still untried
          inUse,       \* occupied
          columns,     \* route levels over each column
          exhausted    \* the starts whose search ran out of moves

walkerVars == <<request, walkState, attempt, expansions, route, inUse, columns, exhausted>>

-----------------------------------------------------------------------------
(* grammar.py                                                              *)

IsOverlay(m) == m.off[1] = 0 /\ m.off[3] = 0
IsGap(m) == Abs(m.off[1]) > 1 \/ Abs(m.off[3]) > 1

\* Where and how a move's block lands, given the source placement.
Apply(m, at, rot) ==
    [at |-> Plus(at, RotateVector(m.off, rot)), rot |-> (rot + m.rel) % 4]

MovesOf(b) == IF b \in DOMAIN Grammar THEN Grammar[b] ELSE << >>

\* The ranks of the moves that pass.
Successors(b, allow, gapsToo) ==
    {i \in DOMAIN MovesOf(b) :
        LET m == MovesOf(b)[i]
        IN  /\ m.maps >= MinMaps /\ m.block \in allow /\ ~IsOverlay(m)
            /\ gapsToo \/ ~IsGap(m)}

\* The strongest distinct neighbours of a block, at most PerBlock of them.
Strongest(b, ranks) ==
    {MovesOf(b)[i].block : i \in {j \in ranks :
        Cardinality({MovesOf(b)[k].block : k \in {r \in ranks : r <= j}}) <= PerBlock}}
RouteVocabulary(seeds, allow) ==
    LET grow[n \in 0 .. VocabRounds] ==
            IF n = 0 THEN [vocab |-> seeds, frontier |-> seeds]
            ELSE LET near == UNION {Strongest(b, Successors(b, allow, FALSE)) :
                                       b \in grow[n - 1].frontier}
                     new == near \ grow[n - 1].vocab
                 IN  [vocab |-> grow[n - 1].vocab \cup new, frontier |-> new]
    IN  grow[VocabRounds].vocab

-----------------------------------------------------------------------------
(* The walker.                                                             *)

Buildable(b) == Catalogue[b].ground.units # {} \/ Catalogue[b].air.units # {}
Way(b) == IF Buildable(b) THEN Catalogue[b].way ELSE "None"
Starts(pool) == {b \in pool : Way(b) = "Start"}
Finishes(pool) == {b \in pool : Way(b) = "Finish"}

\* The blocks a route may use: grown from the waypoints and the blocks that
\* join two surfaces.
Allowed(pool) ==
    RouteVocabulary({b \in pool : Way(b) # "None" \/ Catalogue[b].bridge}, pool)

Footprint(b, at, rot) ==
    LET v == VariantOf(b, at[2])
    IN  {Plus(at, RotateOffset(u, rot, v.size)) : u \in v.units}

\* The move that would undo a move, in the target block's frame.
ReverseOffset(m) == RotateVector(<<-m.off[1], -m.off[2], -m.off[3]>>, 4 - m.rel)

FacesTravel(rot, travel) ==
    LET want == FaceDeltas[RotateFace(0, rot)]
    IN  want[1] = Sign(travel[1]) /\ want[3] = Sign(travel[3])

\* What the next block must be: checkpoints are due every so many steps.
Want(steps) ==
    CASE steps >= request.length -> "Finish"
      [] steps < request.length /\ request.every > 0 /\ steps % request.every = 0
            -> "Checkpoint"
      [] OTHER -> "None"

\* Moves the evidence allows.  Clip-matched ones are exclusive when there are
\* any; mined jumps are added after that filter.
CandidateMoves(node, want) ==
    LET back(m) == m.off = node.incoming
        found == {m \in {MovesOf(node.block)[i] :
                              i \in Successors(node.block, request.allow,
                                               request.jumps /\ ~request.model)} :
                     /\ Way(m.block) = want /\ ~back(m)
                     /\ IsGap(m) => m.maps >= MinMaps * GapFactor}
        clipped == {m \in found : m.clip}
        strong == {m \in found : m.maps >= MinMaps * NoClipFactor}
        jumps == IF ~(request.jumps /\ request.model) \/ node.block \notin DOMAIN Jumps
                 THEN {}
                 ELSE {m \in Jumps[node.block] :
                          /\ m.maps >= MinMaps /\ m.block \in request.allow
                          /\ Way(m.block) = want /\ ~back(m)}
    IN  jumps \cup (CASE clipped # {} -> clipped
                      [] clipped = {} /\ strong # {} -> strong
                      [] OTHER -> found)

\* A checkpoint that is due may be left out where the evidence knows none.
Candidates(node, steps) ==
    IF Want(steps) = "Checkpoint" /\ CandidateMoves(node, "Checkpoint") = {}
    THEN CandidateMoves(node, "None") ELSE CandidateMoves(node, Want(steps))

\* A placement of move m from a node of the route.
Landing(node, m) ==
    LET to == Apply(m, node.at, node.rot)
    IN  [block |-> m.block, at |-> to.at, rot |-> to.rot, first |-> m.clip \/ IsGap(m),
         gap |-> IsGap(m), incoming |-> ReverseOffset(m),
         foot |-> Footprint(m.block, to.at, to.rot)]

\* Mutant: only the anchor cell is looked at.
FreeAtAnchor(c, used) == c.at \notin used

Free(c, used) == c.foot \cap used = {}

\* The placements that hold up on the ground: in bounds, on free cells, joined
\* by a face unless a jump, pointing the way, and not over a full column.
Scored(node, steps, used, cols) ==
    {c \in {Landing(node, m) : m \in {n \in Candidates(node, steps) : Buildable(n.block)}} :
        /\ InBounds(c.foot)
        /\ Free(c, used)
        /\ c.gap = ~Touches(node.foot, c.foot)
        /\ Catalogue[c.block].directional => FacesTravel(c.rot, Minus(c.at, node.at))
        /\ \A k \in ColumnsOf(c.foot) : cols[k] < MaxLevels}

-----------------------------------------------------------------------------
(* generate and _attempt.                                                  *)

Columns == (GridMin .. GridMax - 1) \X (GridMin .. GridMax - 1)
NoColumns == [k \in Columns |-> 0]
Top == Last(route)

\* The attempt is over; the next one starts from a fresh draw.
Fail ==
    /\ walkState' = IF attempt < MaxAttempts THEN "between" ELSE "dead"
    /\ route' = << >> /\ inUse' = {} /\ columns' = NoColumns

\* Entering a node costs an expansion, and the budget ends the attempt.
Enter(path, used, cols) ==
    /\ expansions' = expansions + 1
    /\ IF expansions + 1 > MaxExpansions THEN Fail
       ELSE /\ route' = [path EXCEPT ![Len(path)] =
                            [node |-> Last(path).node,
                             rest |-> Scored(Last(path).node, Len(path), used, cols)]]
            /\ inUse' = used /\ columns' = cols
            /\ walkState' = "walking"

\* The constructor: refused without a Start, a Finish and a grammar entry.
BeginWalk ==
    /\ walkState = "idle"
    /\ \E r \in WalkRequests :
          LET allow == Allowed(r.pool)
          IN  /\ request' = [pool |-> r.pool, jumps |-> r.jumps, model |-> r.model,
                             length |-> r.length, every |-> r.every,
                             require |-> r.require, allow |-> allow]
              /\ walkState' = IF \/ Starts(r.pool) = {} \/ Finishes(r.pool) = {}
                                 \/ allow \cap DOMAIN Grammar = {}
                              THEN "refused" ELSE "between"
    /\ UNCHANGED <<attempt, expansions, route, inUse, columns, exhausted>>

\* The start's levels are counted per cell, so a start two cells tall fills its
\* columns twice.
BeginAttempt ==
    /\ walkState = "between"
    /\ attempt' = attempt + 1 /\ expansions' = 1
    /\ \E b \in Starts(request.pool), rot \in 0 .. 3 :
          LET foot == Footprint(b, Origin, rot)
              cols == [k \in Columns |-> Cardinality({c \in foot : <<c[1], c[3]>> = k})]
              node == [block |-> b, at |-> Origin, rot |-> rot, first |-> TRUE,
                       gap |-> FALSE, incoming |-> << >>, foot |-> foot]
          IN  /\ route' = <<[node |-> node, rest |-> Scored(node, 1, foot, cols)]>>
              /\ inUse' = foot /\ columns' = cols
              /\ walkState' = "walking"
    /\ UNCHANGED <<request, exhausted>>

\* Clip-matched moves and jumps are tried before the others.
Tried == LET first == {c \in Top.rest : c.first}
         IN  IF first # {} THEN first ELSE Top.rest

\* Mutant: the moves not tried first are forgotten.
LessTriedGreedy(c) == [route EXCEPT ![Len(route)].rest = {}]

LessTried(c) == [route EXCEPT ![Len(route)].rest = @ \ {c}]

StepOn ==
    /\ walkState = "walking" /\ Want(Len(route)) # "Finish"
    /\ \E c \in Tried :
          Enter(Append(LessTried(c), [node |-> c, rest |-> {}]),
                inUse \cup c.foot,
                [k \in Columns |-> columns[k] + (IF k \in ColumnsOf(c.foot) THEN 1 ELSE 0)])
    /\ UNCHANGED <<request, attempt, exhausted>>

\* The finish closes the route, if it went over every surface asked for.
SurfacesOf(path) == {Catalogue[path[i].node.block].surface : i \in DOMAIN path}
AsRequested(path) == request.require \subseteq SurfacesOf(path)
PlaceFinish ==
    /\ walkState = "walking" /\ Want(Len(route)) = "Finish"
    /\ \E c \in Tried :
          LET path == Append(LessTried(c), [node |-> c, rest |-> {}])
          IN  IF AsRequested(path)
              THEN walkState' = "closed" /\ route' = path /\ UNCHANGED <<inUse, columns>>
              ELSE Fail
    /\ UNCHANGED <<request, attempt, expansions, exhausted>>

\* Mutant: levels are given back per cell, not per column.
LevelsWithoutPerCell(c) ==
    [k \in Columns |-> columns[k] - Cardinality({d \in c.foot : <<d[1], d[3]>> = k})]

\* Taking a block away gives its cells and its levels back.
LevelsWithout(c) ==
    [k \in Columns |-> columns[k] - (IF k \in ColumnsOf(c.foot) THEN 1 ELSE 0)]
CellsWithout(c) == inUse \ c.foot
Backtrack ==
    /\ walkState = "walking" /\ Top.rest = {} /\ Len(route) > 1
    /\ inUse' = CellsWithout(Top.node)
    /\ columns' = LevelsWithout(Top.node)
    /\ route' = Front(route)
    /\ UNCHANGED <<request, walkState, attempt, expansions, exhausted>>

DeadEnd ==
    /\ walkState = "walking" /\ Top.rest = {} /\ Len(route) = 1
    /\ exhausted' = exhausted \cup {Top.node}
    /\ Fail
    /\ UNCHANGED <<request, attempt, expansions>>

WalkerInit ==
    /\ request = [pool |-> {}, jumps |-> FALSE, model |-> FALSE, length |-> 0,
                  every |-> 0, require |-> {}, allow |-> {}]
    /\ walkState = "idle" /\ attempt = 0 /\ expansions = 0 /\ route = << >>
    /\ inUse = {} /\ columns = NoColumns /\ exhausted = {}

WalkerNext ==
    BeginWalk \/ BeginAttempt \/ StepOn \/ PlaceFinish \/ Backtrack \/ DeadEnd

-----------------------------------------------------------------------------
Blocks == [i \in DOMAIN route |-> route[i].node]
Closed == walkState = "closed"

(* A column carries at most MaxLevels blocks of a route, the finish        *)
(* included, however often the walker backtracked on the way.              *)
LevelsCapped ==
    \A k \in Columns :
        Cardinality({i \in DOMAIN route : k \in ColumnsOf(Blocks[i].foot)}) <= MaxLevels

(* Every step of a closed route is a placement the corpus attests: seen    *)
(* from the block before, at its rotation, the next one stands where a     *)
(* move of the grammar or a mined jump put it, in MinMaps maps or more.    *)
RouteAttested ==
    Closed => \A i \in 1 .. Len(route) - 1 :
        LET a == Blocks[i]
            b == Blocks[i + 1]
            seen == ToSet(MovesOf(a.block))
                    \cup (IF a.block \in DOMAIN Jumps THEN Jumps[a.block] ELSE {})
        IN  \E m \in seen :
                /\ m.block = b.block /\ m.maps >= MinMaps
                /\ m.rel = (b.rot - a.rot) % 4
                /\ m.off = RotateVector(Minus(b.at, a.at), 4 - a.rot)

(* A closed route is what was asked for: from a Start to a Finish, of the  *)
(* length asked for, over every surface asked for.                         *)
RouteAsAsked ==
    Closed => /\ Way(Head(Blocks).block) = "Start" /\ Way(Last(Blocks).block) = "Finish"
              /\ \A i \in 2 .. Len(route) - 1 : Way(Blocks[i].block) \in {"None", "Checkpoint"}
              /\ Len(route) = Max({1, request.length}) + 1
              /\ \A s \in request.require :
                    \E i \in DOMAIN route : Catalogue[Blocks[i].block].surface = s

(* A route is one the walker was asked for and the corpus allows: the      *)
(* three conditions above.                                                 *)
RouteAllowed == LevelsCapped /\ RouteAttested /\ RouteAsAsked

\* The walker keeps its ground the way WalkStack promises; a finish closes the
\* route without being entered in the occupancy.
Feet == [i \in DOMAIN route |-> Blocks[i].foot]
Standable == {Footprint(b, at, rot) : b \in {d \in DOMAIN Catalogue : Buildable(d)},
                                      at \in GroundCells, rot \in 0 .. 3}
Stack == INSTANCE WalkStack WITH
    Footprints <- Standable, feet <- Feet,
    taken <- IF Closed THEN inUse \cup Top.node.foot ELSE inUse

(* The walker implements WalkStack: it builds on free ground only, and     *)
(* backtracking gives back exactly the ground of the block taken away.     *)
WalksAsStack == Stack!StackSpec
=============================================================================
