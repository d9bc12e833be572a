----------------------------- MODULE ClipWalker -----------------------------
(***************************************************************************)
(* The route walker that joins blocks by the clips on their faces:         *)
(* src/generation/clip_walker.py.  One depth-first search, no restarts;    *)
(* the priors and the bias only shape the random order of trial, so any    *)
(* order is possible.                                                      *)
(*                                                                         *)
(* A port is [cell, face, clip]; only ground variants are used.            *)
(***************************************************************************)
EXTENDS RouteGrid, FiniteSetsExt, SequencesExt

CONSTANTS RouteClips,       \* the clips a route may travel over
          ClipRequests,     \* [pool, length, every]
          ClipExpansions    \* max_expansions

\* A block that is not in the catalogue is refused by the constructor.
ASSUME ClipAssumption ==
    /\ ClipExpansions \in Nat \ {0}
    /\ \A r \in ClipRequests : r.pool \subseteq DOMAIN Catalogue /\ r.length \in Int

VARIABLES clipRequest, clipState, clipSpent, clipRoute, clipUsed

clipVars == <<clipRequest, clipState, clipSpent, clipRoute, clipUsed>>

-----------------------------------------------------------------------------
\* A block at one of its rotations, with the ports a route may use.
Oriented(b, rot) ==
    LET v == Catalogue[b].ground
    IN  [block |-> b, rot |-> rot,
         cells |-> {RotateOffset(u, rot, v.size) : u \in v.units},
         ports |-> {[cell |-> RotateOffset(p.cell, rot, v.size),
                     face |-> RotateFace(p.face, rot), clip |-> p.clip] :
                       p \in {q \in Catalogue[b].ports : q.clip \in RouteClips}}]
Orientations(pool) == {Oriented(b, rot) : b \in pool, rot \in 0 .. 3}

\* Ends have one port, everything between has two.
Usable(pool, way, n) ==
    {o \in Orientations(pool) :
        Catalogue[o.block].way = way /\ Cardinality(o.ports) = n}
ClipStarts(pool) == Usable(pool, "Start", 1)
ClipFinishes(pool) == Usable(pool, "Finish", 1)
ClipPool(steps) ==
    LET checkpoints == Usable(clipRequest.pool, "Checkpoint", 2)
        plain == Usable(clipRequest.pool, "None", 2)
    IN  CASE steps >= clipRequest.length -> ClipFinishes(clipRequest.pool)
          [] /\ steps < clipRequest.length /\ checkpoints # {}
             /\ clipRequest.every > 0 /\ steps % clipRequest.every = 0 -> checkpoints
          [] OTHER -> plain

MovedOn(p, at) == [cell |-> Plus(at, p.cell), face |-> p.face, clip |-> p.clip]

\* The cell an open port leads to.
LeadsTo(p) == Plus(p.cell, FaceDeltas[p.face])

Meets(e, open) == e.face = OppositeFace(open.face) /\ e.clip = open.clip

\* The ways to put o behind an open port: one per port that meets it.
Joins(o, open) ==
    {[block |-> o.block, rot |-> o.rot, at |-> Minus(LeadsTo(open), e.cell),
      foot |-> {Plus(Minus(LeadsTo(open), e.cell), c) : c \in o.cells},
      exits |-> {MovedOn(p, Minus(LeadsTo(open), e.cell)) : p \in o.ports \ {e}}] :
        e \in {p \in o.ports : Meets(p, open)}}

\* Mutant: arrows are not looked at.
ArrowFollowsAnyway(c) == TRUE

\* A gate's arrow looks out of its local north face; it must follow travel.
ArrowFollows(c) == \A p \in c.exits : RotateFace(0, c.rot) = p.face

Fits(c, used) ==
    /\ InBounds(c.foot) /\ c.foot \cap used = {}
    /\ IF Catalogue[c.block].way = "Finish" THEN c.exits = {}
       ELSE /\ Cardinality(c.exits) = 1
            /\ Catalogue[c.block].directional => ArrowFollows(c)

Trials(open, steps, used) ==
    {c \in UNION {Joins(o, open) : o \in ClipPool(steps)} : Fits(c, used)}

-----------------------------------------------------------------------------
ClipTop == Last(clipRoute)
OneOf(S) == CHOOSE x \in S : TRUE

ClipDead == clipState' = "dead" /\ clipRoute' = << >> /\ clipUsed' = {}

BeginClip ==
    /\ clipState = "idle"
    /\ \E r \in ClipRequests :
          /\ clipRequest' = r
          /\ clipState' = IF ClipStarts(r.pool) = {} \/ ClipFinishes(r.pool) = {}
                          THEN "refused" ELSE "ready"
    /\ UNCHANGED <<clipSpent, clipRoute, clipUsed>>

PlaceStart ==
    /\ clipState = "ready"
    /\ \E o \in ClipStarts(clipRequest.pool) :
          LET foot == {Plus(Origin, c) : c \in o.cells}
              open == MovedOn(OneOf(o.ports), Origin)
          IN  /\ clipRoute' = <<[node |-> [block |-> o.block, rot |-> o.rot, at |-> Origin,
                                           foot |-> foot, exits |-> {open}],
                                 rest |-> Trials(open, 1, foot)]>>
              /\ clipUsed' = foot
    /\ clipSpent' = 1 /\ clipState' = "walking"
    /\ UNCHANGED clipRequest

ClipLess(c) == [clipRoute EXCEPT ![Len(clipRoute)].rest = @ \ {c}]

\* Entering a node costs an expansion, and the budget ends the search.
ClipStep ==
    /\ clipState = "walking" /\ Len(clipRoute) < clipRequest.length
    /\ \E c \in ClipTop.rest :
          LET used == clipUsed \cup c.foot
          IN  /\ clipSpent' = clipSpent + 1
              /\ IF clipSpent + 1 > ClipExpansions THEN ClipDead
                 ELSE /\ clipRoute' = Append(ClipLess(c),
                             [node |-> c,
                              rest |-> Trials(OneOf(c.exits), Len(clipRoute) + 1, used)])
                      /\ clipUsed' = used /\ clipState' = clipState
    /\ UNCHANGED clipRequest

ClipFinish ==
    /\ clipState = "walking" /\ Len(clipRoute) >= clipRequest.length
    /\ \E c \in ClipTop.rest :
          clipRoute' = Append(ClipLess(c), [node |-> c, rest |-> {}])
    /\ clipState' = "closed"
    /\ UNCHANGED <<clipRequest, clipSpent, clipUsed>>

CellsGivenBack(c) == clipUsed \ c.foot
ClipBacktrack ==
    /\ clipState = "walking" /\ ClipTop.rest = {}
    /\ IF Len(clipRoute) = 1 THEN ClipDead
       ELSE /\ clipRoute' = Front(clipRoute)
            /\ clipUsed' = CellsGivenBack(ClipTop.node)
            /\ clipState' = clipState
    /\ UNCHANGED <<clipRequest, clipSpent>>

ClipInit ==
    /\ clipRequest = [pool |-> {}, length |-> 0, every |-> 0]
    /\ clipState = "idle" /\ clipSpent = 0 /\ clipRoute = << >> /\ clipUsed = {}

ClipNext == BeginClip \/ PlaceStart \/ ClipStep \/ ClipFinish \/ ClipBacktrack

-----------------------------------------------------------------------------
ClipBlocks == [i \in DOMAIN clipRoute |-> clipRoute[i].node]
ClipClosed == clipState = "closed"
PortsAt(n) == {MovedOn(p, n.at) : p \in Oriented(n.block, n.rot).ports}

(* "a returned route is closed end-to-end": from start to finish, some     *)
(* port of each block meets a port of the next, face to face and with the  *)
(* same clip, and no block is entered and left by the same port.           *)
ClosedEndToEnd ==
    ClipClosed =>
        /\ Catalogue[Last(ClipBlocks).block].way = "Finish"
        /\ \A i \in 1 .. Len(clipRoute) - 1 :
              LET a == ClipBlocks[i]
                  b == ClipBlocks[i + 1]
              IN  \E p \in PortsAt(a), q \in PortsAt(b) :
                      /\ p \in a.exits /\ q \notin b.exits
                      /\ p.clip = q.clip /\ q.face = OppositeFace(p.face)
                      /\ \E k \in 1 .. 3 : /\ Abs(p.cell[k] - q.cell[k]) = 1
                                           /\ \A j \in (1 .. 3) \ {k} : p.cell[j] = q.cell[j]

(* A checkpoint or a booster of a closed route points to where the next    *)
(* block is, although its road would fit the other way round as well.      *)
ArrowsPointOn ==
    ClipClosed => \A i \in 2 .. Len(clipRoute) - 1 :
        Catalogue[ClipBlocks[i].block].directional =>
            LET d == FaceDeltas[RotateFace(0, ClipBlocks[i].rot)]
            IN  \E c \in ClipBlocks[i].foot : Plus(c, d) \in ClipBlocks[i + 1].foot

(* A closed route can be driven from its start to its finish, in the       *)
(* direction its arrows show.                                              *)
ClipRouteRuns == ClosedEndToEnd /\ ArrowsPointOn

ClipFeet == [i \in DOMAIN clipRoute |-> ClipBlocks[i].foot]
ClipStandable == {{Plus(at, c) : c \in o.cells} :
                     o \in Orientations(DOMAIN Catalogue), at \in GroundCells}
ClipStack == INSTANCE WalkStack WITH
    Footprints <- ClipStandable, feet <- ClipFeet,
    taken <- IF ClipClosed THEN clipUsed \cup ClipTop.node.foot ELSE clipUsed

(* The walker implements WalkStack: it builds on free ground only, and     *)
(* backtracking gives back exactly the ground of the block taken away.     *)
ClipsAsStack == ClipStack!StackSpec
=============================================================================
