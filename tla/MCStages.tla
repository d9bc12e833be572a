------------------------------- MODULE MCStages -------------------------------
(* The command line with its pipeline script, the constraint graph, and the generation of *)
(* maps from corridors and block by block, each explored on its own: part says which.     *)
EXTENDS CliStages, ConstraintGraph, AiGenerator, RouteGeneration

CONSTANT Parts
VARIABLE part

\* Layouts of grid blocks on a line of cells; the last one has a free block.
Grid(c, k) == [cell |-> c, key |-> k, free |-> FALSE]
MCLayouts == {<<Grid(1, 1), Grid(2, 2)>>, <<Grid(2, 2), Grid(1, 1), Grid(1, 3)>>,
              <<Grid(1, 2), Grid(2, 2), [Grid(3, 1) EXCEPT !.free = TRUE]>>}

MCCone == [min |-> 2, max |-> 3, rise |-> 1, drop |-> 1, lateral |-> 1]

W(t, o, c, fr) == [tag |-> t, order |-> o, cell |-> c, free |-> fr]
B(n, c) == [name |-> n, cell |-> c, rot |-> 0]
C(i, s, d, p, q, k) == [id |-> i, src |-> s, dst |-> d, path |-> p, learned |-> Unscored,
                        seq |-> q, conf |-> k]

\* A straight road with a ramp at x = 2 whose landing is a diagonal block over the
\* cell after the gap, a detour at z = 2 that is elevated and unsupported, a wall
\* two cells long, and a checkpoint of two cells.
MCGeometry ==
    [start |-> [fx |-> 1, shape |-> "start", anchor |-> TRUE],
     cp |-> [fx |-> 1, shape |-> "checkpoint", anchor |-> TRUE],
     road |-> [fx |-> 1, shape |-> "straight", anchor |-> FALSE],
     ramp |-> [fx |-> 1, shape |-> "ramp", anchor |-> FALSE],
     wall |-> [fx |-> 2, shape |-> "support", anchor |-> FALSE]]
S0 == <<"Spawn", 0>>
L1 == <<"LinkedCheckpoint", 1>>
L2 == <<"LinkedCheckpoint", 2>>
G0 == <<"Goal", 0>>
X(x) == <<x, 0, 0>>
MCBlocks == <<B("start", X(0)), B("road", X(1)), B("ramp", X(2)), B("deco", X(4)),
              B("road", <<4, 1, 1>>), B("deco", X(5)), B("cp", X(6)), B("cp", X(7)), B("cp", <<7, 0, 1>>),
              B("road", <<1, 2, 2>>), B("deco", <<1, 1, 2>>), B("road", <<2, 2, 2>>),
              B("wall", <<2, 0, -1>>), B("cp", X(9))>>
Jumping == <<X(0), X(1), X(2), X(4), X(5), X(6)>>
Detour == <<X(0), <<1, 2, 2>>, <<2, 2, 2>>, X(4), X(6)>>
Straight == <<X(0), X(1), X(2), X(5), X(6)>>
MCBases ==
    {[blocks |-> MCBlocks,
      waypoints |-> <<W("Spawn", 0, X(0), FALSE), W("Goal", 0, X(9), FALSE),
                      W("LinkedCheckpoint", 1, X(6), FALSE),
                      W("LinkedCheckpoint", 2, <<7, 0, 1>>, FALSE),
                      W("LinkedCheckpoint", 2, X(7), FALSE)>>,
      corridors |-> <<C(1, S0, L1, Jumping, 4, 0), C(2, S0, L1, Detour, 9, 5),
                      C(3, S0, L1, Straight, Unscored, 0), C(4, L1, L2, <<X(6), X(7)>>, 1, 0),
                      C(5, L2, G0, <<X(7), X(9)>>, 1, 0), C(6, L2, G0, << >>, 1, 0),
                      C(7, L1, G0, <<X(6), X(9)>>, 1, 0)>>],
     [blocks |-> MCBlocks,
      waypoints |-> <<W("Spawn", 0, X(0), FALSE), W("Checkpoint", 0, X(6), FALSE),
                      W("Goal", 0, X(9), TRUE)>>,
      corridors |-> <<C(1, S0, <<"Checkpoint", 0>>, Jumping, 4, 0)>>],
     [blocks |-> MCBlocks,
      waypoints |-> <<W("StartFinish", 0, X(0), FALSE), W("Goal", 0, X(9), FALSE),
                      W("LinkedCheckpoint", 2, X(7), FALSE),
                      W("LinkedCheckpoint", 1, X(6), FALSE)>>,
      corridors |-> <<C(1, S0, L1, Jumping, 4, 0), C(4, L1, L2, <<X(6), X(7)>>, 1, 0),
                      C(5, L2, G0, <<X(7), X(9)>>, 1, 0)>>]}
MCSeeds == {<<0, 0, 0>>, <<1, 2, 0>>}

\* The block_geometry rows: two stock roads, one of them two cells long, and rows
\* the catalogue must leave out.
R(n, s, sf, len) == [name |-> n, family |-> "Road", shape |-> s, surface |-> sf, fx |-> len,
                     anchor |-> s \in {"start", "checkpoint"}, deco |-> FALSE,
                     mode |-> "grid_only", connector |-> TRUE, custom |-> FALSE, maps |-> 1]
MCRows == <<R("roadA", "straight", "asphalt", 1), R("roadB", "straight", "dirt", 1),
            R("roadLong", "straight", "asphalt", 2), R("start", "start", "asphalt", 1),
            R("turn", "curve", "asphalt", 1),
            [R("mod", "straight", "asphalt", 1) EXCEPT !.custom = TRUE],
            [R("rare", "straight", "asphalt", 1) EXCEPT !.maps = 0]>>
MCPairs == (<<"start", "roadA">> :> 2) @@ (<<"start", "roadB">> :> 1)
           @@ (<<"roadA", "roadB">> :> 3)
MCTriples == (<<"start", "roadA", "roadB">> :> 1)
F(n, c) == [name |-> n, cell |-> c, rot |-> 0, family |-> "Road"]
At(x, z) == <<x, 0, z>>
Lap(cells) ==
    [waypoints |-> <<W("Spawn", 0, cells[1], FALSE), W("LinkedCheckpoint", 1, cells[2], FALSE),
                     W("LinkedCheckpoint", 2, cells[3], FALSE), W("Goal", 3, cells[4], FALSE)>>,
     blocks |-> <<F("start", cells[1])>>]
MCAiBases ==
    {Lap(c) : c \in [1 .. 4 -> {At(0, 0), At(3, 0), At(1, 2), At(2, 3)}]}
    \cup {[waypoints |-> <<W("Spawn", 0, At(0, 0), FALSE), W("Checkpoint", 0, At(3, 0), FALSE)>>,
           blocks |-> << >>],
          [waypoints |-> <<W("Spawn", 0, At(0, 0), TRUE)>>, blocks |-> << >>],
          [waypoints |-> <<W("Spawn", 0, At(0, 0), FALSE), W("Goal", 0, <<3, 2, 0>>, FALSE),
                           W("LinkedCheckpoint", 1, At(0, 4), FALSE)>>,
           blocks |-> <<F("start", At(0, 0))>>]}

vars == <<cliVars, graphVars, generationVars, aiVars, part>>

Init == CliInit /\ GraphInit /\ GenerationInit /\ AiInit /\ part \in Parts

Next ==
    /\ part' = part
    /\ \/ part = "commands" /\ CliNext /\ UNCHANGED <<graphVars, generationVars, aiVars>>
       \/ part = "graph" /\ GraphNext /\ UNCHANGED <<cliVars, generationVars, aiVars>>
       \/ part = "routes" /\ GenerationNext /\ UNCHANGED <<cliVars, graphVars, aiVars>>
       \/ part = "blocks" /\ AiNext /\ UNCHANGED <<cliVars, graphVars, generationVars>>

Fairness == WF_cliVars(part = "commands" /\ CommandStep)

Spec == Init /\ [][Next]_vars /\ Fairness
=============================================================================
