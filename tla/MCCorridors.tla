---------------------------- MODULE MCCorridors ----------------------------
EXTENDS CorridorStages, TelemetryStages, RouteExtraction

CONSTANT Parts
VARIABLE part

\* Corridors: a map of 2 x 3 cells, each empty, road or decoration, with waypoints on blocks.
Blk(c, f) == [pid |-> 0, cell |-> c, fam |-> f]
FromFams(f) == LET order == InOrder({c \in Cells : f[c] # "none"})
               IN  [i \in DOMAIN order |-> [Blk(order[i], f[order[i]]) EXCEPT !.pid = i]]
W(t, o, c, fr) == [tag |-> t, order |-> o, cell |-> c, free |-> fr]
MCWays ==
    {{W("Spawn", 0, 0, FALSE), W("Goal", 0, 5, FALSE)},
     {W("Spawn", 0, 0, FALSE), W("Spawn", 0, 1, FALSE), W("Checkpoint", 0, 3, FALSE),
      W("Goal", 0, 5, TRUE)},
     {W("Spawn", 0, 0, FALSE), W("LinkedCheckpoint", 1, 4, FALSE),
      W("LinkedCheckpoint", 2, 2, FALSE), W("Goal", 0, 5, FALSE)},
     {W("StartFinish", 0, 0, FALSE), W("LinkedCheckpoint", 1, 4, FALSE),
      W("Checkpoint", 0, 2, TRUE)}}
MCSurveys ==
    {s \in [blocks : {FromFams(f) : f \in [Cells -> {"none", "road", "deco"}]},
            ways : MCWays, runs : {<< >>, <<1, 3>>}] :
        \A w \in s.ways : w.free \/ \E i \in DOMAIN s.blocks : s.blocks[i].cell = w.cell}
\* Parses of the map the evidence stages follow, the second with its blocks renumbered.
MCParses ==
    {[blocks |-> <<Blk(0, "deco"), Blk(1, "road"), Blk(2, "road"), Blk(0, "road"),
                   Blk(5, "road"), Blk(4, "deco"), Blk(4, "open")>>,
      ways |-> {W("Spawn", 0, 0, FALSE), W("Goal", 0, 5, FALSE)}],
     [blocks |-> <<Blk(3, "road"), Blk(4, "road"), Blk(0, "deco"), Blk(5, "road"), Blk(4, "deco")>>,
      ways |-> {W("Spawn", 0, 3, FALSE), W("LinkedCheckpoint", 1, 0, FALSE),
                W("Goal", 0, 5, FALSE)}],
     [blocks |-> <<Blk(3, "road"), Blk(2, "deco")>>, ways |-> {W("Goal", 0, 5, FALSE)}]}

\* The blocks under the captures: one cell, two cells tall, an L of three.
V(units, size) == [units |-> units, size |-> size]
Unit1 == V({<<0, 0, 0>>}, <<1, 1, 1>>)
K(g, a) == [ground |-> g, air |-> a, ports |-> {}]
MCCatalogue ==
    [road |-> K(Unit1, Unit1), boost |-> K(Unit1, Unit1),
     slope |-> K(V({<<0, 0, 0>>, <<0, 1, 0>>}, <<1, 2, 1>>), V({}, <<0, 0, 0>>)),
     curve |-> K(V({<<0, 0, 0>>, <<1, 0, 0>>, <<1, 0, 1>>}, <<2, 1, 2>>), Unit1)]
\* A track for the telemetry stages: grid placements (one of a block the catalogue does not
\* know, three on one cell) and free ones, one of them tilted.
Grid(id, b, c, r) == [id |-> id, block |-> b, free |-> FALSE, at |-> c, rot |-> r, tilt |-> FALSE]
Loose(id, b, c, r, t) == [id |-> id, block |-> b, free |-> TRUE, at |-> c, rot |-> r, tilt |-> t]
MCLayouts ==
    {<<Grid(1, "road", <<0, 0, 1>>, 0), Grid(2, "road", <<1, 0, 1>>, 1),
       Grid(3, "slope", <<3, 0, 1>>, 0), Loose(4, "road", <<80, 16, 48>>, 1, FALSE)>>,
     <<Grid(1, "road", <<0, 0, 1>>, 0), Grid(2, "boost", <<0, 0, 1>>, 0),
       Grid(3, "road", <<0, 0, 1>>, 2), Grid(4, "curve", <<1, 0, 0>>, 1),
       Grid(5, "mystery", <<4, 0, 1>>, 0)>>,
     <<Grid(1, "road", <<0, 0, 1>>, 0), Grid(2, "road", <<2, 0, 1>>, 1),
       Grid(3, "road", <<4, 0, 1>>, 0), Loose(4, "curve", <<200, 16, 48>>, 0, TRUE)>>}
S(x, y, t, v) == [at |-> <<x, y, 48>>, t |-> t, vy |-> v]
Capture(s, cp, an, ex) == [samples |-> s, cps |-> cp, anchored |-> an, exit |-> ex]
Line(xs) == [i \in DOMAIN xs |-> S(xs[i], 8, 50 * i, 0)]
\* A lap, a respawn, a jump, a hop off and back that was not anchored, a hole with a
\* clock that steps back, a lap cut short, and two files that are not telemetry.
MCCaptures ==
    [lap |-> Capture(Line(<<8, 40, 72, 104, 136>>), <<2, 5>>, TRUE, ""),
     respawn |-> Capture(Line(<<136, 140, 150, 10, 12>>), <<1>>, TRUE, ""),
     jump |-> Capture(<<S(8, 8, 50, 4), S(20, 8, 100, 2), S(20, 40, 150, 2), S(40, 40, 200, 0),
                        S(40, 8, 250, 0), S(56, 8, 300, 0)>>, << >>, TRUE, ""),
     hop |-> Capture(<<S(8, 8, 50, 0), S(8, 40, 100, 2), S(8, 48, 150, 1), S(8, 40, 200, 0),
                       S(8, 8, 250, 1), S(20, 8, 300, 0)>>, << >>, FALSE, ""),
     hole |-> Capture(<<S(8, 8, 50, 0), S(40, 8, 100, 0), S(40, 80, 150, 0), S(40, 8, 140, 0),
                        S(50, 8, 250, 0), S(50, 16, 300, 0)>>, <<3>>, TRUE, ""),
     cut |-> Capture(Line(<<8, 40>>), << >>, TRUE, "playback_timeout"),
     void |-> Capture(<< >>, << >>, TRUE, ""),
     torn |-> Capture(Line(<<8, 40>>), <<3>>, TRUE, "")]
\* Two holes: two samples and 72 metres, and one sample at the end of 152 metres.
MCGapCaptures ==
    [gaps |-> Capture([i \in 1 .. 15 |-> S(8, IF i \in {4, 5} THEN 80
                                             ELSE IF i = 13 THEN 160 ELSE 8, 50 * i, 0)],
                      << >>, TRUE, "")]
MCItems == {{<<90, 8, 48>>, <<40, 80, 48>>}}
Baked(c, t, k) == [at |-> c, terrain |-> t, clip |-> k]
MCBaked == {{Baked(<<3, 0, 1>>, FALSE, FALSE), Baked(<<2, 0, 1>>, FALSE, TRUE),
             Baked(<<0, 1, 1>>, TRUE, FALSE)}}

\* Replays of two maps: two lines side by side, a line that stands still, an even and an
\* odd number of durations, a last sample that closes its bin, and one never decoded.
Along(ss, labs) == [i \in DOMAIN ss |-> [s |-> ss[i], lab |-> labs[i]]]
Replay(m, d, s, c) == [map |-> m, duration |-> d, samples |-> s, checkpoints |-> c]
MCLibrary ==
    <<Replay(1, 20, Along(<<5, 5, 5>>, <<-1, -1, 1>>), <<1>>),
      Replay(1, 25, Along(<<0, 2, 4, 6, 8, 10>>, <<0, 0, 0, 1, 1, 1>>), <<2, 5>>),
      Replay(1, 40, Along(<<0, 3, 6, 9, 12>>, <<1, 1, 0, 0, 0>>), <<>>),
      Replay(1, 22, <<>>, <<>>),
      Replay(2, 90, Along(<<0, 4, 5, 7, 10>>, <<0, 0, 1, 1, 1>>), <<>>),
      Replay(2, 30, Along(<<0, 1, 5, 9, 10>>, <<0, 1, 1, 1, 0>>), <<4>>)>>

vars == <<corridorVars, driveVars, extractVars, part>>
Init == CorridorInit /\ DriveInit /\ ExtractInit /\ part \in Parts
Next ==
    /\ part' = part
    /\ \/ part = "corridors" /\ CorridorNext /\ UNCHANGED <<driveVars, extractVars>>
       \/ part = "telemetry" /\ DriveNext /\ UNCHANGED <<corridorVars, extractVars>>
       \/ part = "routes" /\ ExtractNext /\ UNCHANGED <<corridorVars, driveVars>>
Spec == Init /\ [][Next]_vars
=============================================================================
