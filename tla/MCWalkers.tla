----------------------------- MODULE MCWalkers -----------------------------
(* The two route walkers, the block statistics and a remote test rig, each *)
(* explored on its own: part says which.                                   *)
EXTENDS GrammarWalker, ClipWalker, BlockStatistics, RemoteTestRig

CONSTANTS Parts, a1
VARIABLE part

V(units, size) == [units |-> units, size |-> size]
None == V({}, <<0, 0, 0>>)
Unit1 == V({<<0, 0, 0>>}, <<1, 1, 1>>)
Tall == V({<<0, 0, 0>>, <<0, 1, 0>>}, <<1, 2, 1>>)
Wide == V({<<0, 0, 0>>, <<1, 0, 0>>, <<1, 0, 1>>}, <<2, 1, 2>>)
P(c, f, k) == [cell |-> c, face |-> f, clip |-> k]
O == <<0, 0, 0>>
K(g, a, w, d, s, p) == [ground |-> g, air |-> a, way |-> w, directional |-> d,
                        surface |-> s, bridge |-> FALSE, ports |-> p]
North(k) == P(O, 0, k)
South(k) == P(O, 2, k)

\* A road that is straight, one that turns, a wide curve of three cells, a slope two cells
\* tall whose upper end is a row higher, a booster, and the waypoints.
MCCatalogue ==
    [start |-> K(Unit1, Unit1, "Start", FALSE, "tech", {North("road"), P(O, 1, "wall")}),
     road |-> K(Unit1, Unit1, "None", FALSE, "tech", {North("road"), South("road")}),
     turn |-> K(Unit1, Unit1, "None", FALSE, "tech", {South("road"), P(O, 1, "road")}),
     curve |-> K(Wide, Unit1, "None", FALSE, "dirt",
                 {South("road"), P(<<1, 0, 1>>, 3, "road")}),
     slope |-> K(Tall, None, "None", FALSE, "tech", {South("road"), P(<<0, 1, 0>>, 0, "road")}),
     boost |-> K(Unit1, Unit1, "None", TRUE, "tech", {North("road"), South("road")}),
     cp |-> K(Unit1, Unit1, "Checkpoint", TRUE, "tech", {North("road"), South("road")}),
     finish |-> K(Unit1, Unit1, "Finish", FALSE, "tech", {South("road")}),
     wet |-> K(Unit1, Unit1, "None", FALSE, "water", {South("water"), North("road")}),
     fork |-> K(Unit1, Unit1, "None", FALSE, "tech",
                {North("road"), South("road"), P(O, 1, "road")})]

M(b, o, r, n, c) == [block |-> b, off |-> o, rel |-> r, maps |-> n, clip |-> c]
MCGrammar ==
    [start |-> <<M("road", <<0, 0, 1>>, 0, 9, TRUE), M("slope", <<0, 0, 1>>, 0, 8, TRUE),
                 M("curve", <<0, 0, 1>>, 0, 4, TRUE), M("turn", <<0, 0, 1>>, 0, 4, TRUE)>>,
     road |-> <<M("turn", <<0, 0, 1>>, 0, 9, TRUE), M("slope", <<0, 0, 1>>, 0, 8, TRUE),
                M("cp", <<0, 0, 1>>, 0, 5, FALSE), M("cp", <<0, 0, 1>>, 2, 5, FALSE),
                M("finish", <<0, 0, 1>>, 0, 3, TRUE), M("road", <<0, 1, 0>>, 0, 3, FALSE)>>,
     turn |-> <<M("turn", <<-1, 0, 0>>, 1, 9, TRUE), M("road", <<-1, 0, 0>>, 1, 7, TRUE),
                M("finish", <<-2, 0, 0>>, 1, 4, FALSE), M("finish", <<-1, 0, 0>>, 1, 2, FALSE),
                M("curve", <<-1, 0, 0>>, 1, 4, TRUE)>>,
     slope |-> <<M("road", <<0, 1, -1>>, 2, 6, TRUE), M("slope", <<0, 1, -1>>, 2, 4, TRUE),
                 M("turn", <<0, 1, 1>>, 0, 1, TRUE)>>,
     curve |-> <<M("finish", <<0, 0, 1>>, 0, 4, FALSE), M("finish", <<1, 0, 2>>, 3, 4, FALSE),
                 M("turn", <<0, 0, 1>>, 0, 3, FALSE)>>,
     cp |-> <<M("turn", <<0, 0, 1>>, 0, 4, FALSE), M("finish", <<1, 0, 0>>, 3, 2, FALSE)>>]
MCJumps == [start |-> {M("turn", <<0, 0, 2>>, 0, 3, FALSE), M("slope", <<0, 0, 1>>, 0, 3, FALSE)}]

Q(pool, j, m, len, ev, req) == [pool |-> pool, jumps |-> j, model |-> m, length |-> len,
                                every |-> ev, require |-> req]
All == DOMAIN MCCatalogue
MCWalkRequests == {Q(All, FALSE, FALSE, 3, 2, {}), Q(All, TRUE, TRUE, 3, 0, {}),
                   Q({"start", "road", "slope", "finish"}, FALSE, FALSE, 5, 0, {}),
                   Q({"start", "turn", "finish"}, FALSE, FALSE, 5, 0, {}),
                   Q(All, FALSE, FALSE, 3, 0, {"dirt", "tech"}), Q(All, TRUE, FALSE, 2, 0, {}),
                   Q(All \ {"finish"}, FALSE, FALSE, 3, 0, {}),
                   Q({"start", "finish"}, FALSE, FALSE, 1, 0, {})}
MCClipRequests == {[pool |-> All, length |-> 4, every |-> 3],
                   [pool |-> {"start", "turn", "curve", "finish"}, length |-> 5, every |-> 2],
                   [pool |-> {"start", "road", "wet", "finish"}, length |-> 2, every |-> 0],
                   [pool |-> {"start", "curve", "finish"}, length |-> 3, every |-> 0]}

\* Two maps of one environment and a third of another: a stacked pair of blocks, a cell
\* without a block inside a path, a block nobody catalogued, paths of one cell.
Z(n) == <<0, 0, n>>
At(b, r, c) == [block |-> b, rot |-> r, cell |-> c]
MCStatMaps == <<1, 2, 3>>
MCEnvironment == (1 :> "day" @@ 2 :> "day" @@ 3 :> "snow")
MCPlaced ==
    1 :> <<At("road", 0, Z(0)), At("wet", 0, Z(1)), At("road", 2, Z(1)), At("turn", 0, Z(2)),
           At("custom", 0, Z(4)), At("turn", 1, <<-1, 0, 2>>)>> @@
    2 :> <<At("road", 0, Z(0)), At("road", 0, Z(1)), At("slope", 0, Z(3))>> @@
    3 :> <<At("curve", 0, Z(0)), At("road", 3, <<0, 0, 1>>), At("curve", 3, <<3, 0, 0>>)>>
MCPathVersions ==
    1 :> {<<<<Z(0), Z(1), Z(2), Z(3), Z(4)>>, <<Z(0), Z(1), Z(2)>>>>,
          <<<<Z(0), Z(1), Z(3), Z(2), Z(4)>>>>} @@
    2 :> {<<<<Z(0), Z(1), Z(2)>>, <<Z(3)>>>>} @@
    3 :> {<<>>}
MCGeometry == [road |-> [surface |-> "tech", shape |-> "straight", deco |-> FALSE],
               turn |-> [surface |-> "tech", shape |-> "curve", deco |-> FALSE],
               custom |-> [surface |-> "", shape |-> "unknown", deco |-> TRUE]]

\* Can a search from this path, on this ground, still reach its finish?
RECURSIVE CanClose(_, _, _, _)
CanClose(node, steps, used, cols) ==
    \E c \in Scored(node, steps, used, cols) :
        \/ Want(steps) = "Finish"
        \/ /\ Want(steps) # "Finish"
           /\ CanClose(c, steps + 1, used \cup c.foot,
                       [k \in Columns |-> cols[k] + (IF k \in ColumnsOf(c.foot) THEN 1 ELSE 0)])

(* "Every candidate keeps a turn, so a rare-but-legal move can still close *)
(* a route the common ones dead-end on" (GrammarWalker._order): a start    *)
(* whose search runs out of moves has no route at all.                     *)
ExhaustedHasNoRoute ==
    \A n \in exhausted :
        ~CanClose(n, 1, n.foot, [k \in Columns |->
                      Cardinality({c \in n.foot : <<c[1], c[3]>> = k})])

(* Both searches go forward and back as a stack: what a step back leaves *)
(* is the ground as it was before the step forward                       *)
(* (GrammarWalker._attempt, ClipWalker.generate).                        *)
WalkersAsStack == WalksAsStack /\ ClipsAsStack

vars == <<walkerVars, clipVars, statVars, rigVars, part>>
Init == WalkerInit /\ ClipInit /\ StatInit /\ RigInit /\ part \in Parts
Next ==
    /\ part' = part
    /\ \/ part = "grammar" /\ WalkerNext /\ UNCHANGED <<clipVars, statVars, rigVars>>
       \/ part = "clips" /\ ClipNext /\ UNCHANGED <<walkerVars, statVars, rigVars>>
       \/ part = "mining" /\ StatNext /\ UNCHANGED <<walkerVars, clipVars, rigVars>>
       \/ part = "rig" /\ RigNext /\ UNCHANGED <<walkerVars, clipVars, statVars>>

\* RigFairness, where the rig runs.
Fairness ==
    /\ WF_rigVars(part = "rig" /\ Tick)
    /\ \A a \in Agents : /\ WF_rigVars(part = "rig" /\ AgentStep(a))
                         /\ WF_rigVars(part = "rig" /\ PluginStep(a))
                         /\ WF_rigVars(part = "rig" /\ Restart(a))

Spec == Init /\ [][Next]_vars /\ Fairness
=============================================================================
