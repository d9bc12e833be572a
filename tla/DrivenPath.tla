----------------------------- MODULE DrivenPath -----------------------------
(***************************************************************************)
(* extract_driven_path (src/route/driven_path.py): which placement was the *)
(* car on at each sample?  A Viterbi search over the candidates of every   *)
(* sample and one state that is not a block.                               *)
(***************************************************************************)
EXTENDS BlockMatcher, Functions

SweepStep == 16
CostStay == 0
CostAdjacent == 1
CostStateChange == 3
CostTeleport == 40
CostIgnoreCandidate == 2

Airborne == -1
OffSurface == -2
NoBlock == {Airborne, OffSurface}

\* Each member where it comes first.
Distinct(s) == Picked(s, {i \in DOMAIN s : \A j \in 1 .. i - 1 : s[j] # s[i]})

\* The sample, and the points between it and the next when they are more than
\* SweepStep apart.
SweptPoints(a, b) ==
    LET d == Minus(b, a)
        sq == d[1] * d[1] + d[2] * d[2] + d[3] * d[3]
        n == Largest({k \in 0 .. Abs(d[1]) + Abs(d[2]) + Abs(d[3]) :
                    k * k * SweepStep * SweepStep <= sq})
        At(k) == <<a[1] * (n + 1) + d[1] * k, a[2] * (n + 1) + d[2] * k,
                   a[3] * (n + 1) + d[3] * k, n + 1>>
    IN  IF sq > SweepStep * SweepStep THEN <<Point(a)>> \o [k \in 1 .. n |-> At(k)]
        ELSE <<Point(a)>>

PointCandidates(ps, q) ==
    Joined([k \in DOMAIN RowTolerance |-> GridCandidates(ps, q, RowTolerance[k])])
    \o FreeCandidates(ps, q)
SweptCandidates(ps, s, i) ==
    LET points == IF i < Len(s) THEN SweptPoints(s[i].at, s[i + 1].at) ELSE <<Point(s[i].at)>>
    IN  Distinct(Joined([k \in DOMAIN points |-> PointCandidates(ps, points[k])]))

\* Pairs of placements that share a cell or face one, the second among the capped owners
\* of its cell.
Adjacency(ps) ==
    LET deltas == {<<0, 0, 0>>, <<0, 1, 0>>, <<0, -1, 0>>} \cup Range(FaceDeltas)
        near(p) == UNION {Range(Bucket(ps, Plus(c, d))) : c \in GridFootprintCells(p), d \in deltas}
    IN  UNION {{<<p.id, q>> : q \in near(p) \ {p.id}} : p \in Range(ps)}

\* The states a step may be in: never AIRBORNE on a grounded sample, nor the reverse.
StepStates(ps, s) ==
    LET air == ClassifyAirborne(s)
    IN  [i \in DOMAIN s |->
            Append(SweptCandidates(ps, s, i), IF air[i] THEN Airborne ELSE OffSurface)]

Emission(states, x) == IF x \in NoBlock /\ Len(states) > 1 THEN CostIgnoreCandidate ELSE 0
Transition(adj, p, x) ==
    IF p = x THEN CostStay
    ELSE IF p \in NoBlock \/ x \in NoBlock THEN CostStateChange
    ELSE IF <<p, x>> \in adj THEN CostAdjacent ELSE CostTeleport

\* The first position of a least element.
ArgMin(s) == CHOOSE i \in DOMAIN s : /\ \A j \in DOMAIN s : s[i] <= s[j]
                                     /\ \A j \in 1 .. i - 1 : s[j] > s[i]

FirstColumn(states) == [k \in DOMAIN states |-> Emission(states, states[k])]

\* Mutant: only the best predecessor is looked at.
NextColumnGreedy(adj, before, costs, states) ==
    [k \in DOMAIN states |->
        LET b == ArgMin(costs)
        IN  [cost |-> costs[b] + Transition(adj, before[b], states[k]) + Emission(states, states[k]),
             back |-> b]]

\* A column of the search: each state's least cost and the predecessor it comes from.
NextColumn(adj, before, costs, states) ==
    [k \in DOMAIN states |->
        LET via == [j \in DOMAIN before |-> costs[j] + Transition(adj, before[j], states[k])]
            b == ArgMin(via)
        IN  [cost |-> via[b] + Emission(states, states[k]), back |-> b]]

\* The states from the last column's best back to the first.
Backtrace(steps, costs, back) ==
    LET n == Len(steps)
        at[k \in 0 .. n - 1] == IF k = 0 THEN ArgMin(costs) ELSE back[n - k][at[k - 1]]
    IN  [i \in 1 .. n |-> steps[i][at[n - i]]]

\* Runs of one state, in order.
Visits(path) ==
    LET starts == Ascending({i \in DOMAIN path : i = 1 \/ path[i - 1] # path[i]})
    IN  [k \in DOMAIN starts |->
            [state |-> path[starts[k]], first |-> starts[k],
             last |-> IF k = Len(starts) THEN Len(path) ELSE starts[k + 1] - 1]]

\* What a sequence of states costs, by its definition.
StepCost(adj, steps, path, i) ==
    Emission(steps[i], path[i]) + (IF i = 1 THEN 0 ELSE Transition(adj, path[i - 1], path[i]))
PathCost(adj, steps, path) == Summed([i \in DOMAIN path |-> StepCost(adj, steps, path, i)])
AllPaths(steps) ==
    LET upto[i \in 0 .. Len(steps)] ==
            IF i = 0 THEN {<< >>}
            ELSE UNION {{Append(p, x) : x \in Range(steps[i])} : p \in upto[i - 1]}
    IN  upto[Len(steps)]
=============================================================================
