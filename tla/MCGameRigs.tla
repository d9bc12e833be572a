----------------------------- MODULE MCGameRigs -----------------------------
(* The editor bridge, the capture rig and the cleaning of replays, each explored on its own: *)
(* part says which.                                                                          *)
EXTENDS EditorBridge, CaptureRig, ReplayCleaning

CONSTANTS Parts, c1, c2
VARIABLE part

\* one caller loads maps, the other edits and reads
MCOpsOf == (c1 :> Loads) @@ (c2 :> Edits)

MCLimits == [minSamples |-> 2, minDuration |-> 3, hardGap |-> 5, softGap |-> 3,
             maxDelta |-> 6, softDelta |-> 3, maxSpeed |-> 5, hardCap |-> 9,
             maxSpikes |-> 1, minMotion |-> 1, rejectIdle |-> 5, warnIdle |-> 2,
             rejectRestarts |-> 3, warnRestarts |-> 1, minDistance |-> 2,
             minInputs |-> 2, minRate |-> 1, hardCrumbGap |-> 4, gapFactor |-> 2]

\* Telemetry from time steps, displacements, speeds, a finish and restarts.
Along(d) == LET at[i \in 0 .. Len(d)] == IF i = 0 THEN 0 ELSE at[i - 1] + d[i]
            IN  [i \in 1 .. Len(d) + 1 |-> at[i - 1]]
Tele(dt, dx, sp, fin, rs) ==
    [time |-> Along(dt), pos |-> Along(dx), speed |-> sp, finished |-> fin, restarts |-> rs]
MCProbes ==
    {Tele(dt, dx, sp, fin, 0) :
        dt \in [1 .. 3 -> {-1, 1, 4}], dx \in [1 .. 3 -> {0, 2, -6}],
        sp \in {<<0, 0, 0, 0>>, <<6, 0, 0, 0>>, <<6, 0, 0, 6>>, <<0, 9, 0, 0>>},
        fin \in BOOLEAN}
    \cup {Tele(<<1>>, <<3>>, <<0, 0>>, TRUE, rs) : rs \in 0 .. 3}
    \cup {Tele(<< >>, << >>, <<0>>, TRUE, 0)}
MCCrumbProbes ==
    [inputs : {0, 2, 9}, respawns : {0, 1, 3}, finish : {0, 4},
     cps : UNION {[1 .. n -> {0, 1, 2, 5, 9}] : n \in 0 .. 3}]
Missing == [state |-> "missing"]
Decoded == [state |-> "samples", of |-> Tele(<<1, 1>>, <<1, 1>>, <<0, 0, 0>>, TRUE, 0)]
Inputs == [state |-> "inputs", of |-> [inputs |-> 9, respawns |-> 0, finish |-> 4, cps |-> <<2, 4>>]]
\* Sidecars of every kind with three finish times, breadcrumbs that raise with and without
\* telemetry, and every three finish times with sidecars that load or do not.
MCCorpora ==
    [sidecar : [Replays -> {[state |-> "empty"], [state |-> "malformed"], Decoded}],
     crumb : [Replays -> {Missing, Inputs}], finish : {<<1, 2, 1>>}]
    \cup [sidecar : [Replays -> {Missing, Decoded}],
          crumb : [Replays -> {[state |-> "malformed"], Inputs}], finish : {<<1, 2, 1>>}]
    \cup [sidecar : [Replays -> {[state |-> "torn"], Decoded}],
          crumb : {[r \in Replays |-> Missing]}, finish : [Replays -> 0 .. 2]]

vars == <<bridgeVars, captureVars, cleanVars, part>>

Init == BridgeInit /\ CaptureInit /\ CleanInit /\ part \in Parts

Next ==
    /\ part' = part
    /\ \/ part = "bridge" /\ BridgeNext /\ UNCHANGED <<captureVars, cleanVars>>
       \/ part = "capture" /\ CaptureNext /\ UNCHANGED <<bridgeVars, cleanVars>>
       \/ part = "cleaning" /\ CleanNext /\ UNCHANGED <<bridgeVars, captureVars>>

Fairness ==
    /\ WF_bridgeVars(part = "bridge" /\ PluginStep)
    /\ WF_captureVars(part = "capture" /\ DriverStep)
    /\ WF_cleanVars(part = "cleaning" /\ CleanStep)

Spec == Init /\ [][Next]_vars /\ Fairness

-----------------------------------------------------------------------------
\* Whatever fails in the game, the bridge comes back to scanning and the batch of captures
\* comes to its end.
RigsComeBack == EndpointSurvives /\ BatchFinishes
=============================================================================
