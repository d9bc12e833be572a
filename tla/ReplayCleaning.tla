---------------------------- MODULE ReplayCleaning ----------------------------
(***************************************************************************)
(* Replay cleaning and cohorts (src/replay): the seven telemetry rules,    *)
(* the four breadcrumb rules used when a replay has no position samples,   *)
(* the classification, the cleaning loop with its error paths, and the     *)
(* assignment of replays to cohorts by finish time.                        *)
(*                                                                         *)
(* Telemetry is one-dimensional here: a sample's position is a number and  *)
(* a displacement its difference, which is what every rule looks at.       *)
(* Times, distances and thresholds are small integers (constant Limits).   *)
(***************************************************************************)
EXTENDS Integers, Sequences, FiniteSets

CONSTANTS Limits,      \* thresholds of the rules, config.replay_cleaning.rules
          Corpora,     \* what parsing may leave: each replay's sidecar, breadcrumbs and finish time
          Probes,      \* telemetry the rules are checked on
          CrumbProbes, \* breadcrumbs the rules are checked on
          Replays,     \* replay rows, a range of numbers: cleaned by id
          SmallMapN    \* CohortAssignmentConfig.small_map_n

\* A loaded sidecar has samples (telemetry.py: "samples must be non-empty").
TelemetryLoads(s) ==
    /\ s.time \in Seq(Int) /\ s.time # << >>
    /\ s.pos \in Seq(Int) /\ Len(s.pos) = Len(s.time)
    /\ s.speed \in Seq(Nat) /\ s.finished \in BOOLEAN /\ s.restarts \in Nat
BreadcrumbsLoad(b) ==
    /\ b.inputs \in Nat /\ b.respawns \in Nat /\ b.finish \in Nat
    /\ b.cps \in Seq(Int)

ASSUME CleaningAssumption ==
    /\ Replays \subseteq Nat \ {0} /\ IsFiniteSet(Replays)
    /\ \A c \in Corpora : c.finish \in [Replays -> Nat]
    /\ SmallMapN \in Nat \ {0, 1}
    /\ \A s \in Probes : TelemetryLoads(s)
    /\ \A b \in CrumbProbes : BreadcrumbsLoad(b)
    /\ {Limits.minSamples, Limits.minDuration, Limits.hardGap, Limits.softGap, Limits.maxDelta,
        Limits.softDelta, Limits.maxSpeed, Limits.hardCap, Limits.maxSpikes, Limits.minMotion,
        Limits.rejectRestarts, Limits.warnRestarts, Limits.minDistance, Limits.minInputs,
        Limits.minRate, Limits.hardCrumbGap, Limits.gapFactor} \subseteq Nat
    /\ Limits.rejectIdle \in Nat \ {0} /\ Limits.warnIdle \in Nat \ {0}

VARIABLES sidecar,    \* replay |-> contents of its telemetry sidecar
          crumb,      \* replay |-> contents of its breadcrumbs sidecar
          cleanRow,   \* replay |-> [status, source] (replays.clean_status)
          finish,     \* replay |-> finish_time_ms, or 0 for NULL
          cohortsOf,  \* replay |-> cohort_membership
          assigned,   \* replays the last assignment covered
          todo,       \* ids the cleaning run still has to visit, in order
          cleaner,    \* "off", "running", "crashed"
          probe       \* telemetry or breadcrumbs the rules are tried on

cleanVars == <<sidecar, crumb, cleanRow, finish, cohortsOf, assigned, todo, cleaner, probe>>

-----------------------------------------------------------------------------
(* Rules.  A verdict is "pass", "warn" or "reject".                        *)

Steps(s) == 2 .. Len(s.time)
Moved(s, i) == LET d == s.pos[i] - s.pos[i - 1] IN IF d < 0 THEN -d ELSE d
Gap(s, i) == s.time[i] - s.time[i - 1]
Greatest(V, d) == CHOOSE v \in V \cup {d} : \A w \in V \cup {d} : v >= w
Duration(s) == s.time[Len(s.time)] - s.time[1]

IncompleteRule(s) ==
    IF Len(s.time) < Limits.minSamples \/ (~s.finished /\ Duration(s) < Limits.minDuration)
    THEN "reject" ELSE IF ~s.finished THEN "warn" ELSE "pass"

InvalidTimingRule(s) ==
    LET worst == Greatest({Gap(s, i) : i \in Steps(s)}, 0)
    IN  IF (\E i \in Steps(s) : Gap(s, i) < 0) \/ worst > Limits.hardGap THEN "reject"
        ELSE IF worst > Limits.softGap THEN "warn" ELSE "pass"

\* A jump at or above the hard limit that is not the first one counts as soft.
TeleportRule(s) ==
    IF \E i \in Steps(s) : Moved(s, i) >= Limits.maxDelta THEN "reject"
    ELSE IF \E i \in Steps(s) : Moved(s, i) >= Limits.softDelta THEN "warn" ELSE "pass"

OutlierSpeedRule(s) ==
    LET spikes == Cardinality({i \in DOMAIN s.speed : s.speed[i] > Limits.maxSpeed})
    IN  IF (\E i \in DOMAIN s.speed : s.speed[i] >= Limits.hardCap) \/ spikes > Limits.maxSpikes
        THEN "reject" ELSE IF spikes > 0 THEN "warn" ELSE "pass"

\* Mutant: the idle window is not restarted by motion.
IdleWindowFromStart(s) ==
    LET run[i \in 1 .. Len(s.time)] ==
            IF i = 1 THEN [start |-> s.time[1], worst |-> 0]
            ELSE IF Moved(s, i) >= Limits.minMotion THEN run[i - 1]
            ELSE [run[i - 1] EXCEPT
                     !.worst = Greatest({s.time[i] - run[i - 1].start}, @)]
    IN  run[Len(s.time)].worst

\* The loop of ZeroMotionRule: an idle window starts where the car last moved.
IdleWindow(s) ==
    LET run[i \in 1 .. Len(s.time)] ==
            IF i = 1 THEN [start |-> s.time[1], worst |-> 0]
            ELSE IF Moved(s, i) >= Limits.minMotion
            THEN [run[i - 1] EXCEPT !.start = s.time[i]]
            ELSE [run[i - 1] EXCEPT
                     !.worst = Greatest({s.time[i] - run[i - 1].start}, @)]
    IN  run[Len(s.time)].worst
ZeroMotionRule(s) ==
    IF IdleWindow(s) >= Limits.rejectIdle THEN "reject"
    ELSE IF IdleWindow(s) >= Limits.warnIdle THEN "warn" ELSE "pass"

CountRule(n) ==
    IF n >= Limits.rejectRestarts THEN "reject"
    ELSE IF n >= Limits.warnRestarts THEN "warn" ELSE "pass"
RestartRule(s) == CountRule(s.restarts)

Travelled(s) ==
    LET far[i \in 1 .. Len(s.time)] ==
            IF i = 1 THEN 0 ELSE far[i - 1] + Moved(s, i)
    IN  far[Len(s.time)]
SpectatorRule(s) == IF Travelled(s) < Limits.minDistance THEN "reject" ELSE "pass"

RunRules(s) ==
    {IncompleteRule(s), InvalidTimingRule(s), TeleportRule(s),
     OutlierSpeedRule(s), ZeroMotionRule(s), RestartRule(s), SpectatorRule(s)}

\* Breadcrumbs: inputs, respawns, checkpoint times, finish time (0: none).
CrumbDuration(b) ==
    CASE b.finish > 0 -> b.finish
      [] b.finish = 0 /\ b.cps # << >> -> b.cps[Len(b.cps)]
      [] OTHER -> -1

BreadcrumbIncompleteRule(b) ==
    IF b.inputs < Limits.minInputs \/ (b.finish = 0 /\ CrumbDuration(b) < Limits.minDuration)
    THEN "reject" ELSE IF b.finish = 0 THEN "warn" ELSE "pass"

BreadcrumbRestartRule(b) == CountRule(b.respawns)

BreadcrumbSpectatorRule(b) ==
    IF CrumbDuration(b) > 0 /\ b.inputs < Limits.minRate * CrumbDuration(b)
    THEN "reject" ELSE "pass"

\* sorted(gaps)[len(gaps) // 2]: as many gaps below it as its index allows.
MedianGap(g) ==
    LET below(v) == Cardinality({i \in DOMAIN g : g[i] < v})
        upto(v) == Cardinality({i \in DOMAIN g : g[i] <= v})
        k == Len(g) \div 2
    IN  CHOOSE v \in {g[i] : i \in DOMAIN g} : below(v) <= k /\ k < upto(v)
BreadcrumbInvalidTimingRule(b) ==
    LET g == [i \in 1 .. Len(b.cps) - 1 |-> b.cps[i + 1] - b.cps[i]]
        worst == Greatest({g[i] : i \in DOMAIN g}, 0)
    IN  IF Len(b.cps) < 2 THEN "pass"
        ELSE IF (\E i \in DOMAIN g : g[i] < 0) \/ worst > Limits.hardCrumbGap THEN "reject"
        ELSE IF worst > Limits.gapFactor * MedianGap(g) /\ MedianGap(g) > 0 THEN "warn" ELSE "pass"

RunBreadcrumbRules(b) ==
    {BreadcrumbIncompleteRule(b), BreadcrumbInvalidTimingRule(b),
     BreadcrumbRestartRule(b), BreadcrumbSpectatorRule(b)}

Classify(verdicts) ==
    CASE "reject" \in verdicts -> "rejected"
      [] "reject" \notin verdicts /\ "warn" \in verdicts -> "usable_with_warnings"
      [] OTHER -> "clean"

-----------------------------------------------------------------------------
(* The cleaning run.                                                       *)

Usable == {"clean", "usable_with_warnings"}
NoProbe == [kind |-> "none"]
NoRow == [status |-> "unprocessed", source |-> "none"]

\* The loader: a missing, torn or sample-free sidecar is a TelemetryLoadError;
\* one that breaks the schema raises TelemetryFormatError out of from_dict,
\* which nothing on the way up catches.
SidecarFails(f) == f.state \in {"missing", "torn", "empty"}

\* Mutant: an empty sidecar raises out of the run.
LoadRaisesAny(f) == f.state \in {"malformed", "empty"}

LoadRaises(f) == f.state = "malformed"

\* The breadcrumbs loader turns a missing or torn file and a format error into
\* "unavailable"; but the times of inputs, checkpoints and the finish go
\* through a bare int(), whose ValueError or TypeError nothing catches.
CrumbFails(b) == b.state \in {"missing", "torn"}
CrumbRaises(b) == b.state = "malformed"

Fetch == SelectSeq([i \in 1 .. Cardinality(Replays) |->
                        CHOOSE r \in Replays :
                            Cardinality({q \in Replays : q < r}) = i - 1],
                   LAMBDA r : cleanRow[r].status = "unprocessed")

StartClean ==
    /\ cleaner # "running"
    /\ todo' = Fetch
    /\ todo' # << >>
    /\ cleaner' = "running"
    /\ UNCHANGED <<sidecar, crumb, cleanRow, finish, cohortsOf, assigned, probe>>

Judge(r, st, src) ==
    cleanRow' = [cleanRow EXCEPT ![r] = [status |-> st, source |-> src]]

\* _clean_one with _try_breadcrumb_path.
CleanOne ==
    /\ cleaner = "running" /\ todo # << >>
    /\ LET r == Head(todo)
           f == sidecar[r]
           b == crumb[r]
       IN  CASE LoadRaises(f) \/ (SidecarFails(f) /\ CrumbRaises(b)) ->
                    cleaner' = "crashed" /\ todo' = << >> /\ UNCHANGED cleanRow
             [] SidecarFails(f) /\ CrumbFails(b) ->
                    /\ Judge(r, "rejected", "telemetry_unavailable")
                    /\ todo' = Tail(todo) /\ UNCHANGED cleaner
             [] SidecarFails(f) /\ ~CrumbFails(b) /\ ~CrumbRaises(b) ->
                    /\ Judge(r, Classify(RunBreadcrumbRules(b.of)), "breadcrumbs")
                    /\ todo' = Tail(todo) /\ UNCHANGED cleaner
             [] OTHER ->
                    /\ Judge(r, Classify(RunRules(f.of)), "telemetry")
                    /\ todo' = Tail(todo) /\ UNCHANGED cleaner
    /\ UNCHANGED <<sidecar, crumb, finish, cohortsOf, assigned, probe>>

EndClean ==
    /\ cleaner = "running" /\ todo = << >>
    /\ cleaner' = "off"
    /\ UNCHANGED <<sidecar, crumb, cleanRow, finish, cohortsOf, assigned, todo, probe>>

-----------------------------------------------------------------------------
(* Cohorts.                                                                *)

Eligible == {r \in Replays : cleanRow[r].status \in Usable /\ finish[r] > 0}

\* pct = i / (n - 1) against the bands 10, 20-80 and 5-95 per cent.
AllCohorts == {"performance", "intent", "robustness"}
BandOf(i, n) ==
    {c \in AllCohorts :
        CASE c = "performance" -> 100 * i <= 10 * (n - 1)
          [] c = "intent" -> 20 * (n - 1) <= 100 * i /\ 100 * i <= 80 * (n - 1)
          [] OTHER -> 5 * (n - 1) <= 100 * i /\ 100 * i <= 95 * (n - 1)}

\* The query orders by finish time; ties keep the order the rows came in.
Place(r, E) == Cardinality({q \in E : finish[q] < finish[r]
                                      \/ (finish[q] = finish[r] /\ q < r)})
AssignCohortsForMap(E) ==
    [r \in E |-> IF Cardinality(E) < SmallMapN THEN AllCohorts
                 ELSE BandOf(Place(r, E), Cardinality(E))]

AssignCohorts ==
    /\ cleaner # "running" /\ Eligible # {}
    /\ LET a == AssignCohortsForMap(Eligible)
       IN  cohortsOf' = [r \in Replays |-> IF r \in Eligible THEN a[r] ELSE cohortsOf[r]]
    /\ UNCHANGED <<sidecar, crumb, cleanRow, finish, todo, cleaner, probe>>
    /\ assigned' = Eligible

\* The replays as parsing left them.
ReplayArrives ==
    /\ cleaner = "empty"
    /\ \E c \in Corpora : sidecar' = c.sidecar /\ crumb' = c.crumb /\ finish' = c.finish
    /\ cleaner' = "off"
    /\ UNCHANGED <<cleanRow, cohortsOf, assigned, todo, probe>>

\* The rules alone, on one input of the probes.
TryRules ==
    /\ cleaner = "empty" /\ probe = NoProbe
    /\ \/ probe' \in {[kind |-> "telemetry", of |-> s] : s \in Probes}
       \/ probe' \in {[kind |-> "breadcrumbs", of |-> b] : b \in CrumbProbes}
    /\ UNCHANGED <<sidecar, crumb, cleanRow, finish, cohortsOf, assigned, todo, cleaner>>

CleanInit ==
    /\ sidecar = [r \in Replays |-> [state |-> "missing"]]
    /\ crumb = [r \in Replays |-> [state |-> "missing"]]
    /\ cleanRow = [r \in Replays |-> NoRow]
    /\ finish = [r \in Replays |-> 0]
    /\ cohortsOf = [r \in Replays |-> {}]
    /\ assigned = {}
    /\ todo = << >>
    /\ cleaner = "empty"
    /\ probe = NoProbe

CleanStep == StartClean \/ CleanOne \/ EndClean
CleanNext == CleanStep \/ AssignCohorts \/ (probe = NoProbe /\ ReplayArrives) \/ TryRules

-----------------------------------------------------------------------------
(* What a clean replay is, stated without the loops: it finished, its      *)
(* clock never runs backwards or skips, the car never jumps, speeds,       *)
(* stands still for long or restarts, and it went somewhere.  A rejected   *)
(* one fails one of the hard limits, and the rest carry warnings.          *)
Stood(s, i, j) == \A k \in i + 1 .. j : Moved(s, k) < Limits.minMotion
HardFault(s) ==
    \/ Len(s.time) < Limits.minSamples
    \/ ~s.finished /\ Duration(s) < Limits.minDuration
    \/ \E i \in Steps(s) : Gap(s, i) < 0 \/ Gap(s, i) > Limits.hardGap
                           \/ Moved(s, i) >= Limits.maxDelta
    \/ \E i \in DOMAIN s.speed : s.speed[i] >= Limits.hardCap
    \/ \E F \in SUBSET DOMAIN s.speed :
           Cardinality(F) > Limits.maxSpikes /\ \A i \in F : s.speed[i] > Limits.maxSpeed
    \/ \E i, j \in DOMAIN s.time :
           i < j /\ Stood(s, i, j) /\ s.time[j] - s.time[i] >= Limits.rejectIdle
    \/ s.restarts >= Limits.rejectRestarts
    \/ Travelled(s) < Limits.minDistance
SoftFault(s) ==
    \/ ~s.finished
    \/ \E i \in Steps(s) : Gap(s, i) > Limits.softGap \/ Moved(s, i) >= Limits.softDelta
    \/ \E i \in DOMAIN s.speed : s.speed[i] > Limits.maxSpeed
    \/ \E i, j \in DOMAIN s.time :
           i < j /\ Stood(s, i, j) /\ s.time[j] - s.time[i] >= Limits.warnIdle
    \/ s.restarts >= Limits.warnRestarts
CleanMeansClean ==
    probe # NoProbe /\ probe.kind = "telemetry" =>
        LET s == probe.of
        IN  Classify(RunRules(s)) =
                CASE HardFault(s) -> "rejected"
                  [] ~HardFault(s) /\ SoftFault(s) -> "usable_with_warnings"
                  [] OTHER -> "clean"

(* A breadcrumb replay that no rule rejects has ordered checkpoints, and   *)
(* either finished or lasted; the median used for the warning has as many  *)
(* gaps on each side as a median must.                                     *)
CrumbsInOrder ==
    probe # NoProbe /\ probe.kind = "breadcrumbs" =>
        LET b == probe.of
        IN  Classify(RunBreadcrumbRules(b)) # "rejected" =>
                /\ \A i, j \in DOMAIN b.cps : i < j => b.cps[i] <= b.cps[j]
                /\ b.finish > 0 \/ (b.cps # << >> /\ b.cps[Len(b.cps)] >= Limits.minDuration)
                /\ \A i \in 2 .. Len(b.cps) : b.cps[i] - b.cps[i - 1] <= Limits.hardCrumbGap

(* However few the replays of a map, each cohort that is assigned at all   *)
(* has a member: route extraction reads one cohort and finds nothing       *)
(* otherwise.                                                              *)
CohortsCover ==
    assigned # {} => \A c \in AllCohorts : \E r \in assigned : c \in cohortsOf[r]

(* The verdict of the rules is the verdict of their definitions, and no    *)
(* cohort stays empty: the three conditions above.                         *)
CleaningSound == CleanMeansClean /\ CrumbsInOrder /\ CohortsCover

(* A cleaning run that is repeated judges every replay up to the first     *)
(* that ends it: one whose telemetry breaks the schema, or one without     *)
(* telemetry whose breadcrumbs hold a time that is no number.  There the   *)
(* run ends, and so does every later run; a missing, torn or sample-free   *)
(* sidecar keeps no other replay from being judged.                        *)
EndsTheRun(r) ==
    \/ sidecar[r].state = "malformed"
    \/ sidecar[r].state \in {"missing", "torn", "empty"} /\ crumb[r].state = "malformed"
EveryReplayJudged ==
    cleaner # "empty" ~>
        \A r \in Replays : \/ cleanRow[r].status # "unprocessed"
                           \/ \E q \in Replays : q <= r /\ EndsTheRun(q)
=============================================================================
