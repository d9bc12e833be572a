------------------------------ MODULE CliStages ------------------------------
(***************************************************************************)
(* The command line (src/cli/__main__.py), the stage_runs rows its stages  *)
(* leave (src/ingestion/orchestrator.py) and scripts/run_pipeline.sh,      *)
(* which chains thirteen of the commands.                                  *)
(*                                                                         *)
(* A command is a record: the steps its handler takes in order, the status *)
(* it computes from what its work reports, and the tables it reads and     *)
(* writes.  What a stage does to a table is abstracted to a version: a     *)
(* table is as new as the oldest thing it was made from.  Some stages try  *)
(* an item once and never again; which of them have left items behind is   *)
(* kept beside the versions.                                               *)
(*                                                                         *)
(* Commands run one at a time ("sequential by design", and the dashboard's *)
(* worker starts one action at a time).                                    *)
(***************************************************************************)
EXTENDS Integers, Sequences, FiniteSets

CONSTANTS MaxNews,     \* bound on the batches an ingest finds, maps or replays
          MaxErrors,   \* bound on errors a command's work reports or raises
          MaxLosses,   \* bound on kills, lost connections, refused writes
          MaxRuns,     \* bound on commands the operator starts by hand
          MaxPasses    \* bound on runs of the pipeline script

ASSUME StagesAssumption ==
    /\ MaxNews \in Nat /\ MaxErrors \in Nat /\ MaxLosses \in Nat
    /\ MaxRuns \in Nat /\ MaxPasses \in Nat

VARIABLES proc,      \* the running command, or Idle
          stageRuns, \* the stage_runs table
          fresh,     \* table |-> the [m, r] ingests it reflects, but for ...
          behind,    \* ... the items a stage has left behind: [stage, pass]
          modelFile, \* reports/corridor-ranking-model-latest.json
          line,      \* run_pipeline.sh: stage number, 0 when not running
          lineExit,  \* exit status of its last run
          passes,    \* runs of the script: the raw tables at the start, whether
                     \* all returned 0, and whether scored data was redone since
          spent      \* errors, losses and runs by hand so far

cliVars == <<proc, stageRuns, fresh, behind, modelFile, line, lineExit, passes,
             spent>>

Tables == {"maps", "placements", "graph", "labels", "evidence", "support",
           "weights", "negative", "corridors", "replays", "clean", "cohorts",
           "scores", "learned"}

-----------------------------------------------------------------------------
(* What a command's work reports, and the status its handler makes of it.  *)

Reports == {s \in [errors: BOOLEAN, wrote: BOOLEAN, seen: BOOLEAN] :
                s.wrote => s.seen}

PartialOnErrors == [s \in Reports |-> IF s.errors THEN "partial" ELSE "success"]
AlwaysSuccess == [s \in {r \in Reports : ~r.errors} |-> "success"]
IgnoresErrors == [s \in Reports |-> "success"]

\* The shapes of a handler.  check: a setup error returns 2.  need: an empty
\* input returns 1.  file: the result is written to a path with write_text.
Recorded == <<"connect", "open", "work", "close">>
Bare == <<"connect", "work">>
Exporting == <<"connect", "work", "truncate", "write">>

Command(nm, stp, sts, rd, wr) ==
    [name |-> nm, steps |-> stp, status |-> sts, reads |-> rd, writes |-> wr]

-----------------------------------------------------------------------------
(* The stages that record a stage_runs row.                                *)

CmdIngestMaps ==
    Command("ingest-maps",
            <<"check", "connect", "snapshot", "open", "work", "close">>,
            [s \in Reports |-> IF s.errors /\ ~s.wrote THEN "failed"
                               ELSE PartialOnErrors[s]],
            {}, {"maps"})
CmdIngestReplays ==
    Command("ingest-replays",
            <<"check", "connect", "need", "snapshot", "open", "work", "close">>,
            PartialOnErrors, {"maps"}, {"replays"})
CmdParseMaps ==
    Command("parse-maps", Recorded, PartialOnErrors, {"maps"}, {"placements"})
CmdBuildGraph ==
    Command("build-graph", Recorded, PartialOnErrors, {"placements"}, {"graph"})
CmdParseReplays ==
    Command("parse-replays", Recorded, PartialOnErrors, {"replays"}, {})
\* replay-clean counts load failures and rule exceptions as errors.
CmdReplayClean ==
    Command("replay-clean", Recorded, PartialOnErrors, {"replays"}, {"clean"})
CmdAssignCohorts ==
    Command("assign-cohorts", Recorded, AlwaysSuccess, {"clean"}, {"cohorts"})
CmdExtractRoute ==
    Command("extract-route", Recorded,
            [s \in Reports |->
                IF s.errors \/ (s.seen /\ ~s.wrote) THEN "partial"
                ELSE "success"],
            {"clean", "cohorts"}, {})
\* The report is written after the work and before the row is closed.
CmdEvalBenchmark ==
    Command("eval-benchmark",
            <<"connect", "open", "work", "truncate", "write", "close">>, PartialOnErrors,
            {"placements", "graph", "scores", "learned"}, {})

-----------------------------------------------------------------------------
(* The stages that only report through their exit status.                  *)

CmdLabelTraversability ==
    Command("label-traversability", Bare, AlwaysSuccess, {"graph"}, {"labels"})
CmdBuildTraversabilityEvidence ==
    Command("build-traversability-evidence", Bare, PartialOnErrors,
            {"placements"}, {"evidence"})
CmdUpdatePathSupport ==
    Command("update-path-support", Bare, PartialOnErrors,
            {"placements", "clean", "evidence"}, {"support"})
CmdUpdatePatternWeights ==
    Command("update-pattern-weights", Bare, PartialOnErrors,
            {"evidence"}, {"weights"})
CmdUpdateNegativeEvidence ==
    Command("update-negative-evidence", Bare, PartialOnErrors,
            {"placements", "evidence"}, {"negative"})
CmdBuildRouteCorridors ==
    Command("build-route-corridors", Bare, PartialOnErrors,
            {"placements", "clean"}, {"corridors"})
CmdScoreRouteCorridors ==
    Command("score-route-corridors", Bare, PartialOnErrors,
            {"corridors", "support", "weights", "negative"}, {"scores"})
CmdScoreCorridorsLearned ==
    Command("score-corridors-learned", <<"model", "connect", "work">>,
            PartialOnErrors, {"corridors", "support", "weights", "negative"},
            {"learned"})
CmdIngestOpenplanetTelemetry ==
    Command("ingest-openplanet-telemetry", <<"check", "connect", "work">>,
            PartialOnErrors, {"maps"}, {})
CmdIngestMapItems ==
    Command("ingest-map-items", Bare, PartialOnErrors, {"maps"}, {})
CmdExtractDrivenPaths ==
    Command("extract-driven-paths", Bare, PartialOnErrors, {"placements"}, {})
CmdMineDrivenTransitions ==
    Command("mine-driven-transitions", Exporting, AlwaysSuccess, {}, {})
CmdComputeFinishabilityProof ==
    Command("compute-finishability-proof", Bare, PartialOnErrors, {"maps"}, {})
CmdScoreCorridorSequences ==
    Command("score-corridor-sequences", Bare, AlwaysSuccess, {"corridors"}, {})
CmdBuildBlockTransitionCounts ==
    Command("build-block-transition-counts", Bare, PartialOnErrors,
            {"corridors"}, {})
CmdBuildFaceTransitions ==
    Command("build-face-transitions", Bare, PartialOnErrors, {"placements"}, {})
CmdMinePlacementGrammar ==
    Command("mine-placement-grammar", Bare, PartialOnErrors, {"placements"}, {})
CmdMineRouteSequences ==
    Command("mine-route-sequences", Bare, IgnoresErrors, {"placements"}, {})
CmdMineMacros ==
    Command("mine-macros", Bare, IgnoresErrors, {"placements"}, {})
CmdMineJumps ==
    Command("mine-jumps", Bare, IgnoresErrors, {"placements"}, {})
CmdBuildBlockGeometry ==
    Command("build-block-geometry", Bare, AlwaysSuccess, {"placements"}, {})
CmdImportConnectionProbes ==
    Command("import-connection-probes", <<"need", "connect", "work">>,
            AlwaysSuccess, {}, {})

-----------------------------------------------------------------------------
(* Commands whose result is a file, a report or a verdict.                 *)

\* The trained model: the report is written, then the metrics rows, whose
\* failure is only logged (_persist_training_metrics).
CmdTrainCorridorRanking ==
    Command("train-corridor-ranking", Exporting, AlwaysSuccess,
            {"corridors", "scores"}, {})
CmdExportConstruction ==
    Command("export-construction", Exporting, AlwaysSuccess, {}, {})
CmdExportRouteModel ==
    Command("export-route-model", Exporting, AlwaysSuccess, {}, {})
CmdExportPlacementGrammar ==
    Command("export-placement-grammar", Exporting, AlwaysSuccess, {}, {})
CmdExportFacePriors ==
    Command("export-face-priors", Exporting, AlwaysSuccess, {}, {})
CmdDiagnoseCorridorRanking ==
    Command("diagnose-corridor-ranking", Exporting, AlwaysSuccess,
            {"corridors"}, {})
CmdDiagnoseCorridorDiversity ==
    Command("diagnose-corridor-diversity",
            <<"connect", "work", "need", "truncate", "write">>, AlwaysSuccess,
            {"corridors"}, {})
CmdCompareSnapshots ==
    Command("compare-snapshots", Exporting, AlwaysSuccess, {"corridors"}, {})
CmdReportReplayCoverage ==
    Command("report-replay-coverage", Exporting, AlwaysSuccess, {"clean"}, {})
\* Exit 1 means a gate failed: the report is written in both cases.
CmdEnumerateCorridors ==
    Command("enumerate-corridors", Exporting, PartialOnErrors,
            {"placements", "clean"}, {})
CmdValidateTraversability ==
    Command("validate-traversability", Exporting, PartialOnErrors,
            {"placements", "clean"}, {})
CmdGenerateMap ==
    Command("generate-map", Exporting, PartialOnErrors, {"scores"}, {})
CmdGenerateAiMap ==
    Command("generate-ai-map", Exporting, PartialOnErrors, {"scores"}, {})
CmdValidateGeneration ==
    Command("validate-generation", Bare, PartialOnErrors, {"placements"}, {})
CmdEmitGbx ==
    Command("emit-gbx", Bare, PartialOnErrors, {"maps"}, {})
\* Reads the corridors and the anchors, then needs both maps to parse.
CmdDiagnoseStrip ==
    Command("diagnose-strip", <<"connect", "connect", "connect", "need",
                                "work", "truncate", "write">>,
            AlwaysSuccess, {"corridors"}, {})

\* generate, emit (a refusal is a setup error), enqueue, then poll the job.
CmdTestInGame ==
    Command("test-in-game", <<"connect", "work", "check", "need", "poll">>,
            AlwaysSuccess, {"scores"}, {})
CmdRemoteTestEnqueue ==
    Command("remote-test-enqueue", <<"check", "need">>, AlwaysSuccess, {}, {})
CmdRemoteTestStatus ==
    Command("remote-test-status", <<"check", "need">>, AlwaysSuccess, {}, {})
CmdComputeTelemetryCoverage ==
    Command("compute-telemetry-coverage", <<"connect", "uncached">>,
            AlwaysSuccess, {"placements"}, {})
CmdMigrate == Command("migrate", Bare, PartialOnErrors, {}, {})
CmdNeo4jMigrate == Command("neo4j-migrate", Bare, PartialOnErrors, {}, {})

\* Mutant: two stages change places.
PipelineStagesSwapped ==
    <<CmdParseMaps, CmdLabelTraversability, CmdBuildGraph,
      CmdBuildTraversabilityEvidence, CmdUpdatePathSupport,
      CmdUpdatePatternWeights, CmdUpdateNegativeEvidence,
      CmdBuildRouteCorridors, CmdParseReplays, CmdReplayClean,
      CmdAssignCohorts, CmdScoreRouteCorridors, CmdScoreCorridorsLearned>>

\* The stages run_pipeline.sh runs, in its order.  It runs the last one only
\* when the model file exists.
PipelineStages ==
    <<CmdParseMaps, CmdBuildGraph, CmdLabelTraversability,
      CmdBuildTraversabilityEvidence, CmdUpdatePathSupport,
      CmdUpdatePatternWeights, CmdUpdateNegativeEvidence,
      CmdBuildRouteCorridors, CmdParseReplays, CmdReplayClean,
      CmdAssignCohorts, CmdScoreRouteCorridors, CmdScoreCorridorsLearned>>

\* The commands that are no stage of the script.
Aside ==
    {CmdIngestMaps, CmdIngestReplays, CmdExtractRoute, CmdEvalBenchmark,
     CmdTrainCorridorRanking, CmdIngestOpenplanetTelemetry, CmdIngestMapItems,
     CmdExtractDrivenPaths, CmdMineDrivenTransitions,
     CmdComputeFinishabilityProof, CmdScoreCorridorSequences,
     CmdBuildBlockTransitionCounts, CmdBuildFaceTransitions,
     CmdMinePlacementGrammar, CmdMineRouteSequences, CmdMineMacros,
     CmdMineJumps, CmdBuildBlockGeometry, CmdImportConnectionProbes,
     CmdExportConstruction, CmdExportRouteModel, CmdExportPlacementGrammar,
     CmdExportFacePriors, CmdDiagnoseCorridorRanking,
     CmdDiagnoseCorridorDiversity, CmdCompareSnapshots,
     CmdReportReplayCoverage, CmdEnumerateCorridors,
     CmdValidateTraversability, CmdGenerateMap, CmdGenerateAiMap,
     CmdValidateGeneration, CmdEmitGbx, CmdDiagnoseStrip, CmdTestInGame,
     CmdRemoteTestEnqueue, CmdRemoteTestStatus, CmdComputeTelemetryCoverage,
     CmdMigrate, CmdNeo4jMigrate}

\* What the operator starts by hand: every command of the command line, the
\* stages of the script too (the dashboard's Score is the last of them).
ByHand == Aside \cup {PipelineStages[k] : k \in DOMAIN PipelineStages}

-----------------------------------------------------------------------------
(* One command.                                                            *)

Idle == [pc |-> 0, row |-> 0, status |-> "none", cmd |-> CmdParseMaps]
Kind == proc.cmd.steps[proc.pc]
Running == proc.pc > 0
AtStep(k) == Running /\ proc.pc <= Len(proc.cmd.steps) /\ Kind = k
Advance == proc' = [proc EXCEPT !.pc = @ + 1]

Error == spent.errors < MaxErrors /\ spent' = [spent EXCEPT !.errors = @ + 1]
Loss == spent.losses < MaxLosses /\ spent' = [spent EXCEPT !.losses = @ + 1]
NoFault == UNCHANGED spent

\* Mutant: exit code 1 is tolerated of every stage.
ToleratedAny(stage, rc) == rc = 0 \/ rc = 1

\* run(): which exit statuses let the script go on.  The comment says the
\* tolerated one is replay-clean's 'partial'; a crash of replay-clean is 1 too.
Tolerated(stage, rc) == rc = 0 \/ (stage = "replay-clean" /\ rc = 1)

\* The process ends with status rc; the script, when it is the script's
\* child, takes the next stage or exits.
Exit(rc) ==
    /\ proc' = Idle
    /\ \/ line = 0 /\ UNCHANGED <<line, lineExit, passes>>
       \/ /\ line > 0
          /\ passes' = [passes EXCEPT ![Len(passes)].ok = @ /\ rc = 0]
          /\ LET goOn == Tolerated(proc.cmd.name, rc)
                 last == line = Len(PipelineStages)
             IN  /\ line' = IF goOn /\ ~last THEN line + 1 ELSE 0
                 /\ lineExit' = CASE ~goOn -> 1
                                  [] goOn /\ last -> 0
                                  [] OTHER -> lineExit

\* A step that can only go on or end the command with status rc.
Gate(k, rc) ==
    /\ AtStep(k)
    /\ \/ Advance /\ NoFault /\ UNCHANGED <<line, lineExit, passes>>
       \/ Exit(rc) /\ Error
    /\ UNCHANGED <<stageRuns, fresh, behind, modelFile>>

\* In compute-telemetry-coverage the cached map id is read before anything is
\* assigned to it: the first capture whose file exists ends the command.
ReadUncached == Gate("uncached", 1)
PollJob == Gate("poll", 1)
CheckSetup == Gate("check", 2)
CheckInput == Gate("need", 1)
OpenConnection == Gate("connect", 1)
EnsureSnapshot == Gate("snapshot", 1)

\* load_model_from_report reads the file before anything else: a torn or
\* absent file raises.
LoadModelFromReport ==
    /\ AtStep("model")
    /\ IF modelFile = "whole"
       THEN Advance /\ UNCHANGED <<line, lineExit, passes>>
       ELSE Exit(1)
    /\ NoFault /\ UNCHANGED <<stageRuns, fresh, behind, modelFile>>

\* The run of the script the command belongs to, 0 by hand.
ThisPass == IF line > 0 THEN Len(passes) ELSE 0

OpenStageRun ==
    /\ AtStep("open")
    /\ stageRuns' = Append(stageRuns, [stage |-> proc.cmd.name,
                                       pass |-> ThisPass,
                                       status |-> "running"])
    /\ proc' = [proc EXCEPT !.pc = @ + 1, !.row = Len(stageRuns) + 1]
    /\ NoFault /\ UNCHANGED <<fresh, behind, modelFile, line, lineExit, passes>>

\* A table is as new as the oldest table it is made from; the raw tables are
\* as new as their last ingest.  Rebuilding the evidence deletes and inserts
\* its rows, which loses the three columns the update stages add; rebuilt
\* corridors lose their scores the same way.
Wiped == [m |-> -1, r |-> -1]
Ever == MaxNews + 1
Oldest(V) == CHOOSE v \in V : \A w \in V : v <= w
Derived(S) == [m |-> Oldest({fresh[t].m : t \in S}),
               r |-> Oldest({fresh[t].r : t \in S})]
Ingested(v) == IF v < MaxNews THEN v + 1 ELSE v
Lost(c) == CASE c.writes = {"evidence"} -> {"support", "weights", "negative"}
             [] c.writes = {"corridors"} -> {"scores", "learned"}
             [] OTHER -> {}
Made(c) ==
    [t \in Tables |->
        CASE t \in Lost(c) -> Wiped
          [] t \notin c.writes \cup Lost(c) -> fresh[t]
          [] t \in c.writes /\ t = "maps" -> [m |-> Ingested(fresh[t].m), r |-> Ever]
          [] t \in c.writes /\ t = "replays" -> [m |-> Ever, r |-> Ingested(fresh[t].r)]
          [] OTHER -> Derived(c.reads)]

\* Work that does not get through everything: the columns a rebuild loses are
\* gone all the same, and the table is part old and part new.
Part(c) ==
    [t \in Tables |->
        CASE t \in Lost(c) -> Wiped
          [] t \in c.writes \ {"maps", "replays"} -> Derived(c.reads \cup {t})
          [] OTHER -> fresh[t]]

\* The parse stages take only 'unparsed' rows (the script does not pass
\* --retry-transient), build-graph only maps nobody has claimed, replay-clean
\* only 'unprocessed' rows: an item that failed there once is not taken again.
\* The other stages start from everything each time.
TakenOnce == {"parse-maps", "build-graph", "parse-replays", "replay-clean"}
LeavesBehind ==
    IF AtStep("work") /\ proc.cmd.name \in TakenOnce
    THEN behind' \in {behind, behind \cup {[stage |-> proc.cmd.name, pass |-> ThisPass]}}
    ELSE UNCHANGED behind

\* The work ends with a report; errors mean some maps or replays kept what
\* they had.
RunWork ==
    /\ AtStep("work")
    /\ \E s \in DOMAIN proc.cmd.status :
          /\ IF s.errors THEN Error ELSE NoFault
          /\ proc' = [proc EXCEPT !.pc = @ + 1, !.status = proc.cmd.status[s]]
          /\ fresh' = IF s.errors THEN Part(proc.cmd) ELSE Made(proc.cmd)
          /\ IF s.errors THEN LeavesBehind ELSE UNCHANGED behind
    /\ UNCHANGED <<stageRuns, modelFile, line, lineExit, passes>>

\* The work raises: a recorded stage closes its row as failed and returns 1,
\* any other lets the exception end the process with 1.
RaiseWork ==
    /\ AtStep("work") /\ Error
    /\ stageRuns' = [i \in DOMAIN stageRuns |->
                        IF i = proc.row
                        THEN [stageRuns[i] EXCEPT !.status = "failed"]
                        ELSE stageRuns[i]]
    /\ fresh' \in {fresh, Part(proc.cmd)}
    /\ LeavesBehind /\ Exit(1)
    /\ UNCHANGED modelFile

\* write_text truncates the file before it writes it.
WritesModel == proc.cmd.name = "train-corridor-ranking"
TruncateFile ==
    /\ AtStep("truncate")
    /\ modelFile' = IF WritesModel THEN "torn" ELSE modelFile
    /\ Advance /\ NoFault
    /\ UNCHANGED <<stageRuns, fresh, behind, line, lineExit, passes>>
WriteFile ==
    /\ AtStep("write")
    /\ \/ Advance /\ NoFault /\ UNCHANGED <<line, lineExit, passes>>
          /\ modelFile' = IF WritesModel THEN "whole" ELSE modelFile
       \/ Exit(1) /\ Loss /\ UNCHANGED modelFile
    /\ UNCHANGED <<stageRuns, fresh, behind>>

\* close_stage_run, and the return that follows it.  When the connection is
\* gone the update raises and the row stays 'running'.
CloseStageRun ==
    /\ AtStep("close")
    /\ \/ /\ NoFault
          /\ stageRuns' = [stageRuns EXCEPT ![proc.row].status = proc.status]
          /\ Exit(IF proc.status = "success" THEN 0 ELSE 1)
       \/ Loss /\ UNCHANGED stageRuns /\ Exit(1)
    /\ UNCHANGED <<fresh, behind, modelFile>>

\* The end of a handler that keeps no row.
ReturnStatus ==
    /\ Running /\ proc.pc > Len(proc.cmd.steps)
    /\ NoFault
    /\ Exit(IF proc.status \in {"success", "none"} THEN 0 ELSE 1)
    /\ UNCHANGED <<stageRuns, fresh, behind, modelFile>>

\* A kill, in the middle of the work perhaps: items may have failed before it,
\* and build-graph may have claimed a map and not merged it yet.
KillCommand ==
    /\ Running /\ Loss /\ Exit(137)
    /\ fresh' \in IF AtStep("work") THEN {fresh, Part(proc.cmd)} ELSE {fresh}
    /\ LeavesBehind
    /\ UNCHANGED <<stageRuns, modelFile>>

-----------------------------------------------------------------------------
(* The script, the operator and the world.                                 *)

StartPipeline ==
    /\ line = 0 /\ ~Running /\ Len(passes) < MaxPasses
    /\ line' = 1
    /\ lineExit' = -1
    /\ passes' = Append(passes, [maps |-> fresh["maps"].m,
                                 replays |-> fresh["replays"].r,
                                 ok |-> TRUE, redone |-> FALSE])
    /\ UNCHANGED <<proc, stageRuns, fresh, behind, modelFile, spent>>

\* Mutant: the last stage waits for the model file.
NextStageWithModel ==
    /\ line > 0 /\ ~Running
    /\ line < Len(PipelineStages) \/ modelFile # "none"
    /\ proc' = [pc |-> 1, row |-> 0, status |-> "none",
                cmd |-> PipelineStages[line]]
    /\ UNCHANGED <<stageRuns, fresh, behind, modelFile, line, lineExit, passes, spent>>

\* The script's next stage; without the model file the last one is skipped.
NextStage ==
    /\ line > 0 /\ ~Running
    /\ \/ /\ line = Len(PipelineStages) /\ modelFile = "none"
          /\ line' = 0 /\ lineExit' = 0
          /\ UNCHANGED <<proc, passes>>
       \/ /\ line < Len(PipelineStages) \/ modelFile # "none"
          /\ proc' = [pc |-> 1, row |-> 0, status |-> "none",
                      cmd |-> PipelineStages[line]]
          /\ UNCHANGED <<line, lineExit, passes>>
    /\ UNCHANGED <<stageRuns, fresh, behind, modelFile, spent>>

RunByHand ==
    /\ line = 0 /\ ~Running /\ spent.runs < MaxRuns
    /\ \E c \in ByHand :
          /\ proc' = [pc |-> 1, row |-> 0, status |-> "none", cmd |-> c]
          /\ passes' = IF Lost(c) = {} \/ passes = << >> THEN passes
                       ELSE [passes EXCEPT ![Len(passes)].redone = TRUE]
    /\ spent' = [spent EXCEPT !.runs = @ + 1]
    /\ UNCHANGED <<stageRuns, fresh, behind, modelFile, line, lineExit>>

CliInit ==
    /\ proc = Idle
    /\ stageRuns = << >>
    /\ fresh = [t \in Tables |->
                   [m |-> IF t \in {"replays", "clean", "cohorts"} THEN Ever ELSE 0,
                    r |-> IF t = "maps" THEN Ever ELSE 0]]
    /\ behind = {}
    /\ modelFile = "none"
    /\ line = 0 /\ lineExit = -1
    /\ passes = << >>
    /\ spent = [errors |-> 0, losses |-> 0, runs |-> 0]

CommandStep ==
    \/ CheckSetup \/ CheckInput \/ ReadUncached \/ PollJob \/ OpenConnection \/ EnsureSnapshot
    \/ LoadModelFromReport \/ OpenStageRun \/ RunWork \/ RaiseWork
    \/ TruncateFile \/ WriteFile \/ CloseStageRun \/ ReturnStatus
    \/ NextStage

CliNext == CommandStep \/ KillCommand \/ StartPipeline \/ RunByHand

-----------------------------------------------------------------------------
(* A row that still says 'running' although no command runs stands for a   *)
(* kill, a connection lost before the close or a report that could not be  *)
(* written: an error of the work itself never leaves one (the except       *)
(* clause every recorded stage puts around its work).                      *)
Orphans == {i \in DOMAIN stageRuns :
                stageRuns[i].status = "running" /\ proc.row # i}
OrphanRowsExplained == Cardinality(Orphans) <= spent.losses

(* An item a stage will not take again is on record: the stage has a row   *)
(* of that pass that does not say success.                                 *)
LeftBehindOnRecord ==
    \A b \in behind : \E i \in DOMAIN stageRuns :
        /\ stageRuns[i].stage = b.stage /\ stageRuns[i].pass = b.pass
        /\ stageRuns[i].status # "success"

(* In the script, scoring never reads evidence or corridors whose support, *)
(* weight or negative columns a rebuild has wiped: it stops at the first   *)
(* stage that fails, so the stages that refill them have all succeeded.    *)
(* Nothing stops an operator who scores by hand, but he too reads wiped    *)
(* columns only when the last pass did not get to its end, or when         *)
(* evidence or corridors were rebuilt by hand after it.                    *)
ScoringSeesWholeEvidence ==
    AtStep("work") /\ proc.cmd \in {CmdScoreRouteCorridors, CmdScoreCorridorsLearned}
        => \/ \A t \in {"support", "weights", "negative", "corridors"} :
                 fresh[t] # Wiped
           \/ line = 0 /\ (lineExit # 0 \/ passes[Len(passes)].redone)

(* The record of the stages and the order they run in: the three           *)
(* conditions above.                                                       *)
StagesInOrder ==
    OrphanRowsExplained /\ LeftBehindOnRecord /\ ScoringSeesWholeEvidence

(* What a pass leaves behind.  After a pass whose stages all returned 0,   *)
(* and unless evidence or corridors were rebuilt by hand since, everything *)
(* made from maps reflects the maps ingested when it began; the cleaned    *)
(* replays feed stages that ran before them, so what is made from replays  *)
(* is current only after a second such pass.  Excepted are the items some  *)
(* stage had left behind before: no later pass takes them up.  But none    *)
(* was left behind in a pass that returned only 0.                         *)
GoodPasses(k) ==
    /\ line = 0 /\ ~Running /\ Len(passes) >= k
    /\ \A i \in 0 .. k - 1 : passes[Len(passes) - i].ok
Untouched == ~passes[Len(passes)].redone
FreshAfterPasses ==
    /\ GoodPasses(1) /\ Untouched =>
          \A t \in Tables \ {"learned"} : fresh[t].m >= passes[Len(passes)].maps
    /\ GoodPasses(2) /\ Untouched =>
          \A t \in Tables \ {"learned"} :
              fresh[t].r >= passes[Len(passes) - 1].replays
    /\ GoodPasses(1) => \A b \in behind : b.pass # Len(passes)

(* The script always ends: every stage returns or is killed, and no stage  *)
(* is started twice.                                                       *)
PipelineEnds == line > 0 ~> line = 0
=============================================================================
