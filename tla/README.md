# TLA+ models of TraxManiaMapAI

This directory models the repository's own logic: the remote-test rig that
validates generated maps in the game, the ingestion and parsing of maps and
replays, the stages that turn them into evidence and scored corridors, the
generators and route walkers, the file protocols that drive the game, and the
worker behind the web dashboard. Every definition is a translation of code;
`PROJECT.json` gives the lines ("map"). Paths below are relative to the
repository root.

## 1. The system

TraxManiaMapAI downloads Trackmania maps and replays, parses them into a
database, learns which block transitions are drivable, generates new maps and
tests them in the real game.

| Component | State | Operations | Talks to |
|---|---|---|---|
| Remote-test server (`src/remote_test/`) | SQLite `jobs`, `agent_heartbeats`; artifact files named by hash | enqueue, claim, status, sweep, heartbeat | agents and CLI, by HTTP |
| Remote-test agent (`src/remote_test_agent/`) | current job, inbox map, `.in.json`/`.out.json` files | poll, download, drop trigger, wait, acknowledge, ship | server; plugin, through a folder |
| AIRouteTelemetry plugin (`openplanet-plugin/AIRouteTelemetry/`) | list of pending triggers, editor | scan, open map, validate, write report | agent's folder; the game |
| TMX client (`src/ingestion/http.py`, `tmx.py`) | response cache, token bucket, listing cursor | get, retry, page, draw at random | TMX site |
| Ingestion (`src/ingestion/orchestrator.py`) | `maps`, `replays`, content-addressed artifact store | list, upsert, download, record | TMX client, MariaDB |
| Parsing (`src/parsers/`) | `parse_status`, `block_placements`, `map_checkpoints`, sidecar files | fetch a shard, run the wrapper, write blocks and status, write sidecars, retro-fill scenery | GBX wrapper process, MariaDB |
| Replay analysis (`src/replay/`) | `clean_status`, `cohort_membership` | load, judge by rules, assign cohorts | sidecars, MariaDB |
| Telemetry and routes (`src/route/`, `src/ingestion/openplanet_telemetry.py`) | coverage rows, terrain cells, block visits, route artifacts | ingest captures, match blocks, gate, extract driven paths and centerlines | files, MariaDB |
| Constraints (`src/constraints/`) | Neo4j edges, pair, triple and face counts, sequence scores | build graph, count, score | Neo4j, MariaDB |
| Corridors (`src/corridor/`) | edge evidence, corridors, confidences | label, enumerate, support, weigh, score | MariaDB |
| Generation (`src/generation/`) | none between calls | walkers, beam search, assembly, stripping, validators, emission | corridors, priors, wrapper |
| CLI and scripts (`src/cli/`, `scripts/`) | `stage_runs`, reports | one command per stage, the pipeline script | all of the above |
| Dashboard actions (`tools/dashboard_web/`) | current and last run, bounded log | start, status, log stream | CLI subprocesses, browsers |
| Editor bridge (`tools/tm_mcp/`, `TMMapControl`) | command and result files | call, poll, answer | editor |
| Replay capture (`tools/capture_replay_telemetry.py`, `AIReplayTelemetry`) | ticket and result files, telemetry | submit, retry, split | game |
| Storage (`src/storage/`) | `schema_migrations` | apply pending migrations | MariaDB, Neo4j |
| Learning, evaluation, diversity, coverage, benchmarks, catalogue | reports | read-only computations | database, files |

What is hard to test here, and where (`PROJECT.json` "hazards" has the lines):

* **concurrency**: request threads on one SQLite connection, gunicorn workers
  with a lock each, parser shards without a claim protocol, graph builders with
  one, a worker thread whose readers take another lock;
* **failure between two steps**: report deleted before it is posted, file
  stored before it is recorded, claim committed before the edges it is for, DDL
  that commits by itself, a stage killed between its work and its exit code;
* **non-atomic files**: reports, artifacts, commands, results and sidecars can
  be read half-written;
* **time**: deadlines that pass while the other side is still working, retry
  budgets, ghosts that appear late, a sweep that runs only when somebody polls;
* **stale values**: rows fetched once and written minutes later, evidence of
  an earlier parse, list pages cached for ever;
* **bounds**: the log's deque, the retries, the beam width, the levels of road
  over a column, the caps of the searches;
* **search**: backtracking that undoes a step in several structures at once,
  dynamic programming with back pointers, a visited set shared by branches.

What makes each component correct:

* *store*: one agent per job; final verdicts; no early timeout; a row's file exists;
* *rig*: complete means really run; every job ends; the plugin never hangs and
  never loses a file it has listed;
* *corpus*: blocks and status together; provenance; whole sidecars; every
  parseable map is parsed in the end;
* *services*: the site's rate is respected, nothing torn is served, every map
  is listed once, a recorded migration is a done one;
* *actions, bridge, capture*: one process at a time; nobody is told what did not
  happen; nobody waits for ever;
* *stages*: scoring reads what was built from the same parse and the same
  replays; the pipeline ends, and what two good passes leave stale is on record;
* *algorithms*: each agrees with a definition that does not mention its loop;
* *generation*: a verified route runs from spawn to goal, and nothing a walker
  or a generator builds stands in itself.

## 2. Modules

| Module | Models |
|---|---|
| `JobStates`, `JobRows` | statuses and `_ALLOWED_TRANSITIONS`; a row of `jobs` and what each SQL statement does to it |
| `JobLifecycle` | abstract: what the queue promises its clients |
| `JobStore`, `JobStoreProofs` | `storage.py` statement by statement, under the request threads of `server.py`, with crashes; proofs |
| `RemoteTestRig`, `RigProofs` | server (atomic requests), agents, folder, plugins, clocks, failures; proofs |
| `MapCorpus`, `WorkProofs` | ingestion and sharded parsing over `maps` and `block_placements`, with the outcome of a wrapper call -> error code -> parse status; proofs |
| `ReplayCorpus` | replay ingestion and parsing, at the level of file descriptors and renames |
| `ActionWorker`, `WorkProofs` | `ActionWorker`, `ActionRun.to_dict`, `_find_run`, `tail_stream`; proofs |
| `HttpClient`, `TmxListing` | `HttpClient.get` with `TokenBucket` and `ResponseCache`; paging and random draws over a changing site |
| `Migrations` | `apply_pending` with crashing and concurrent runners |
| `ServiceProofs` | proofs about `HttpClient`, `TmxListing`, `Migrations` and `ReplayCorpus` |
| `EditorBridge` | callers, command and result files, the TMMapControl plugin and its editor |
| `CaptureRig` | the capture driver and the AIReplayTelemetry plugin; frames to telemetry |
| `GameRigProofs` | proofs about `EditorBridge`, `CaptureRig` and `ReplayCleaning` |
| `ReplayCleaning` | rules, classification, cleaning loop, cohorts |
| `CliStages` | the commands as sequences of steps, `stage_runs`, `run_pipeline.sh` |
| `ConstraintGraph` | `build-graph` with its claims |
| `StageProofs` | proofs about `CliStages`, `ConstraintGraph`, `AiGenerator` and `RouteGeneration` |
| `BlockStatistics` | transition counts, face transitions, sequence scores |
| `CorridorGraph`, `CorridorStages` | the drivable graph of a map and its paths (operators); the tables of the corridor stages |
| `BlockMatcher`, `TelemetryCoverage`, `DrivenPath`, `TelemetryStages` | blocks under a sample; coverage; the Viterbi search; the commands that store all three |
| `RouteExtraction`, `WorkProofs` | `extract-route`: cohort to centerline, artifact file and row; proofs |
| `RouteValidators`, `RouteGeneration` | the validators and the stripper (operators); assembly, artifact, later validation |
| `AiGenerator` | the beam-search generator |
| `RouteGrid`, `GrammarWalker`, `ClipWalker` | blocks on the grid; the two backtracking walkers |
| `WalkStack`, `WalkerProofs` | abstract: the ground a backtracking builder holds; proofs about it, both walkers, the telemetry stages and `BlockStatistics` |
| `Orders` | a finite set in the order of a relation (`sorted`), smallest members, joined sequences and sums, with their lemmas |
| `MC*` | the finite instances TLC checks |

Operators whose comment begins with "Mutant" are not part of a specification:
each is a plausible bug in the definition after it, and TLC finds the property
named in `PROJECT.json` "mutants" violated when it takes the definition's place.

`MCServices`, `MCGameRigs`, `MCStages`, `MCCorridors` and `MCWalkers` hold several
components that do not share state. The variable `part` picks one of them in the
initial state, so a run explores the sum of their state spaces, not the product.

### JobStore

`jobs` is the table, `files` the artifact folder (a thread's name stands for
"this thread is writing it", `torn` for "a crash stopped the write"), `lock`
the `threading.Lock` of each process, `pc` and `op` where each request thread
is and its locals. Each SQL statement is a step, because in a second process
nothing prevents another statement from coming between: `ClaimSelect` /
`ClaimUpdate` / `ClaimReply` are the three statements of `claim_next`,
`MoveSelect` / `MoveUpdate` those of `transition`, `SweepSelect` /
`SweepUpdate` those of `sweep_timeouts`. `granted` records which agent was
answered with which job. A request reads the clock once, early, so `Recent`
lets the value it uses be old. An enqueue that finds a file with other bytes is
refused and changes nothing; it is a stutter, described at `EnqueueFound`.

### RemoteTestRig

Requests to the server are atomic here, which `JobStore` justifies for one
process. An agent's `apc` is its place in `run_agent` / `_handle_job`; every HTTP
call may succeed, be answered by an error, not arrive, or be carried out with
its answer lost (`Post`). `RemoteTestHTTPError` is caught, a `RequestException` in
the loop is not: the agent is then `raised`. The plugin's `ppc` follows `Main` and
`ProcessJob`. `WriteBegin`/`WriteEnd` make the report visible half-written.
`age`, `left` and `window` are relative times, so time never runs out. `GameCrash` forgets
what the plugin had listed, `GameRestart` lets it scan the folder again; `runs` counts how
often a job was taken into the game and `cut` how many of those runs a crash ended.

### MapCorpus and ReplayCorpus

`rows` joins a row of `maps` with its block rows; `art` is the version of the
file a row names, `blocks` the version its block rows were read from, `src` the hash
they say they come from. Each parser process fetches its list once and works
through it, so everything it knows about a row may be stale. One
transaction is one step; a deadlock rolls it back and it is replayed at
most `MaxAttempts` times. The unique key of `block_placements` is the guard of
`Commit` / `DuplicateKey`. In `ReplayCorpus` files are inodes: `open("w")` truncates
the file a name stands for, a rename moves it, and a descriptor keeps writing to
its file wherever that has moved. Replays may share an artifact, hence a sidecar.

### ActionWorker

The worker's lock (`wlock`) and each run's lock (`rlock`) are separate, as in the
code, so each assignment of `_finish` and each read of `to_dict` is a step. `alive`
is the set of runs whose process exists. `sent` is the set of line numbers a
stream has yielded, `low` the number of lines the deque has dropped.

### HttpClient, TmxListing, Migrations

One process asks for one URL again and again while the site behind it changes.
`level` is the bucket in units, `burst` an observer: the units spent above the
refill rate in the worst window ending now. A wait is jittered between
`JitterLo` and `JitterHi` per cent and the budget sums the jittered waits, as the
code does. The cache is written to a temporary name and renamed; a process may
stop between. `TmxListing` pages by the id of the last map of a page, one entry per step,
over a set of maps from which some vanish and to which others are added between two entries; `Nameless` maps are
entries without an id. In `Migrations` a statement is `guarded` (IF NOT EXISTS)
or `strict`; each commits by itself, the record comes last, two runners may be
at work and each may die anywhere.

### EditorBridge, CaptureRig, ReplayCleaning

A command file and a result file are `torn` before they are `whole`. A caller gives
up at any moment (`Deadline`) and removes its command if it can; the plugin may
have read it. `ran` counts how often a command was carried out and `excused`
holds the commands hit by a reload. In `CaptureRig` time is counted in samples; `ticket`
names the submission, so that an answer to an earlier one is not taken for
this one's. A ghost appears at any sample or never, and `Adapted` cuts and rebases its
frames. `ReplayCleaning` checks the rules on probes (every
telemetry of four samples over a few values) and the loop on replays whose
sidecars are missing, torn, empty, malformed or good. A malformed telemetry sidecar ends the
run, and so do breadcrumbs with a time that is no number (`CrumbRaises`) where a replay
has no telemetry: `EveryReplayJudged` says how far the repeated run then gets.

### CliStages, ConstraintGraph

A command is a record of the steps its handler takes (check the setup, check an
input, connect, open the stage run, work, close it, write a report), the status it
computes and the tables it reads and writes. Every step can fail in the way its
handler handles. A table is abstracted to the version of the raw tables it
reflects: a derived table is as old as the oldest it was made from. `Lost` are the
columns a rebuild resets. `RunByHand` starts any command, the stages of the script
included, as the dashboard does with `score-corridors`. Work that reports errors, raises or is
killed leaves a table part old and part new (`Part`); in the stages of `TakenOnce` it may also leave
items behind that no later run takes (`behind`): the versions speak of the other
items. The script tolerates an exit code of 1 from `replay-clean` only. `ConstraintGraph` has the claim and the merge as two
transactions, with builders that break off between or inside.

### The corridor, telemetry and route modules

`CorridorGraph` is operators: it uses RECURSIVE ones, so no theorem is stated about it.
TLC evaluates it on every assignment of empty, road and decoration to 2 x 3 cells,
four sets of waypoints and two sets of replays (`Survey`), and `CorridorStages` runs
the stages in any order over parses that renumber the blocks. The logarithms of
the evidence score are replaced by linear ratios with the same zero, one and order.
`TelemetryStages` runs the commands in any order over eight captures: a lap, a
respawn, a jump, a hop, a hole with a clock that steps back, a lap cut short,
and two files that are not telemetry. The replays of a cohort are a set, read in the order
of their ids as the queries read them. `RouteExtraction` takes projection and clustering
as given (numerical libraries) and has the binning, the medians, the
checkpoints, the artifact's file and row, cohorts that change and runs that are killed.

### The generators and walkers

`RouteGeneration` assembles a route from scored corridors as `generate_from_base` does,
strips the map to it, runs the finishability gate and writes an artifact, which
is validated later against corridors that may have been rescored. Lists the code sorts
(checkpoints, candidates of an interval) are sets in the order of their keys. `AiGenerator` has
one step per layer of the beam search. `GrammarWalker` and `ClipWalker` have one
step per node entered, left or undone; the random order of trial is a choice.

## 3. Runs

| Run | Parts | Shows |
|---|---|---|
| `store` | one process, 2 threads, 2 agents, 2 jobs, 1 crash | `StoreInv`, `GrantedToOwner`; `RowsStayTrue` (no early timeout, files kept, claims by agents); `VerdictFinal`; refinement of `JobLifecycle` (`KeepsPromise`) |
| `rig_safety` | one rig, 2 jobs, one failure, stops and restarts of agent and game | `PluginSafe`: no trigger disappears under the plugin, a job runs at most twice, and once more for each run a crash of the game cut short; `ReportsSafe`: completions are earned, a stop is clean, no telemetry is lost without a failure |
| `corpus` | 3 maps (good, corrupt, parsed before the scenery columns), 2 shards, 2 failures, an edited map | `TableSound`: blocks with status, stored before recorded, provenance; `MapsGetParsed` |
| `actions` | 2 runs, a poller, a stream, a thread that cannot start | `ReadersSeeTheTruth`, `BusyEnds` |
| `services` | HTTP client, listing, migrations, replay files | `FetchSafe`, `ListingRight`, `SchemaSound`, `ReplayFilesKept`, `WorkEnds` |
| `game_rigs` | editor bridge, capture rig, replay cleaning | `BridgeHonest`, `CapturesSound`, `CleaningSound`, `RigsComeBack`, `EveryReplayJudged` |
| `stages` | commands and pipeline, graph builders, assembly, beam search | `StagesInOrder`, `FreshAfterPasses`, `EdgesSound`, `VerifiedRunsThrough`, `LearnedDecides`, `SynthesisSound`, `PipelineEnds` |
| `corridors` | corridors and their stages, telemetry stages, route extraction | `ScoresFollowEvidence`, `EnumerationSound`, `VerdictsAgree`, `CoverageSound`, `DrivenPathSound`, `RoutesTrue` |
| `walkers` | two walkers, block statistics, a rig with failures | `RouteAllowed`, `ExhaustedHasNoRoute`, `ClipRouteRuns`, `WalkersAsStack`, `StatisticsSound`; `WaitsEnd`: every job ends and the plugin returns |
| `store_two_workers_claim` | two processes | violated: one job is handed to two agents |
| `corpus_retrofill` | a retro-fill that fails | violated: the map can no longer be recovered |
| `gate_bounds_gap` | a capture with two holes | violated: a hole longer than the gate allows passes |

**Bounds.** Two threads suffice for every race between two requests, and two
agents for a job given twice; a second job lets a sweep and a claim touch different
rows, and a clock of 2 with timeout 1 reaches both sides of the strict
comparison. In the rig, one failure at any place is the unit of
partial failure; the second job shows what the plugin's second run of the first
does to it; the liveness run has one job and two failures. In the corpus two shards
and three maps give a process a list of two; `MaxAttempts = 2` reaches both the
replay and the giving up; two file versions make staleness visible. In the action
worker two runs are needed for "one at a time" and "last"; three lines fill the deque.
*Services*: three calls are a miss, a refresh and a hit; the budget of 7 ticks is
reached by hints of 3 and 7 and by jittered backoff; pages of one entry over four
maps put a change between any two pages; two runners and one crash cover a
restart and a race. *Game rigs*: two callers and two ids; two jobs with two ghosts,
one retry and a breaker that opens after one failure; three replays are the
smallest number for which the cohorts' bands are used (`SmallMapN`).
*Stages*: two passes, one error, one kill, one command by hand and one new ingest;
three maps (one strong, one broken) and two builders; one rescoring over three base maps
(linked checkpoints, plain ones, and a start that is also the finish);
beam widths 1 and 3 with a depth of 5 over bases of four cells. *Corridors*: 2 x 3 cells hold a
detour, a dead end and a decoration between two roads; two parses; captures of up
to six samples; three commands that change what route extraction reads and one kill.
*Walkers*: 5 x 3 x 5 cells; a wide block of three cells, one two cells tall and a clip walker
of six expansions make the search back up over blocks of more than one cell;
three maps, two builds and one failure for the statistics.

**Deadlock** is checked in `store`, `rig_safety` and `corpus`. The other runs end where
a bounded number of commands, calls or attempts is spent, and the worker of `actions`
rests when no browser asks.

**Fairness.** Rig: weak fairness of each agent's and plugin's own steps
(threads of running processes), of the clock, and of `Restart` where a supervisor
is assumed (`MayRestart`); nothing about the game, operators or failures.
Corpus: weak fairness of a started run and of starting runs with
`--retry-transient`, the operator's part; nothing about ingestion. Actions: strong
fairness of the runner thread, because it takes locks that pollers release
again and again, and weak fairness of readers that hold a lock; nothing about the
subprocess. Services: weak fairness of the client's steps inside a call, of
the paging loop, and of each migration runner, which is started again;
nothing about the site or the crashes. Bridge and capture: weak fairness of the plugin's
coroutine and of the driver with its plugin, whose waits all have deadlines; nothing
about callers, ghosts or reloads. Cleaning: weak fairness of a run and of
starting the next one. Stages: weak fairness of the running command and of the
script. Other parts have safety properties only.

## 4. Proofs

Eight modules hold what TLAPS checks. Each theorem is about every value of the
constants that the named assumptions of the modules allow (types of the constants,
and what the code's configuration guarantees). A hypothesis beyond those stands in
the theorem's ASSUME and is explained below; there are six (`OneProcess`, no `claimed` posted,
`OneRig`, `MaxLines <= Cap`, `OneParser`, `SmallMapN >= 3`), and for each the model has
executions that break the conclusion without it.

In every module the argument has the same shape: the property is not inductive,
because it says nothing of what a process read earlier and will use later, or of
what is still to be undone. An inductive invariant adds that, in named parts;
there is a lemma per action, and the last theorem joins them.

**`JobStoreProofs`**, under `OneProcess` (all requests are served by one process, as
`app.run(..., threaded=True)` does; `store_two_workers_claim` is the counterexample
without it):

* `StoreInvariant`, `GrantsAreOwned`: an agent is only handed a job that the table
  says is its own. `GrantedToOwner` is not inductive: the reply is read after the
  lock is released, and the update writes what an earlier select saw. `StoreInv`
  adds why that is safe: `LockHeld` (a thread between select and update is the one that
  holds the lock), `SelectionCurrent` (what it selected is still so), `RequestInv` (a
  pending reply is about a job the agent owns), `QueuedUnowned` (an owned job never
  returns to the queue) and the types;
* `RowsAreTrue`: no early timeout, files kept, claims by agents. It assumes that nobody
  posts the status `claimed`, which `storage.py:67` allows and no client does: such a
  job has neither agent nor claim time. `RowsInv` adds what requests under way
  may still write (`PostsPosted`) and which files they are about to record;
* `VerdictsAreFinal`: no step changes a row that has a verdict;
* `StoreKeepsPromise`: `Spec => Queue!Spec`, the refinement of `JobLifecycle`. `TableSteps`
  says how any step may change the table, from which finality and refinement follow.

**`RigProofs`**, for any number of rigs, jobs, failures and restarts:

* `PluginIsSafe`: no trigger disappears under the plugin, and a job runs in the game at most
  twice, and once more for each of its runs that a crash of the game cut short. The second run is
  the price of the acknowledgement, which removes the report and not the trigger; a
  restarted game adds to it because its plugin finds the trigger without a report;
* `VerdictsAreEarned`: complete only after a run, and a clean stop;
* `SingleRigReports`: with one rig (`OneRig`), telemetry that was read reaches the
  server. With two, a sweep on behalf of one can time out the other's job.

`RigInv` is what makes it go through. Who owns a job (`Owners`) decides whose
trigger a file is (`Folder`) and whose list it may be in (`Listed`). `Budget`
counts the runs a job may still cost: those it had, one if it is listed, one if a scan
would list it, one if its report may yet be removed; the sum never exceeds two plus the
runs cut short, and only a crash in the middle of a run raises that bound. `Earned` traces a
report back to a run, `Handled` says that while nothing has failed a job that is not over is
in its owner's hands.

**`Orders`** holds what several proofs need of finite sets and sequences. Where the code
sorts, the model has `Ordered(S, R)`, the members of S in the order of R; the lemmas say that
each rank has one member and each member one rank, that the members come in order, and that
`Smallest` and `Largest` exist. They stand in for an induction over data, which the prover
has not: `HoldsAlong` and `RowsExist` say, by well-founded induction on the index, that
what holds of the first row and is handed on holds of every row of a loop, and
`SumOverCounts` that the counts of a partition add up to the size of the whole.

**`WorkProofs`**. *Corpus*, for any maps, shards, versions, attempts and mishaps:

* `TableIsSound`: `BlocksWithStatus`, `RecordedIsStored`, `Provenance`. `Lists` is the
  interesting part: what a parser fetched minutes ago is still so when it writes,
  because shards are disjoint and ingestion changes no status. `Scenery` says which maps
  may lack their scenery;
* `ParsedIsKept`: no step takes back a success (except for maps parsed before the
  scenery columns, see `corpus_retrofill`): the safety half of `MapsGetParsed`.

*Action worker*, for any number of request threads, runs and lines:

* `WorkerIsHonest`: one action at a time, a final status comes with its exit code, a 404
  is earned. `Threads` relates a run's status, its exit code and the place of its thread;
  `Polls` says that what `to_dict` has read so far agrees with the run, although it and
  `_finish` hold different locks; `Lookups` does the same for `_find_run`;
* `ReadersAreTold`: a stream that ends has sent every line, if `MaxLines <= Cap`. Once
  the deque drops a line, a cursor counts positions and no longer lines
  (`actions.py:429`).

*Route extraction*, for any library of replays, changes of cohort, edits and kills:

* `RoutesAreTrue`: `RoutesTrue`. `Underway` says what the command holds between reading
  the cohort and inserting the row: the replays it loaded, of that map and whole, and a
  file that is already written; `Loadable` which sidecars may be loaded at all;
  `RowsMade` that a row was made by one such run. That the seed has as many slower
  as faster replays beside it is the rank lemma at the median; that the bins tile the
  span is arithmetic on the least and largest arc.

**`ServiceProofs`**:

* `FetchIsSafe`: rate, budget, hints and the cache of the HTTP client, for any rate,
  burst and jitter. `Bucket` (what was spent above the refill rate is missing from the
  bucket) and `Waits` (an attempt has waited for one token at most) carry the two
  arithmetic bounds, `Cached` the file's way from temporary name to entry;
* `ListingIsRight`: the listing yields no map twice and misses none that stays online,
  for any page size, limit and age of the cached pages. `Cache` says that a page is the newest part
  of what was older than its cursor, `Descent` that the cursor only goes down, `Coverage`
  that a map to be kept was yielded, is on the page in hand or is still below;
* `SchemaIsSound`: any number of runners, files, statements and deaths. `Progress`
  says what a runner has executed and which applied files it has found unedited;
* `FilesAreKept`: files named by a row exist, sidecars are whole, with one parser process
  (`OneParser`; two of them share the temporary name, `pipeline.py:867`). `Names` says that
  a file has one name at most, `Parsing` that the parser still writes to the file its
  temporary name stands for.

**`GameRigProofs`**:

* `CallersAreTold`: callers of the editor bridge are told what happened, and no command is
  carried out twice. `Once` says where the traces of a command are that was carried
  out: while its file remains, in its result or in the plugin's hands;
* `CapturesAreSound`: telemetry reported ok is anchored where its ghost appeared, its
  clock starts at zero and its speeds are those of the car; no appearance is missed, and
  the breaker stops the batch. `Counted` relates the streak to the failures at the
  end of the tally; `AnchoredClock` and `AnchoredVelocities` are the facts about the
  adapter's operators;
* `CleaningIsSound`: a clean verdict means what the rules say, crumbs are in order, and no
  cohort of an assigned map is empty, for any telemetry, any number of replays and any
  finish times, with the bands the code defaults to and `SmallMapN >= 3`, its default
  (`cohorts.py:28`). The n - 1 of the percentile is why 3 matters: with two replays
  none lies in the middle band. `ProbeOk` says that what is judged has been loaded, so its clocks are
  in order; the rank lemmas find a replay in each band.

**`StageProofs`**:

* `EdgesAreSound`, whatever the builders' interleaving, crashes and newer parses. `Claims`
  (a claim is won once and merged once) is why a map is not counted twice; `Counts`
  says what the counts of a pair are, for every pair;
* `StagesAreInOrder`, `FreshAfterGoodPasses`, for any number of ingests, errors, losses, passes
  and commands by hand, the stages of the script among them. What holds of the script does not
  hold of every order of commands: an operator who scores after a pass that broke off
  reads wiped columns, and an item that failed once stays stale under any number of good
  passes. The theorems say exactly when. Scoring reads wiped columns only by hand, and only if
  the last pass did not get to its end or evidence or corridors were rebuilt by hand after it; what is
  left behind is on record in a row that does not say success, and never by a pass that returned
  only 0; the other items are as new as the pass, unless something was rebuilt by hand
  since. `InStep` relates a command's place to its row and status: from the shapes of the
  handlers, a row is open only where the command works, writes or closes. `RowKept` and
  `OwedKept` tie what was left behind to such a row, while it is open and after. `Refilled` says that a
  stage the script is past has refilled what a rebuild reset (`Lost`), because every
  stage it resets for comes later, and `Whole` what of that lasts between the passes. `Ahead` says that
  what the stages behind have derived reflects the maps of this pass and the replays of the pass
  before; it needs `Washed`, the same for the cleaned replays, which feed stages that
  run before `replay-clean`. `Loud` says that what was left behind in the pass under way has cost it
  its exit code. The tolerated exit code of `replay-clean` is why a pass under way, not
  only a good one, appears in the invariant.

* `SynthesisIsSound`: for any map, priors, beam width and depth, the synthesised blocks
  share no cell with each other or with an anchor, a verified route has no hole, and the
  beams of an interval move together. `BeamsFit` is the strengthening: the blocks of
  every live beam stand in its own cells, which are free, apart and lead from the anchor on the
  left to where the beam is; `BuiltHolds` says the same of the intervals already built. Beams arrive together,
  so the code's list of completed beams never competes with live ones;
* `VerifiedCanBeDriven`: a verified artifact leads from Spawn (if the map has one) over every linked
  checkpoint in order to Goal, and stripping took nothing from under it. `RouteIsLap`
  follows the anchors' order through the chosen corridors; `StripIsSound` shows that what
  the validators look at (the cell, the one below, the ones beside it) is kept;
* `LearnedScoreDecides`: fewer than `TopK` corridors of the interval have a better learned score
  than the chosen one. The candidates are ordered by a tuple of keys; `EarlierOrders` says
  that the order is total, `PickedIsTop` that what comes before a candidate bounds its rank,
  whatever the validators reorder among the first `TopK`.

**`WalkerProofs`**, for every catalogue, grammar, set of jumps and clips, and request:

* `StackKeepsGround`: a builder that places blocks on free cells and gives a block's
  cells back when it takes it away holds exactly the ground under its blocks, and no
  two of them overlap. Neither half is inductive alone: giving cells back keeps the
  occupancy right only because footprints are disjoint, and a new block is disjoint from
  the others only because the occupancy is right;
* `GrammarWalksAsStack`, `ClipsWalkAsStack`: both walkers implement it, step by step;
* `GrammarRoutesAllowed`: a closed route is attested move by move, leads from a Start to a
  Finish, has the length and surfaces asked for, and no column is over its levels;
* `ClipRoutesRun`: a closed route runs from its start to a finish over ports that meet face
  to face with the same clip, and its arrows point to the next block.

The walkers' invariants speak of moves not yet made: every *untried* move of every
placement `Follows` the placements before it, so a search that backs up and takes another
one is still right. The count of levels is kept as an inequality (a column counts
at least the blocks over it), because the code counts the start once per
cell. `GridAssumption` says of the catalogue what the loader does
(`catalogue/loader.py`: variants are anchored, ports are on units). The vocabulary
is built in rounds; that it holds only pieces of the grammar is proved by well-founded
induction on the round (`LeastNat`). TLC checked `WalkerInv` and `ClipInv` on the instance
of the run `walkers`. In the same module, about `TelemetryStages`:

* `CoverageAddsUp`: for every capture and layout, the counts of a coverage row add up, its gap is a run of
  samples within the totals, and the terrain cells on record are those of one row. The row is
  made by two loops, whose rows are followed by `HoldsAlong`; `CoverageInv` keeps what they
  yield for each stored row, and for the terrain of the last;
* `DrivenPathIsBest`: the sequence of blocks the Viterbi search returns costs no more than any
  other over the same candidates, every sample over a placement has a candidate, and the visits
  tile the samples. `SearchInv` has the dynamic program in it: each column
  of costs is a lower bound of every sequence that ends there, and exact on the one
  the back pointers spell, which is read from the end. Costs are integers with the
  order of the code's floats.

and about `BlockStatistics`:

* `StatisticsAreSound`: for any maps, layouts and corridors, however the commands fail or are
  killed and whichever corridors are rebuilt in between, the pair table covers the triple table
  (unless a reset was cut between its two `TRUNCATE`s), a meeting of two ports counts alike from both
  sides, and a corridor's score is a mean in [0, 1]. `Cover` says of two tables that a pair was counted at least as often as
  the triples it begins, or ends, taken together; it holds of one map's counts because each window of
  three begins, and ends, with a window of two, and adding or writing both tables keeps it.
  The sums of the tables are those of `Orders`, and the score of a path is a
  recursive function over its steps.

**Only model-checked.** All liveness (`MapsGetParsed`, `BusyEnds`, `WorkEnds`, `RigsComeBack`,
`EveryReplayJudged`, `PipelineEnds`, `WaitsEnd`): fairness and ENABLED are out of the prover's
reach. What the recursive operators of `CorridorGraph`, `CorridorStages` and `MCWalkers`
compute (`ScoresFollowEvidence`, `EnumerationSound`, `VerdictsAgree`,
`ExhaustedHasNoRoute`): a module with RECURSIVE operators cannot be proved about.

## 5. Where the code and its documentation disagree

The three violation runs are explained in `PROJECT.json` "findings". Met while
modelling, and not given a run of their own:

*Remote tests.*
* Two enqueues of one artifact can leave a queued job whose file the second is
  rewriting (`src/remote_test/storage.py:180`, against the comment at 169); a crash in
  `write_bytes` makes every later enqueue of the map a "collision" (174).
* Two worker processes can also overwrite a verdict: `transition` checks in one
  statement and writes in another (`storage.py:256-272`).
* `POST /jobs/{id}/status` with `claimed` leaves a job without agent and claim
  time, which no sweep ends (`storage.py:67`).
* The sweep has no slack, the agent's wait has: with a second rig polling, a late
  report is answered 409 and logged as success (`storage.py:330`,
  `src/remote_test_agent/README.md:75`). The sweep runs only when an agent polls, so a
  lone dead agent does hold its job for ever (`server.py:173`).
* The report is deleted before it is posted (`agent.py:211`, against
  `remote_test_agent/README.md:55`); a report read half-written is removed and becomes
  `timed_out` (`plugin_io.py:197`).
* A refused connection ends the agent, although "only unrecoverable config / auth
  errors raise" (`agent.py:9, 83`).

*Dashboard.*
* A stream loses lines once the deque is full (`tools/dashboard_web/actions.py:429`,
  against 410); one that stops at its idle timeout sends `event: done` with status
  `running` (`app.py:562-568`).
* `to_dict` may show a final status with `completed_at` still null
  (`actions.py:291-295`). Output that does not decode ends the run and leaves its process
  alive (385-391); a thread that cannot start leaves the worker busy (357).

*Ingestion, parsing, storage.*
* Listing a parsed map again overwrites the parser's `has_items`
  (`src/ingestion/orchestrator.py:201`, against `tmx.py:195`) and, when the map was
  edited, its file but not its block rows (`orchestrator.py:254`).
* List pages are cached without expiry, so the "newest first" listing
  (`orchestrator.py:289-293`) never shows maps uploaded after the first run.
* Two parsers of one artifact share its temporary sidecar name and can install a mixed
  file (`src/parsers/pipeline.py:867`, against 766-767).
* A migration with a strict `ADD COLUMN` that dies before its record fails on
  every later run (`src/storage/mariadb.py:191`).

*Stages.*
* `run_pipeline.sh:18` promises a non-zero exit if any stage fails; a failing
  `replay-clean` exits 1 like a partial one and is tolerated.
* `close_stage_run` commits on the connection it shares with the stage, so it commits
  what a failed stage had written (`src/ingestion/orchestrator.py:133`).
* `compute-telemetry-coverage` reads `cache_map_id` before it is assigned when
  the first map has no cache (`src/cli/__main__.py:229`).
* The parse stages take only `unparsed` rows (`src/parsers/pipeline.py:138-143`) and the script does
  not pass `--retry-transient` (`run_pipeline.sh:47`): a later pass of only zeros leaves what failed
  once as it is. The dashboard's `score-corridors` (`tools/dashboard_web/actions.py:241`) asks
  nothing about the last pass: pressed after one that broke off, it reads wiped columns.
* A claimed map whose merge fails is never merged (`src/constraints/README.md:66-67`);
  edge counts of an earlier parse are not taken back (`constraints/nodes.py:78`).
* A map whose new enumeration is empty keeps its old corridors
  (`src/corridor/traversability/route_corridors.py:176-177`, against 18-19);
  `path_support_count` of an edge no path uses any more is never reset.
* `build_block_transition_counts` speaks of one pass for pairs and triples; each
  reads the database for itself (`src/constraints/block_transitions.py:333-336`). Its
  two `TRUNCATE`s commit separately (389-390), a failed map's partial counts are
  committed with the next map's (369), and counts double without `--reset`.

*Replays, telemetry, routes.*
* `clean_status` is never reset, and a sidecar that breaks the schema stops
  cleaning at its replay in every run (`src/replay/pipeline.py:102`); in `extract-route` it
  fails its whole map. Breadcrumbs do the same with a time that is no number, since `int()` raises
  no `BreadcrumbsFormatError` (`src/replay/breadcrumbs.py:122, 130, 136`, against `_as_int` at 96-105).
* `small_map_n` may be set below its default of 3 (`src/replay/cohorts.py:39`): with 2, a map with
  two replays has an empty intent cohort; with 1, a map with one replay divides by zero (73).
* The key of a coverage row omits the baked-block ingestion, and the item version is a
  constant (`src/cli/__main__.py:3193`, against `src/route/coverage_store.py:20-22`). The gate
  accepts any coverage row of a replay, also one of an earlier capture, and block
  visits stay when a replay is captured again.
* In the driven path an airborne sample over a candidate stays on the block,
  contrary to the docstring, and a respawn through `OFF_SURFACE` is cheaper than
  the teleport meant for it (`src/route/driven_path.py:85`).
* A sample at the end of the centerline belongs to no bin when the span is a
  multiple of the bin size (`src/route/extract.py:140-146`). The first route of a map and
  version is kept for ever, whatever its cohort becomes.

*Generation.*
* `_detect_and_order_anchors` says that ties are resolved by `waypoint_index`, a "DB-returned
  secondary sort" (`src/generation/assembly.py:491`); `_ANCHOR_QUERY` (438-450) has none.
* A map whose start is a `StartFinish` is enumerated from that start
  (`src/corridor/traversability/reachability.py:120`, `enumeration.py:492`) and assembled
  without its first interval, since the assembler reads `Spawn` only (`assembly.py:441`): a
  verified route then begins at the first checkpoint, although "both sides of the
  assembler/enumerator contract must agree" (487).
* The AI generator walks anchors in `waypoint_order`, whatever the tags, where its comment
  says Spawn, checkpoints, Goal (`src/generation/ai_generator.py:996-1002`); arrival
  ignores height (738); if all intervals are trivial the route is unverified without a
  reason; "backtracking falls out for free" holds only within the beam.
* Path enumeration does not list every simple path: branches share the visited set
  (`src/corridor/traversability/enumeration.py:3, 250`). Sanity checks 1 and 2 are called
  tautological and fail for anchors on decoration.
* `geom_validator`'s overlap check cannot fire for blocks of one cell; the jump docstring
  says "exceeds" where the code has `>=` (`jump_validator.py:184`).
* The grammar walker's `recent` deque loses an entry at each step back, and the
  columns of its start are counted per cell. A weight of 0.0 "bans" a block in the clip
  walker's comment, but every candidate keeps a turn.

## 6. Not modelled

Formatting, logging, configuration, parameter validation and the read-only pages
are left out. The GBX wrapper, the game, the TMX site, the databases and the
operating system are environment. Learning, evaluation, diversity and coverage reports are
floating-point statistics without state. Not modelled of the parts that are: the
placement-grammar, route-sequence, macro, jump and block-geometry miners (aggregations of
the shape of `BlockStatistics`), supports, scenery and pillars of generated maps, the GBX
writer, the natural-language front end, the Neo4j migration runner, and a rule that
raises during cleaning. Geometry that decides something is kept in integers: quarter
turns, axis-parallel distances, scores as fractions. `PROJECT.json` "components" lists
each part with its reason. Maps are assumed to have at least one block; one parser
version is in use; commands of the CLI run one at a time, as the dashboard runs them.

## 7. Plan

1. Proofs: the safety half of `EveryReplayJudged`; the corridor modules, with recursive functions in
   place of their RECURSIVE operators.
2. Modules: the placement-grammar and jump miners beside `BlockStatistics`; supports and
   pillars beside `GrammarWalker`.
