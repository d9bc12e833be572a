------------------------------ MODULE MapCorpus ------------------------------
(***************************************************************************)
(* The `maps` table and its block rows, from ingestion to parsing.         *)
(*                                                                         *)
(* MapIngestor upserts a row per listed map, stores the downloaded file    *)
(* under its hash and records the hash in the row.  MapParsePipeline runs  *)
(* as ShardCount processes; each fetches its share of the rows that want   *)
(* parsing once, and then works through that list: what a row said at the  *)
(* fetch may be out of date when its result is written.  A full parse      *)
(* writes blocks and status in one transaction, replayed when the database *)
(* reports a deadlock; block_placements has a unique key per map, parser   *)
(* version and index, so blocks cannot be inserted twice.                  *)
(*                                                                         *)
(* One parser version is in use.  A map has at least one block.  A file is *)
(* identified by the number of the edit of the map it holds; 0 is NULL.    *)
(* A run with --limit n behaves as one that ends early (RunEnds).          *)
(***************************************************************************)
EXTENDS Integers, FiniteSets

CONSTANTS Maps,         \* ids of maps rows
          Legacy,       \* maps parsed before the scenery columns existed
          Corrupt,      \* maps whose files do not parse
          Edited,       \* maps whose authors upload new versions
          ShardCount,   \* --shard-count
          MaxAttempts,  \* _DEADLOCK_MAX_ATTEMPTS
          MaxArt,       \* bound: versions of a map's file on the site
          MaxMishaps     \* bound: flaky outcomes, database errors, dead runs

ASSUME CorpusAssumption ==
    /\ Maps \subseteq Nat
    /\ Legacy \subseteq Maps /\ Corrupt \subseteq Maps \ Legacy
    /\ Edited \subseteq Maps
    /\ {ShardCount, MaxAttempts, MaxArt} \subseteq Nat \ {0}
    /\ MaxMishaps \in Nat

Workers == 0..(ShardCount - 1)   \* a process is named after its --shard-index

-----------------------------------------------------------------------------
(* What one invocation of the GBX wrapper means: SubprocessParser turns    *)
(* every way the process can end into a ParseResult, and the taxonomy of   *)
(* errors.py says which failures are worth a retry.                        *)

ParseStatus == {"unparsed", "success", "failed_transient", "failed_permanent"}

\* How an invocation can end: the process is not started, is killed at its
\* timeout, exits with an error, prints something that is not the protocol,
\* or prints a result: success, or an error code of the taxonomy.
ReportedCodes == {"gbx_read_error", "unsupported_format", "corrupt_header",
                  "corrupt_body", "unknown_block_type", "wrapper_timeout",
                  "wrapper_crash", "io_error", "unknown"}

Outcomes == {"timeout", "no_executable", "os_error", "bad_exit", "raised",
             "missing", "not_json", "not_object", "no_output",
             "unknown_status", "success"} \cup ReportedCodes

\* The error code each failure is given.  "missing" (the artifact is not on
\* disk) and "raised" (the client itself raised) are the caller's.
ErrorCode(outcome) ==
    CASE outcome = "timeout" -> "wrapper_timeout"
      [] outcome \in {"no_executable", "os_error", "missing"} -> "io_error"
      [] outcome \in {"bad_exit", "raised"} -> "wrapper_crash"
      [] outcome \in {"not_json", "not_object", "no_output", "unknown_status"}
            -> "unknown"
      [] OTHER -> outcome

\* Mutant: a timeout of the wrapper is not worth a retry.
NoTimeoutTransient(code) == code \in {"wrapper_crash", "io_error"}

IsTransient(code) == code \in {"wrapper_timeout", "wrapper_crash", "io_error"}

\* status_for_error, over the codes above.
ResultStatus(outcome) ==
    IF outcome = "success" THEN "success"
    ELSE IF IsTransient(ErrorCode(outcome)) THEN "failed_transient"
    ELSE "failed_permanent"

-----------------------------------------------------------------------------
VARIABLES site,     \* map -> the file the site serves
          rows,     \* the maps table, with each map's block rows
          disk,     \* artifact store: <<map, file>>
          ingest,   \* the ingestor: where it is, its map and the file it has
          todo,     \* worker -> the rows it fetched and has not finished
          wpc,      \* worker -> where it is with the first of them
          tries,    \* worker -> transactions replayed for that row
          verdict,  \* worker -> the status _write_failure will write
          mishaps

corpusVars == <<site, rows, disk, ingest, todo, wpc, tries, verdict, mishaps>>
workerVars == <<todo, wpc, tries, verdict>>

Row == [status : ParseStatus \cup {"absent"},
        deco   : {"unparsed", "success", "failed"},   \* decoration_parse_status
        art    : 0..MaxArt,            \* raw_artifact_path and _hash
        items  : {"tmx", "parsed"},    \* where has_items comes from
        blocks : 0..MaxArt,            \* the file the block rows were read from
        src    : 0..MaxArt]            \* ... and the hash they say they are from

NewRow == [status |-> "unparsed", deco |-> "unparsed", art |-> 0,
           items |-> "tmx", blocks |-> 0, src |-> 0]

Absent == [NewRow EXCEPT !.status = "absent"]

ParsedBeforeScenery == [NewRow EXCEPT !.status = "success", !.art = 1,
                                      !.items = "parsed", !.blocks = 1, !.src = 1]

\* A row as a worker fetched it; `full` is needs_full_parse.
Fetched == [id : Maps, full : BOOLEAN, art : 1..MaxArt]

CorpusInit ==
    /\ site = [m \in Maps |-> 1]
    /\ rows = [m \in Maps |-> IF m \in Legacy THEN ParsedBeforeScenery ELSE Absent]
    /\ disk = {<<m, 1>> : m \in Legacy}
    /\ ingest = [at |-> "idle", map |-> 0, art |-> 0]
    /\ todo = [w \in Workers |-> {}]
    /\ wpc = [w \in Workers |-> "idle"]
    /\ tries = [w \in Workers |-> 0]
    /\ verdict = [w \in Workers |-> "unparsed"]
    /\ mishaps = 0

Mishap == mishaps < MaxMishaps /\ mishaps' = mishaps + 1
-----------------------------------------------------------------------------
(* Ingestion *)

\* The author uploads a new version of the map.
Edit(m) ==
    /\ m \in Edited /\ site[m] < MaxArt
    /\ site' = [site EXCEPT ![m] = @ + 1]
    /\ UNCHANGED <<rows, disk, ingest, workerVars, mishaps>>

\* _upsert_map: a new row, or the listing's columns of the old one.
Upsert(m) ==
    /\ ingest.at = "idle"
    /\ rows' = [rows EXCEPT ![m] = IF @.status = "absent" THEN NewRow
                                   ELSE [@ EXCEPT !.items = "tmx"]]
    /\ ingest' = [at |-> "download", map |-> m, art |-> 0]
    /\ UNCHANGED <<site, disk, workerVars, mishaps>>

\* download_map_artifact and ArtifactStore.write (temporary file, rename).
DownloadArtifact ==
    /\ ingest.at = "download"
    /\ disk' = disk \cup {<<ingest.map, site[ingest.map]>>}
    /\ ingest' = [ingest EXCEPT !.at = "record", !.art = site[ingest.map]]
    /\ UNCHANGED <<site, rows, workerVars, mishaps>>

Record ==
    /\ ingest.at = "record"
    /\ rows' = [rows EXCEPT ![ingest.map].art = ingest.art]
    /\ ingest' = [at |-> "idle", map |-> 0, art |-> 0]
    /\ UNCHANGED <<site, disk, workerVars, mishaps>>

\* The download fails, is not asked for, or the ingestor dies.
IngestStops ==
    /\ ingest.at # "idle"
    /\ ingest' = [at |-> "idle", map |-> 0, art |-> 0]
    /\ UNCHANGED <<site, rows, disk, workerVars, mishaps>>
-----------------------------------------------------------------------------
(* Parsing *)

\* AND id % shard_count = shard_index
InShard(m, w) == m % ShardCount = w

\* The WHERE clause of _fetch_unparsed.
Wanted(row, retry) ==
    /\ row.art # 0
    /\ \/ row.status = "unparsed"
       \/ row.status = "success" /\ row.deco = "unparsed"
       \/ retry /\ row.status = "failed_transient"

Fetch(w, retry) ==
    LET mine == {m \in Maps : InShard(m, w) /\ Wanted(rows[m], retry)}
    IN  /\ wpc[w] = "idle"
        /\ mine # {}
        /\ todo' = [todo EXCEPT ![w] =
                      {[id |-> m, full |-> rows[m].status # "success",
                        art |-> rows[m].art] : m \in mine}]
        /\ wpc' = [wpc EXCEPT ![w] = "parse"]
        /\ UNCHANGED <<site, rows, disk, ingest, tries, verdict, mishaps>>

\* ORDER BY id
First(w) == CHOOSE r \in todo[w] : \A s \in todo[w] : r.id <= s.id

Goto(w, label) == /\ wpc' = [wpc EXCEPT ![w] = label]
                  /\ UNCHANGED todo

Done(w) == /\ todo' = [todo EXCEPT ![w] = @ \ {First(w)}]
           /\ wpc' = [wpc EXCEPT ![w] = IF todo[w] = {First(w)} THEN "idle"
                                                                ELSE "parse"]

Fail(w, status) == /\ Goto(w, "fail")
                   /\ verdict' = [verdict EXCEPT ![w] = status]
                   /\ tries' = [tries EXCEPT ![w] = 0]

\* What the wrapper makes of a file, and what may go wrong besides.
Usual(m) == IF m \in Corrupt THEN {"corrupt_body"} ELSE {"success"}
Flaky == {"missing", "raised", "timeout", "bad_exit"}

\* _process_one up to the result.
Parse(w) ==
    /\ wpc[w] = "parse"
    /\ \E out \in Usual(First(w).id) \cup Flaky :
          /\ IF out \in Flaky THEN Mishap ELSE UNCHANGED mishaps
          /\ IF ResultStatus(out) = "success"
             THEN /\ Goto(w, IF First(w).full THEN "write" ELSE "scenery")
                  /\ UNCHANGED <<tries, verdict>>
             ELSE Fail(w, ResultStatus(out))
    /\ UNCHANGED <<site, rows, disk, ingest>>

\* _write_parse_result: blocks, waypoints and the row, committed together.
Commit(w) ==
    /\ wpc[w] = "write" /\ rows[First(w).id].blocks = 0
    /\ rows' = [rows EXCEPT ![First(w).id] =
                  [@ EXCEPT !.status = "success", !.deco = "success",
                            !.items = "parsed", !.blocks = First(w).art,
                            !.src = First(w).art]]
    /\ Done(w)
    /\ tries' = [tries EXCEPT ![w] = 0]
    /\ UNCHANGED <<site, disk, ingest, verdict, mishaps>>

\* The unique key of block_placements refuses the INSERT.
DuplicateKey(w) ==
    /\ wpc[w] = "write" /\ rows[First(w).id].blocks # 0
    /\ Fail(w, "failed_transient")
    /\ UNCHANGED <<site, rows, disk, ingest, mishaps>>

\* Mutant: the inserted blocks are not rolled back.
DeadlockKeepsBlocks(w) ==
    /\ wpc[w] = "write" /\ Mishap
    /\ rows' = [rows EXCEPT ![First(w).id].blocks = First(w).art,
                            ![First(w).id].src = First(w).art]
    /\ IF tries[w] < MaxAttempts - 1
       THEN Goto(w, "write") /\ tries' = [tries EXCEPT ![w] = @ + 1]
            /\ UNCHANGED verdict
       ELSE Fail(w, "failed_transient")
    /\ UNCHANGED <<site, disk, ingest>>

\* A deadlock or lock-wait timeout: roll back and replay, a few times.
Deadlock(w) ==
    /\ wpc[w] = "write" /\ Mishap
    /\ IF tries[w] < MaxAttempts - 1
       THEN Goto(w, "write") /\ tries' = [tries EXCEPT ![w] = @ + 1]
            /\ UNCHANGED verdict
       ELSE Fail(w, "failed_transient")
    /\ UNCHANGED <<site, rows, disk, ingest>>

\* Any other database error.
WriteError(w) ==
    /\ wpc[w] = "write" /\ Mishap
    /\ Fail(w, "failed_transient")
    /\ UNCHANGED <<site, rows, disk, ingest>>

\* _write_scenery_only; its failure is counted and writes nothing.
SceneryOnly(w) ==
    /\ wpc[w] = "scenery"
    /\ \/ /\ rows' = [rows EXCEPT ![First(w).id].deco = "success"]
          /\ UNCHANGED mishaps
       \/ UNCHANGED rows /\ Mishap
    /\ Done(w)
    /\ UNCHANGED <<site, disk, ingest, tries, verdict>>

\* _write_failure: scenery that was parsed counts as parsed
Failed(row, status) ==
    [row EXCEPT !.status = status,
                !.deco = IF row.deco = "success" THEN "success" ELSE "failed"]
WriteFailure(w) ==
    /\ wpc[w] = "fail"
    /\ rows' = [rows EXCEPT ![First(w).id] = Failed(@, verdict[w])]
    /\ Done(w)
    /\ UNCHANGED <<site, disk, ingest, tries, verdict, mishaps>>

\* The process dies, or _write_failure itself raises out of the run: the
\* open transaction is rolled back and the rest of the list is left.
RunEnds(w) ==
    /\ wpc[w] # "idle" /\ Mishap
    /\ todo' = [todo EXCEPT ![w] = {}]
    /\ wpc' = [wpc EXCEPT ![w] = "idle"]
    /\ tries' = [tries EXCEPT ![w] = 0]
    /\ UNCHANGED <<site, rows, disk, ingest, verdict>>

RowStep(w) == \/ Parse(w) \/ Commit(w) \/ DuplicateKey(w) \/ Deadlock(w)
              \/ WriteError(w) \/ SceneryOnly(w) \/ WriteFailure(w)

IngestStep == \/ \E m \in Maps : Edit(m) \/ Upsert(m)
              \/ DownloadArtifact \/ Record \/ IngestStops

CorpusNext ==
    \/ IngestStep
    \/ \E w \in Workers : Fetch(w, TRUE) \/ Fetch(w, FALSE)
    \/ \E w \in Workers : RowStep(w) \/ RunEnds(w)

\* A run that was started goes on, and now and then the operator starts one
\* with --retry-transient.  Nothing is assumed of ingestion.
CorpusFairness == \A w \in Workers : WF_corpusVars(RowStep(w)) /\ WF_corpusVars(Fetch(w, TRUE))

CorpusSpec == CorpusInit /\ [][CorpusNext]_corpusVars /\ CorpusFairness
-----------------------------------------------------------------------------
(* Properties *)

\* Every variable has its type; in particular _write_success replays a
\* transaction fewer than _DEADLOCK_MAX_ATTEMPTS times.
CorpusTypeOK ==
    /\ site \in [Maps -> 1..MaxArt]
    /\ rows \in [Maps -> Row]
    /\ disk \subseteq Maps \X (1..MaxArt)
    /\ ingest \in [at : {"idle", "download", "record"}, map : Maps \cup {0},
                   art : 0..MaxArt]
    /\ todo \in [Workers -> SUBSET Fetched]
    /\ wpc \in [Workers -> {"idle", "parse", "write", "scenery", "fail"}]
    /\ tries \in [Workers -> 0..(MaxAttempts - 1)]
    /\ verdict \in [Workers -> ParseStatus]
    /\ mishaps \in 0..MaxMishaps

\* "Blocks + status update land together or not at all" (pipeline.py:7): a
\* map has block rows exactly when it is marked parsed, whatever deadlocks,
\* dead runs and re-ingestion come between.
BlocksWithStatus ==
    \A m \in Maps \ Legacy : rows[m].blocks # 0 <=> rows[m].status = "success"

\* The file a row names is in the store: the store is written before the row.
RecordedIsStored ==
    \A m \in Maps : rows[m].art # 0 => <<m, rows[m].art>> \in disk

\* Block rows name the file they were read from (source_artifact_ids), also
\* when ingestion replaces the map's file while it is being parsed.
Provenance == \A m \in Maps : rows[m].src = rows[m].blocks

\* The rows are sound at every moment: the three conditions above, and every
\* variable in its type.
TableSound ==
    CorpusTypeOK /\ BlocksWithStatus /\ RecordedIsStored /\ Provenance

\* Every map whose file parses is parsed in the end, if runs are repeated
\* with --retry-transient, and stays parsed: neither a second worker with an
\* old list nor a re-ingestion takes it back.
MapsGetParsed ==
    \A m \in Maps \ (Legacy \cup Corrupt) :
        rows[m].art # 0 ~> [](rows[m].status = "success")

\* So is a map whose scenery was being filled in when the wrapper failed
\* (__main__.py:3255: "re-parse maps whose previous attempt was
\* failed_transient").
RetryRecovers ==
    \A m \in Legacy :
        rows[m].status = "failed_transient" ~> rows[m].status = "success"

=============================================================================
