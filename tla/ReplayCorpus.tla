---------------------------- MODULE ReplayCorpus ----------------------------
(***************************************************************************)
(* The replays table and the files beside it: ReplayIngestor (src/         *)
(* ingestion/orchestrator.py) fills rows and the content-addressed store,  *)
(* ReplayParsePipeline (src/parsers/pipeline.py) turns an artifact into a  *)
(* telemetry sidecar and a breadcrumbs sidecar and then updates the row.   *)
(*                                                                         *)
(* The parse step writes through file descriptors: open("w") truncates the *)
(* file the temporary name stands for, a rename moves that file, and a     *)
(* descriptor opened earlier keeps writing to it wherever it has moved.    *)
(***************************************************************************)
EXTENDS Integers, Sequences, FiniteSets

CONSTANTS
    Replays,     \* replays of one map, in leaderboard order of the listing
    Bytes,       \* replay -> the content of its artifact (its store path)
    Parsers,     \* parse-replays processes
    PerMap,      \* per_map of the ingestor
    MaxRuns,     \* bound: parse-replays runs
    MaxDeaths    \* bound: parsers killed

Contents == {Bytes[r] : r \in Replays}
Statuses == {"unparsed", "success", "failed_transient", "failed_permanent"}

VARIABLES
    rows,      \* replay -> its row, or NoRow
    stored,    \* contents in the artifact store
    inode,     \* file -> "empty" or "whole": the sidecar files ever created
    tmpName,   \* content -> the file its .telemetry.json.tmp names (0: none)
    sidecar,   \* content -> the file its .telemetry.json names (0: none)
    crumbs,    \* contents whose breadcrumbs sidecar is in place
    ingest,    \* the ingestor: replays still to do and the one in hand
    parser,    \* parser -> where it is
    sweeps, deaths

replayVars == <<rows, stored, inode, tmpName, sidecar, crumbs, ingest, parser, sweeps, deaths>>
fileVars == <<inode, tmpName, sidecar, crumbs>>

NoRow == [present |-> FALSE, artifact |-> FALSE, status |-> "unparsed", crumbs |-> FALSE]
NewRow == [NoRow EXCEPT !.present = TRUE]
Stopped == [at |-> "off", todo |-> {}, row |-> 0, file |-> 0]

ReplayInit ==
    /\ rows = [r \in Replays |-> NoRow]
    /\ stored = {} /\ inode = <<>> /\ crumbs = {}
    /\ tmpName = [c \in Contents |-> 0] /\ sidecar = [c \in Contents |-> 0]
    /\ ingest = [at |-> "off", todo |-> {}, row |-> 0]
    /\ parser = [p \in Parsers |-> Stopped]
    /\ sweeps = 0 /\ deaths = 0

-----------------------------------------------------------------------------
(* ReplayIngestor._process_map for one map. *)

\* list the map's replays; a listing that fails or is empty ends the map
ListReplays ==
    /\ ingest.at = "off"
    /\ \E some \in SUBSET Replays :
         /\ Cardinality(some) <= PerMap /\ some # {}
         /\ ingest' = [at |-> "upsert", todo |-> some, row |-> 0]
    /\ UNCHANGED <<rows, stored, parser, sweeps, deaths, fileVars>>

\* _upsert_replay: a known replay keeps its status, its artifact and its sidecars
Upserted(r) == IF rows[r].present THEN rows ELSE [rows EXCEPT ![r] = NewRow]
UpsertReplay(r) ==
    /\ ingest.at = "upsert" /\ r \in ingest.todo
    /\ rows' = Upserted(r)
    /\ ingest' = [at |-> "download", todo |-> ingest.todo \ {r}, row |-> r]
    /\ UNCHANGED <<stored, parser, sweeps, deaths, fileVars>>

\* _fetch_and_store_artifact: the download fails, or store.write and then the row
AfterRow == [ingest EXCEPT !.at = IF ingest.todo = {} THEN "off" ELSE "upsert", !.row = 0]
DownloadFails ==
    /\ ingest.at \in {"download", "record"}
    /\ ingest' = AfterRow
    /\ UNCHANGED <<rows, stored, parser, sweeps, deaths, fileVars>>
StoreArtifact ==
    /\ ingest.at = "download"
    /\ stored' = stored \cup {Bytes[ingest.row]}
    /\ ingest' = [ingest EXCEPT !.at = "record"]
    /\ UNCHANGED <<rows, parser, sweeps, deaths, fileVars>>
RecordReplayArtifact ==
    /\ ingest.at = "record"
    /\ rows' = [rows EXCEPT ![ingest.row].artifact = TRUE]
    /\ ingest' = AfterRow
    /\ UNCHANGED <<stored, parser, sweeps, deaths, fileVars>>

-----------------------------------------------------------------------------
(* ReplayParsePipeline, one parser process p. *)

Work(p, fields) == parser' = [parser EXCEPT ![p] = fields]
NextRow(p) == [parser[p] EXCEPT !.at = "pick", !.row = 0, !.file = 0]

\* _fetch_unparsed_replays: the list is read once, at the start of the run
Unparsed(retry) ==
    {r \in Replays : /\ rows[r].present /\ rows[r].artifact
                     /\ rows[r].status \in {"unparsed"} \cup
                            (IF retry THEN {"failed_transient"} ELSE {})}
StartParsing(p) ==
    /\ parser[p].at = "off" /\ sweeps < MaxRuns
    /\ \E retry \in BOOLEAN :
         /\ Unparsed(retry) # {}
         /\ Work(p, [Stopped EXCEPT !.at = "pick", !.todo = Unparsed(retry)])
    /\ sweeps' = sweeps + 1
    /\ UNCHANGED <<rows, stored, ingest, deaths, fileVars>>
PickReplay(p) ==
    /\ parser[p].at = "pick"
    /\ \/ /\ parser[p].todo = {} /\ Work(p, Stopped)
       \/ \E r \in parser[p].todo :
            Work(p, [parser[p] EXCEPT !.at = "parse", !.todo = @ \ {r}, !.row = r])
    /\ UNCHANGED <<rows, stored, ingest, sweeps, deaths, fileVars>>

\* _process_one: no file, a wrapper that crashes or reports a failure, or a payload
SetStatus(r, status) == rows' = [rows EXCEPT ![r].status = status]
ParseFails(p) ==
    /\ parser[p].at = "parse"
    /\ \E status \in {"failed_transient", "failed_permanent"} : SetStatus(parser[p].row, status)
    /\ Work(p, NextRow(p))
    /\ UNCHANGED <<stored, ingest, sweeps, deaths, fileVars>>
ParseWorks(p) ==
    /\ parser[p].at = "parse" /\ Bytes[parser[p].row] \in stored
    /\ Work(p, [parser[p] EXCEPT !.at = "open"])
    /\ UNCHANGED <<rows, stored, ingest, sweeps, deaths, fileVars>>

\* Mutant: the sidecar is written in place.
OpenInPlace(p) ==
    /\ parser[p].at = "open"
    /\ LET c == Bytes[parser[p].row] IN
       /\ inode' = Append(inode, "empty")
       /\ tmpName' = [tmpName EXCEPT ![c] = Len(inode) + 1]
       /\ sidecar' = [sidecar EXCEPT ![c] = Len(inode) + 1]
       /\ Work(p, [parser[p] EXCEPT !.at = "dump", !.file = Len(inode) + 1])
    /\ UNCHANGED <<rows, stored, ingest, sweeps, deaths, crumbs>>

\* _write_success: open the temporary file, dump into it, rename it over the sidecar
OpenScratch(p) ==
    /\ parser[p].at = "open"
    /\ LET c == Bytes[parser[p].row]
           f == IF tmpName[c] # 0 THEN tmpName[c] ELSE Len(inode) + 1 IN
       /\ inode' = IF tmpName[c] # 0 THEN [inode EXCEPT ![f] = "empty"] ELSE Append(inode, "empty")
       /\ tmpName' = [tmpName EXCEPT ![c] = f]
       /\ Work(p, [parser[p] EXCEPT !.at = "dump", !.file = f])
    /\ UNCHANGED <<rows, stored, ingest, sweeps, deaths, sidecar, crumbs>>
DumpSidecar(p) ==
    /\ parser[p].at = "dump"
    /\ inode' = [inode EXCEPT ![parser[p].file] = "whole"]
    /\ Work(p, [parser[p] EXCEPT !.at = "rename"])
    /\ UNCHANGED <<rows, stored, ingest, sweeps, deaths, tmpName, sidecar, crumbs>>
RenameSidecar(p) ==
    /\ parser[p].at = "rename" /\ tmpName[Bytes[parser[p].row]] # 0
    /\ LET c == Bytes[parser[p].row] IN
       /\ sidecar' = [sidecar EXCEPT ![c] = tmpName[c]]
       /\ tmpName' = [tmpName EXCEPT ![c] = 0]
    /\ Work(p, [parser[p] EXCEPT !.at = "crumbs"])
    /\ UNCHANGED <<rows, stored, ingest, sweeps, deaths, inode, crumbs>>

\* a payload with breadcrumbs gets a second sidecar; one without leaves the column NULL
WriteCrumbs(p) ==
    /\ parser[p].at = "crumbs"
    /\ \/ crumbs' = crumbs \cup {Bytes[parser[p].row]} /\ Work(p, [parser[p] EXCEPT !.at = "updateCrumbs"])
       \/ crumbs' = crumbs /\ Work(p, [parser[p] EXCEPT !.at = "update"])
    /\ UNCHANGED <<rows, stored, ingest, sweeps, deaths, inode, tmpName, sidecar>>

\* the sidecar cannot be written (or its temporary name is gone): failed_transient
SidecarFails(p) ==
    /\ parser[p].at \in {"open", "dump", "rename", "crumbs"}
    /\ SetStatus(parser[p].row, "failed_transient")
    /\ Work(p, NextRow(p))
    /\ UNCHANGED <<stored, ingest, sweeps, deaths, fileVars>>

\* _UPDATE_REPLAY_SUCCESS_SQL and commit, or a database error and rollback
UpdateSuccess(p) ==
    /\ parser[p].at \in {"update", "updateCrumbs"}
    /\ rows' = [rows EXCEPT ![parser[p].row].status = "success",
                            ![parser[p].row].crumbs = parser[p].at = "updateCrumbs"]
    /\ Work(p, NextRow(p))
    /\ UNCHANGED <<stored, ingest, sweeps, deaths, fileVars>>
UpdateFails(p) ==
    /\ parser[p].at \in {"update", "updateCrumbs"}
    /\ Work(p, NextRow(p))
    /\ UNCHANGED <<rows, stored, ingest, sweeps, deaths, fileVars>>

ParserDies(p) ==
    /\ parser[p].at # "off" /\ deaths < MaxDeaths
    /\ deaths' = deaths + 1
    /\ Work(p, Stopped)
    /\ UNCHANGED <<rows, stored, ingest, sweeps, fileVars>>

IngestNext ==
    \/ ListReplays \/ (\E r \in Replays : UpsertReplay(r))
    \/ DownloadFails \/ StoreArtifact \/ RecordReplayArtifact
ParserNext(p) ==
    \/ StartParsing(p) \/ PickReplay(p) \/ ParseFails(p) \/ ParseWorks(p)
    \/ OpenScratch(p) \/ DumpSidecar(p) \/ RenameSidecar(p) \/ WriteCrumbs(p)
    \/ SidecarFails(p) \/ UpdateSuccess(p) \/ UpdateFails(p) \/ ParserDies(p)
ReplayNext == IngestNext \/ \E p \in Parsers : ParserNext(p)

-----------------------------------------------------------------------------
\* A replay that counts as parsed has its telemetry sidecar on disk, whole ("Sidecar
\* writing is atomic", pipeline.py:766), through failures and deaths of the parser at any
\* step; replays with the same artifact share the sidecar.
SidecarWhole ==
    \A r \in Replays : rows[r].status = "success" =>
        /\ sidecar[Bytes[r]] # 0
        /\ inode[sidecar[Bytes[r]]] = "whole"

\* A row points at an artifact only when the store has its bytes, and at breadcrumbs only
\* when their sidecar is there, whoever downloaded or parsed first.
RowsPointAtFiles ==
    \A r \in Replays :
        /\ rows[r].artifact => Bytes[r] \in stored
        /\ rows[r].crumbs => Bytes[r] \in crumbs

\* What a replay's row names is there and whole: the two conditions above.
ReplayFilesKept == SidecarWhole /\ RowsPointAtFiles
=============================================================================
