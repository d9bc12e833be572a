------------------------------- MODULE JobRows -------------------------------
(***************************************************************************)
(* The `jobs` table of the remote-test queue: what each INSERT, UPDATE and *)
(* WHERE clause of JobStore does.  The operators are pure; JobStore.tla    *)
(* says when and under which lock they are applied.                        *)
(*                                                                         *)
(* A row's id is its position in the sequence `jobs`: ids come from        *)
(* AUTOINCREMENT and no row is ever deleted.  `swept` stands for the       *)
(* ' | swept by server' suffix of the `detail` column; the rest of that    *)
(* column, run_id and metadata are opaque text no decision depends on.     *)
(***************************************************************************)
EXTENDS JobStates, Integers, Sequences

CONSTANTS Artifacts,  \* SHA-256 digests, which are also the file names
          Reports,    \* telemetry reports
          NoReport,   \* NULL in the report_json column
          Timeouts    \* values of timeout_seconds clients ask for

\* Clients ask for positive timeouts (enqueue refuses the others) and the
\* NULLs are no value of their columns.
ASSUME RowAssumption == /\ NoAgent \notin Agents
                        /\ NoReport \notin Reports
                        /\ Timeouts \subseteq Nat \ {0}

Never == -1           \* NULL in a timestamp column

Row == [status : JobStatus, agent : Agents \cup {NoAgent},
        art : Artifacts, timeout : Timeouts,
        created : Nat, claimed : Nat \cup {Never},
        completed : Nat \cup {Never},
        report : Reports \cup {NoReport}, swept : BOOLEAN]

\* INSERT INTO jobs: a queued row.
NewRow(art, timeout, now) ==
    [status |-> "queued", agent |-> NoAgent, art |-> art,
     timeout |-> timeout, created |-> now, claimed |-> Never,
     completed |-> Never, report |-> NoReport, swept |-> FALSE]

\* The UPDATE of claim_next.
ClaimedRow(row, a, now) ==
    [row EXCEPT !.status = "claimed", !.agent = a, !.claimed = now]

\* Mutant: a request without a report clears the column.
MovedRowNoCoalesce(row, to, rep, now) ==
    [row EXCEPT !.status = to, !.report = rep,
                !.completed = IF to \in Terminal THEN now ELSE @]

\* The UPDATE of transition: COALESCE keeps a report or a completion time
\* the request does not bring.
MovedRow(row, to, rep, now) ==
    [row EXCEPT !.status = to,
                !.report = IF rep = NoReport THEN @ ELSE rep,
                !.completed = IF to \in Terminal THEN now ELSE @]

\* The WHERE clause and the UPDATE of sweep_timeouts.
Expired(row, now) ==
    /\ row.status \in {"claimed", "running"}
    /\ row.claimed # Never
    /\ now - row.claimed > row.timeout

SweptRow(row, now) ==
    [row EXCEPT !.status = "timed_out", !.completed = now, !.swept = TRUE]

Queued(jobs) == {i \in DOMAIN jobs : jobs[i].status = "queued"}

\* ORDER BY created_at ASC, id ASC LIMIT 1
IsOldestQueued(jobs, i) ==
    /\ i \in Queued(jobs)
    /\ \A k \in Queued(jobs) :
          \/ jobs[i].created < jobs[k].created
          \/ jobs[i].created = jobs[k].created /\ i <= k
=============================================================================
