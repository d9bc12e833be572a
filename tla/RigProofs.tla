------------------------------ MODULE RigProofs ------------------------------
(***************************************************************************)
(* Proofs about RemoteTestRig, for any number of rigs, jobs and failures:  *)
(* no trigger disappears under the plugin, only a crash of the game buys a *)
(* job a third run, complete is earned and a stopped agent leaves nothing  *)
(* behind; and for a single rig, that telemetry it has read arrives.       *)
(*                                                                         *)
(* RigInv is inductive.  Its parts say who owns what (Owners, Folder,      *)
(* Listed), how many runs a job may still cost (Budget), where a report    *)
(* came from (Earned), and whose hands a job is in (Handled).              *)
(***************************************************************************)
EXTENDS RemoteTestRig, Orders

\* The places of the agent's code: between jobs, before the trigger of the
\* job under way is dropped, and from then on; and the plugin's inside a job.
Between == {"top", "poll"} \cup Ended
Before  == {"download", "running", "drop", "failed"}
After   == {"wait", "ack", "ship", "timed_out"}
Working == {"ready", "open", "validate", "write", "writing"}

Types == RigTypeOK /\ Len(jobs) <= MaxJobs

\* Only a claim names an owner, and an agent handles only jobs it owns.
Owners ==
    /\ \A i \in DOMAIN jobs : jobs[i].status = "queued" => jobs[i].agent = NoAgent
    /\ \A a \in Agents :
          /\ apc[a] \in Between => ajob[a] = 0
          /\ apc[a] \in Before \cup After =>
                ajob[a] \in DOMAIN jobs /\ jobs[ajob[a]].agent = a

\* A trigger belongs to a job somebody owns, it is there exactly from the drop
\* on, and a job without one was never run nor reported.
Folder ==
    /\ \A j \in JobIds : trigger[j] => j \in DOMAIN jobs /\ jobs[j].agent \in Agents
    /\ \A j \in JobIds : ~trigger[j] => runs[j] = 0 /\ report[j] = "absent"
    /\ \A a \in Agents : /\ apc[a] \in Before => ~trigger[ajob[a]]
                         /\ apc[a] \in After => trigger[ajob[a]]

\* What the plugin has listed, and what it works on, are triggers of its rig.
Listed ==
    \A a \in Agents :
        /\ \A j \in pending[a] : trigger[j] /\ jobs[j].agent = a
        /\ ppc[a] \in Working => /\ pjob[a] \in JobIds \ pending[a]
                                 /\ trigger[pjob[a]] /\ jobs[pjob[a]].agent = a
                                 /\ runs[pjob[a]] > 0
        /\ ppc[a] \notin Working => pjob[a] = 0

\* What job j of agent a may still cost in runs: one if it is listed, one if a
\* scan would list it, one if its report may yet be removed; a crash in the
\* middle of its run raises what it may cost by one.
Bit(b) == IF b THEN 1 ELSE 0
Scannable(a, j) ==
    /\ report[j] = "absent" /\ j \notin pending[a]
    /\ ~(pjob[a] = j /\ ppc[a] # "writing")
Removable(a, j) == ajob[a] = j /\ apc[a] \in {"wait", "ack"}
Budget ==
    \A a \in Agents, j \in JobIds : trigger[j] /\ jobs[j].agent = a =>
        runs[j] + Bit(j \in pending[a]) + Bit(Scannable(a, j)) + Bit(Removable(a, j))
           <= 2 + cut[j]

\* A report, read or not, was written by a run.
Earned ==
    /\ \A j \in JobIds : report[j] # "absent" \/ j \in acked => runs[j] > 0
    /\ \A a \in Agents : /\ apc[a] = "ack" => runs[ajob[a]] > 0
                         /\ apc[a] = "ship" => ajob[a] \in acked
    /\ CompleteIsEarned

\* While nothing fails, a job that is not over is in its owner's hands.
Handled ==
    faults = 0 => \A i \in DOMAIN jobs : jobs[i].agent # NoAgent =>
                     jobs[i].status \in Terminal \/ ajob[jobs[i].agent] = i

RigInv == Types /\ Owners /\ Folder /\ Listed /\ Budget /\ Earned /\ Handled

\* With one rig nobody but its owner ends a job that is under way, but who cancels it.
OneRig == \A a, b \in Agents : a = b
Undisturbed ==
    faults = 0 =>
        /\ \A a \in Agents : apc[a] \in After \cup Before =>
              jobs[ajob[a]].status \in {"claimed", "running", "cancelled"}
        /\ TelemetryKept
-----------------------------------------------------------------------------
(* The server's operations on the table *)

RowType == [status : JobStatus, agent : Agents \cup {NoAgent},
            report : BOOLEAN, age : 0..(Timeout + 1)]

LEMMA Constants ==
    /\ MaxJobs \in Nat /\ MaxFaults \in Nat /\ Extra \in Nat
    /\ Timeout \in Nat \ {0} /\ OpenWait \in Nat \ {0} /\ ValidateWait \in Nat \ {0}
    /\ MayRestart \in BOOLEAN /\ MayStop \in BOOLEAN
  BY RigAssumption

\* What a table is, for the solvers.
LEMMA TableFacts ==
    ASSUME NEW table \in Seq(RowType)
    PROVE  /\ Len(table) \in Nat /\ DOMAIN table = 1..Len(table)
           /\ \A i \in DOMAIN table :
                 /\ i \in Nat /\ i # 0 /\ table[i] \in RowType
                 /\ table[i].status \in JobStatus
                 /\ table[i].agent \in Agents \cup {NoAgent}
                 /\ table[i].report \in BOOLEAN
                 /\ table[i].age \in 0..(Timeout + 1)
  <1>1. /\ Len(table) \in Nat /\ DOMAIN table = 1..Len(table)
        /\ \A i \in DOMAIN table : table[i] \in RowType
    OBVIOUS
  <1>2. \A row \in RowType : /\ row.status \in JobStatus /\ row.report \in BOOLEAN
                             /\ row.agent \in Agents \cup {NoAgent}
                             /\ row.age \in 0..(Timeout + 1)
    BY DEF RowType
  <1> HIDE DEF RowType
  <1> QED
    BY <1>1, <1>2

\* A table whose rows are rewritten in place is a table of the same length.
LEMMA Rewritten ==
    ASSUME NEW table \in Seq(RowType), NEW new,
           new = [i \in DOMAIN table |-> new[i]],
           \A i \in DOMAIN table : new[i] \in RowType
    PROVE  new \in Seq(RowType) /\ Len(new) = Len(table) /\ DOMAIN new = DOMAIN table
  OBVIOUS

\* A row takes its new status and keeps its owner and its report.
LEMMA PostedRow ==
    ASSUME NEW row \in RowType, NEW to \in JobStatus
    PROVE  /\ Posted(row, to) \in RowType /\ Posted(row, to).status = to
           /\ Posted(row, to).agent = row.agent /\ Posted(row, to).report = row.report
  <1>1. (IF to \in Terminal THEN 0 ELSE row.age) \in 0..(Timeout + 1)
    BY Constants DEF RowType
  <1> DEFINE age == IF to \in Terminal THEN 0 ELSE row.age
  <1>2. Posted(row, to) = [row EXCEPT !.status = to, !.age = age]
    BY DEF Posted, RowType
  <1>3. age \in 0..(Timeout + 1)
    BY <1>1
  <1> HIDE DEF age
  <1> QED
    BY <1>2, <1>3 DEF RowType

\* sweep_timeouts changes no owner, and no row that is queued or has a verdict.
LEMMA SweptRows ==
    ASSUME NEW table \in Seq(RowType)
    PROVE  /\ Swept(table) \in Seq(RowType)
           /\ Len(Swept(table)) = Len(table)
           /\ DOMAIN Swept(table) = DOMAIN table
           /\ \A i \in DOMAIN table :
                 /\ Swept(table)[i].agent = table[i].agent
                 /\ Swept(table)[i].report = table[i].report
                 /\ \/ Swept(table)[i].status = table[i].status
                    \/ /\ table[i].status \in {"claimed", "running"}
                       /\ Swept(table)[i].status = "timed_out"
  <1>1. \A i \in DOMAIN table : table[i] \in RowType
    BY TableFacts
  <1>2. \A i \in DOMAIN table : Swept(table)[i] \in RowType
    BY <1>1, PostedRow DEF Swept, JobStatus, Terminal
  <1>3. Swept(table) = [i \in DOMAIN table |-> Swept(table)[i]]
    BY DEF Swept
  <1>4. ASSUME NEW i \in DOMAIN table
        PROVE  /\ Swept(table)[i].agent = table[i].agent
               /\ Swept(table)[i].report = table[i].report
               /\ \/ Swept(table)[i].status = table[i].status
                  \/ /\ table[i].status \in {"claimed", "running"}
                     /\ Swept(table)[i].status = "timed_out"
    BY <1>1, PostedRow DEF Swept, JobStatus, Terminal
  <1> HIDE DEF Swept
  <1> QED
    BY <1>2, <1>3, <1>4, Rewritten

\* claim_next looks for a queued row.
LEMMA OldestIsQueued ==
    ASSUME NEW table \in Seq(RowType), Oldest(table) # 0
    PROVE  Oldest(table) \in DOMAIN table /\ table[Oldest(table)].status = "queued"
  <1> DEFINE queued == {i \in DOMAIN table : table[i].status = "queued"}
  <1>1. queued \subseteq Nat /\ queued # {}
    BY TableFacts DEF Oldest
  <1>2. \E i \in queued : \A k \in queued : i <= k
    <2> HIDE DEF queued
    <2> QED
      BY <1>1, LeastNat
  <1>3. Oldest(table) \in queued
    BY <1>1, <1>2, Zenon DEF Oldest
  <1> QED
    BY <1>3

\* The row claim_next writes.
ClaimRow(row, a) == [row EXCEPT !.status = "claimed", !.agent = a, !.age = 0]

LEMMA ClaimedRow ==
    ASSUME NEW row \in RowType, NEW a \in Agents
    PROVE  /\ ClaimRow(row, a) \in RowType /\ ClaimRow(row, a).status = "claimed"
           /\ ClaimRow(row, a).agent = a /\ ClaimRow(row, a).report = row.report
  <1>1. 0 \in 0..(Timeout + 1) /\ "claimed" \in JobStatus
    BY Constants DEF JobStatus
  <1> QED
    BY <1>1 DEF RowType, ClaimRow

\* claim_next gives that row to the agent and leaves the others.
LEMMA ClaimedRows ==
    ASSUME NEW table \in Seq(RowType), NEW a \in Agents
    PROVE  /\ Claimed(table, a) \in Seq(RowType)
           /\ Len(Claimed(table, a)) = Len(table)
           /\ DOMAIN Claimed(table, a) = DOMAIN table
           /\ \A i \in DOMAIN table :
                 \/ i # Oldest(table) /\ Claimed(table, a)[i] = table[i]
                 \/ /\ i = Oldest(table) /\ table[i].status = "queued"
                    /\ Claimed(table, a)[i].status = "claimed"
                    /\ Claimed(table, a)[i].agent = a
                    /\ Claimed(table, a)[i].report = table[i].report
  <1> DEFINE k == Oldest(table)
             row == ClaimRow(table[k], a)
  <1>1. CASE k = 0
    BY <1>1, TableFacts DEF Claimed
  <1>2. CASE k # 0
    <2>1. k \in DOMAIN table /\ table[k].status = "queued" /\ table[k] \in RowType
      BY <1>2, OldestIsQueued, TableFacts
    <2>2. /\ row \in RowType /\ row.status = "claimed" /\ row.agent = a
          /\ row.report = table[k].report
      BY <2>1, ClaimedRow
    <2>3. Claimed(table, a) = [table EXCEPT ![k] = row]
      BY <1>2, <2>1 DEF Claimed, ClaimRow
    <2> HIDE DEF row, k
    <2>4. /\ [table EXCEPT ![k] = row] \in Seq(RowType)
          /\ Len([table EXCEPT ![k] = row]) = Len(table)
          /\ DOMAIN [table EXCEPT ![k] = row] = DOMAIN table
          /\ \A i \in DOMAIN table :
                [table EXCEPT ![k] = row][i] = IF i = k THEN row ELSE table[i]
      BY <2>1, <2>2
    <2> QED
      BY <2>1, <2>2, <2>3, <2>4 DEF k
  <1> QED
    BY <1>1, <1>2

\* A status post moves the row to what it says, if the graph and the owner let
\* it, and leaves the others.
LEMMA MovedRows ==
    ASSUME jobs \in Seq(RowType), NEW j \in DOMAIN jobs, NEW to \in JobStatus,
           NEW a, NEW rep \in BOOLEAN
    PROVE  /\ Moved(j, to, a, rep) \in Seq(RowType)
           /\ Len(Moved(j, to, a, rep)) = Len(jobs)
           /\ DOMAIN Moved(j, to, a, rep) = DOMAIN jobs
           /\ \A i \in DOMAIN jobs \ {j} : Moved(j, to, a, rep)[i] = jobs[i]
           /\ IF MayMove(jobs[j], to, a)
              THEN /\ Moved(j, to, a, rep)[j].status = to
                   /\ Moved(j, to, a, rep)[j].agent = jobs[j].agent
                   /\ Moved(j, to, a, rep)[j].report = (jobs[j].report \/ rep)
              ELSE Moved(j, to, a, rep)[j] = jobs[j]
  <1> DEFINE row == [Posted(jobs[j], to) EXCEPT !.report = @ \/ rep]
  <1>1. jobs[j] \in RowType
    BY TableFacts
  <1>2. CASE ~MayMove(jobs[j], to, a)
    BY <1>2 DEF Moved
  <1>3. CASE MayMove(jobs[j], to, a)
    <2>1. /\ row \in RowType /\ row.status = to /\ row.agent = jobs[j].agent
          /\ row.report = (jobs[j].report \/ rep)
      BY <1>1, PostedRow DEF RowType
    <2>2. Moved(j, to, a, rep) = [jobs EXCEPT ![j] = row]
      BY <1>1, <1>3 DEF Moved
    <2> HIDE DEF row
    <2>3. /\ [jobs EXCEPT ![j] = row] \in Seq(RowType)
          /\ Len([jobs EXCEPT ![j] = row]) = Len(jobs)
          /\ DOMAIN [jobs EXCEPT ![j] = row] = DOMAIN jobs
          /\ \A i \in DOMAIN jobs :
                [jobs EXCEPT ![j] = row][i] = IF i = j THEN row ELSE jobs[i]
      BY <2>1
    <2> QED
      BY <1>3, <2>1, <2>2, <2>3
  <1> QED
    BY <1>2, <1>3

\* An operator's cancellation ends the row and leaves the others.
LEMMA CancelledRows ==
    ASSUME jobs \in Seq(RowType), NEW j, Cancel(j)
    PROVE  /\ jobs' \in Seq(RowType) /\ Len(jobs') = Len(jobs)
           /\ DOMAIN jobs' = DOMAIN jobs
           /\ j \in DOMAIN jobs /\ jobs'[j].status = "cancelled"
           /\ jobs[j].status \notin Terminal
           /\ jobs'[j].agent = jobs[j].agent
           /\ jobs'[j].report = jobs[j].report
           /\ \A i \in DOMAIN jobs \ {j} : jobs'[i] = jobs[i]
  <1> DEFINE row == Posted(jobs[j], "cancelled")
  <1>1. /\ j \in DOMAIN jobs /\ MayMove(jobs[j], "cancelled", NoAgent)
        /\ jobs' = [jobs EXCEPT ![j] = row]
    BY DEF Cancel
  <1>2. jobs[j] \in RowType
    BY <1>1, TableFacts
  <1>3. /\ row \in RowType /\ row.status = "cancelled" /\ row.agent = jobs[j].agent
        /\ row.report = jobs[j].report
    BY <1>2, PostedRow DEF JobStatus, Terminal
  <1>4. jobs[j].status \notin Terminal
    BY <1>1 DEF MayMove, AllowedTransitions, Terminal
  <1> HIDE DEF row
  <1>5. /\ [jobs EXCEPT ![j] = row] \in Seq(RowType)
        /\ Len([jobs EXCEPT ![j] = row]) = Len(jobs)
        /\ DOMAIN [jobs EXCEPT ![j] = row] = DOMAIN jobs
        /\ \A i \in DOMAIN jobs :
              [jobs EXCEPT ![j] = row][i] = IF i = j THEN row ELSE jobs[i]
    BY <1>1, <1>3
  <1> QED
    BY <1>1, <1>3, <1>4, <1>5

\* Time passing ages rows, and changes nothing else of them.
Aged(row) == [row EXCEPT !.age = IF @ > Timeout THEN @ ELSE @ + 1]

LEMMA AgedRow ==
    ASSUME NEW row \in RowType
    PROVE  /\ Aged(row) \in RowType /\ Aged(row).status = row.status
           /\ Aged(row).agent = row.agent /\ Aged(row).report = row.report
  <1>1. (IF row.age > Timeout THEN row.age ELSE row.age + 1) \in 0..(Timeout + 1)
    BY Constants DEF RowType
  <1> DEFINE age == IF row.age > Timeout THEN row.age ELSE row.age + 1
  <1>2. Aged(row) = [row EXCEPT !.age = age]
    BY Zenon DEF Aged
  <1>3. age \in 0..(Timeout + 1)
    BY <1>1
  <1> HIDE DEF age
  <1> QED
    BY <1>2, <1>3 DEF RowType

LEMMA TickedRows ==
    ASSUME jobs \in Seq(RowType), Tick
    PROVE  /\ jobs' \in Seq(RowType) /\ Len(jobs') = Len(jobs)
           /\ DOMAIN jobs' = DOMAIN jobs
           /\ \A i \in DOMAIN jobs : /\ jobs'[i].status = jobs[i].status
                                     /\ jobs'[i].agent = jobs[i].agent
                                     /\ jobs'[i].report = jobs[i].report
  <1>1. \A i \in DOMAIN jobs : jobs[i] \in RowType
    BY TableFacts
  <1>2. /\ DOMAIN jobs' = DOMAIN jobs
        /\ \A i \in DOMAIN jobs :
              jobs'[i] = IF jobs[i].status \in {"claimed", "running"}
                         THEN Aged(jobs[i])
                         ELSE jobs[i]
        /\ jobs' = [i \in DOMAIN jobs |-> jobs'[i]]
    BY DEF Tick, Aged
  <1>3. ASSUME NEW i \in DOMAIN jobs
        PROVE  /\ jobs'[i] \in RowType /\ jobs'[i].status = jobs[i].status
               /\ jobs'[i].agent = jobs[i].agent /\ jobs'[i].report = jobs[i].report
    BY <1>1, <1>2, AgedRow
  <1> QED
    BY <1>2, <1>3, Rewritten

\* A move starts at a status that is no verdict and never ends at queued; and
\* a job under way takes any verdict from its owner.
LEMMA MoveOut ==
    ASSUME NEW row, NEW to, NEW a, MayMove(row, to, a)
    PROVE  to # "queued" /\ row.status \notin Terminal
  BY Zenon DEF MayMove, AllowedTransitions, Terminal

LEMMA MoveIn ==
    ASSUME NEW row, NEW to \in Terminal, row.status \in {"claimed", "running"}
    PROVE  MayMove(row, to, row.agent)
  <1>1. to \in AllowedTransitions(row.status)
    <2>1. CASE row.status = "claimed"
      BY <2>1, Zenon DEF AllowedTransitions
    <2>2. CASE row.status = "running"
      BY <2>2, Zenon DEF AllowedTransitions
    <2> QED
      BY <2>1, <2>2
  <1> QED
    BY <1>1 DEF MayMove

\* What a status post does, whatever becomes of its answer: at most its own row
\* moves, and the handler goes on or is left; without a fault, it is as intended.
LEMMA PostOutcome ==
    ASSUME Types, NEW a \in Agents, NEW to \in JobStatus, NEW rep \in BOOLEAN,
           NEW next, ajob[a] \in DOMAIN jobs, Post(a, to, rep, next)
    PROVE  /\ jobs' \in Seq(RowType) /\ Len(jobs') = Len(jobs)
           /\ DOMAIN jobs' = DOMAIN jobs
           /\ \A i \in DOMAIN jobs : /\ jobs'[i].agent = jobs[i].agent
                                     /\ i # ajob[a] => jobs'[i] = jobs[i]
           /\ \/ jobs'[ajob[a]] = jobs[ajob[a]]
              \/ /\ MayMove(jobs[ajob[a]], to, a)
                 /\ jobs'[ajob[a]].status = to
                 /\ jobs'[ajob[a]].report = (jobs[ajob[a]].report \/ rep)
           /\ \/ /\ next # "top" /\ AgentGoto(a, next) /\ ajob' = ajob
              \/ AgentGoto(a, "top") /\ ajob' = [ajob EXCEPT ![a] = 0]
           /\ \/ /\ faults' = faults
                 /\ MayMove(jobs[ajob[a]], to, a) => jobs'[ajob[a]].status = to
                 /\ MayMove(jobs[ajob[a]], to, a) /\ rep => jobs'[ajob[a]].report
                 /\ next # "top" => AgentGoto(a, next) /\ ajob' = ajob
              \/ Fault
  <1> DEFINE j == ajob[a]
             moved == Moved(j, to, a, rep)
  <1>1. jobs \in Seq(RowType)
    BY DEF Types, RigTypeOK, RowType
  <1>2. /\ moved \in Seq(RowType) /\ Len(moved) = Len(jobs) /\ DOMAIN moved = DOMAIN jobs
        /\ \A i \in DOMAIN jobs \ {j} : moved[i] = jobs[i]
        /\ IF MayMove(jobs[j], to, a)
           THEN /\ moved[j].status = to /\ moved[j].agent = jobs[j].agent
                /\ moved[j].report = (jobs[j].report \/ rep)
           ELSE moved[j] = jobs[j]
    BY <1>1, MovedRows
  <1>3. /\ jobs' = jobs \/ jobs' = moved
        /\ \/ next # "top" /\ AgentGoto(a, next) /\ ajob' = ajob
           \/ AgentGoto(a, "top") /\ ajob' = [ajob EXCEPT ![a] = 0]
        /\ \/ /\ faults' = faults /\ jobs' = moved
              /\ next # "top" => AgentGoto(a, next) /\ ajob' = ajob
           \/ Fault
    BY Zenon DEF Post, Abandon, Leave
  <1> HIDE DEF moved
  <1>4. ASSUME NEW i \in DOMAIN jobs
        PROVE  jobs'[i].agent = jobs[i].agent /\ (i # j => jobs'[i] = jobs[i])
    <2>1. CASE i = j
      BY <1>2, <1>3, <2>1
    <2>2. CASE i # j
      BY <1>2, <1>3, <2>2
    <2> QED
      BY <2>1, <2>2
  <1>5. /\ jobs' \in Seq(RowType) /\ Len(jobs') = Len(jobs) /\ DOMAIN jobs' = DOMAIN jobs
    BY <1>1, <1>2, <1>3
  <1>6. \/ jobs'[j] = jobs[j]
        \/ /\ MayMove(jobs[j], to, a) /\ jobs'[j].status = to
           /\ jobs'[j].report = (jobs[j].report \/ rep)
    BY <1>2, <1>3
  <1>7. jobs' = moved => /\ MayMove(jobs[j], to, a) => jobs'[j].status = to
                         /\ MayMove(jobs[j], to, a) /\ rep => jobs'[j].report
    <2>1. CASE MayMove(jobs[j], to, a)
      BY <1>2, <2>1
    <2> QED
      BY <2>1
  <1> QED
    BY <1>3, <1>4, <1>5, <1>6, <1>7

\* The handlers that post: from which place, what, and where they go on.
LEMMA PostingHandler ==
    ASSUME Owners, NEW a \in Agents, PostRunning(a) \/ ShipReport(a) \/ ReportFail(a)
    PROVE  /\ apc[a] \in Before \cup After
           /\ ajob[a] \in DOMAIN jobs /\ jobs[ajob[a]].agent = a
           /\ UNCHANGED <<seen, stop, folderVars, pluginVars, runs, acked>>
           /\ \E to \in JobStatus, rep \in BOOLEAN, next \in {"top", "drop"} :
                 /\ Post(a, to, rep, next)
                 /\ next = "drop" => apc[a] = "running"
                 /\ to = "complete" => apc[a] = "ship" /\ rep
                 /\ to # "running" => to \in Terminal /\ next = "top"
                 /\ apc[a] = "ship" => to = "complete"
  <1>1. CASE PostRunning(a)
    <2>1. apc[a] \in Before /\ apc[a] = "running"
      BY <1>1 DEF PostRunning, AgentAt, Before
    <2> QED
      BY <1>1, <2>1 DEF PostRunning, Owners, JobStatus
  <1>2. CASE ShipReport(a)
    <2>1. apc[a] \in After /\ apc[a] = "ship"
      BY <1>2 DEF ShipReport, AgentAt, After
    <2> QED
      BY <1>2, <2>1 DEF ShipReport, Owners, JobStatus, Terminal
  <1>3. CASE ReportFail(a)
    <2>1. apc[a] \in Before \cup After /\ apc[a] \in {"failed", "timed_out"}
      BY <1>3 DEF ReportFail, Before, After
    <2> QED
      BY <1>3, <2>1 DEF ReportFail, Owners, JobStatus, Terminal
  <1> QED
    BY <1>1, <1>2, <1>3
-----------------------------------------------------------------------------
(* Types *)

Table == jobs \in Seq(RowType) /\ Len(jobs) <= MaxJobs

Labels == {"top", "poll", "download", "running", "drop", "wait", "ack", "ship",
           "failed", "timed_out"} \cup Ended
PluginLabels == {"scan", "take", "ready", "open", "validate", "write", "writing", "dead"}

AgentPlaces == /\ seen \subseteq Agents /\ apc \in [Agents -> Labels]
               /\ ajob \in [Agents -> JobIds \cup {0}] /\ stop \in [Agents -> BOOLEAN]
FolderPlaces == /\ trigger \in [JobIds -> BOOLEAN]
                /\ left \in [JobIds -> 0..(Timeout + Extra)]
                /\ report \in [JobIds -> {"absent", "partial", "full"}]
PluginPlaces == /\ ppc \in [Agents -> PluginLabels] /\ pending \in [Agents -> SUBSET JobIds]
                /\ pjob \in [Agents -> JobIds \cup {0}]
                /\ window \in [Agents -> 0..(OpenWait + ValidateWait)]
History ==
    /\ runs \in [JobIds -> Nat] /\ cut \in [JobIds -> Nat]
    /\ acked \subseteq JobIds /\ faults \in 0..MaxFaults

LEMMA TypesAreParts ==
    /\ Types <=> Table /\ AgentPlaces /\ FolderPlaces /\ PluginPlaces /\ History
    /\ Types' <=> Table' /\ AgentPlaces' /\ FolderPlaces' /\ PluginPlaces' /\ History'
  <1> USE DEF Types, RigTypeOK, RowType, Table, AgentPlaces, FolderPlaces, PluginPlaces,
              History, Labels, PluginLabels
  <1>1. Types <=> Table /\ AgentPlaces /\ FolderPlaces /\ PluginPlaces /\ History
    BY Zenon
  <1>2. Types' <=> Table' /\ AgentPlaces' /\ FolderPlaces' /\ PluginPlaces' /\ History'
    BY Zenon
  <1> QED
    BY <1>1, <1>2, Zenon

\* The job an agent handles is in the table and is its own.
LEMMA AtHand ==
    ASSUME Types, Owners, NEW a \in Agents, apc[a] \in Before \cup After
    PROVE  /\ ajob[a] \in DOMAIN jobs /\ ajob[a] \in JobIds /\ ajob[a] # 0
           /\ jobs[ajob[a]].agent = a
  <1>1. ajob[a] \in DOMAIN jobs /\ jobs[ajob[a]].agent = a
    BY DEF Owners
  <1>2. jobs \in Seq(RowType) /\ Len(jobs) <= MaxJobs
    BY TypesAreParts DEF Table
  <1>3. DOMAIN jobs \subseteq JobIds /\ 0 \notin DOMAIN jobs
    BY <1>2, Constants DEF JobIds
  <1> QED
    BY <1>1, <1>3

LEMMA TableStep ==
    ASSUME Types, Owners, [RigNext]_rigVars
    PROVE  Table'
  <1>0. Table
    BY TypesAreParts
  <1> USE DEF serverVars, agentVars
  <1>1. CASE Enqueue
    <2>1. Fresh \in RowType
      BY Constants DEF Fresh, RowType, JobStatus
    <2> QED
      BY <1>0, <1>1, <2>1, Constants DEF Enqueue, Table
  <1>2. ASSUME NEW j \in JobIds, Cancel(j)
        PROVE  Table'
    BY <1>0, <1>2, CancelledRows DEF Table
  <1>3. CASE Tick
    BY <1>0, <1>3, TickedRows DEF Table
  <1>4. ASSUME NEW a \in Agents, Poll(a)
        PROVE  Table'
    BY <1>0, <1>4, SweptRows, ClaimedRows DEF Poll, Table
  <1>5. ASSUME NEW a \in Agents, PostRunning(a) \/ ShipReport(a) \/ ReportFail(a)
        PROVE  Table'
    <2>1. ajob[a] \in DOMAIN jobs
      BY <1>5, PostingHandler
    <2>2. PICK to \in JobStatus, rep \in BOOLEAN, next \in {"top", "drop"} :
             Post(a, to, rep, next)
      BY <1>5, PostingHandler
    <2>3. jobs' \in Seq(RowType) /\ Len(jobs') = Len(jobs)
      BY <2>1, <2>2, PostOutcome
    <2> QED
      BY <1>0, <2>3 DEF Table
  <1>6. CASE UNCHANGED jobs
    BY <1>0, <1>6 DEF Table
  <1> QED
    BY <1>1, <1>2, <1>3, <1>4, <1>5, <1>6
       DEF RigNext, rigVars, AgentStep, PluginStep, GameStep, Stopped, HeartbeatNotDue,
           Heartbeat, Download, DropTrigger, ReadReport, ReadMalformed, WaitExpired, Ack,
           Signal, Kill, Restart, GameCrash, GameRestart, Scan, Take, EditMap, Validate, Validated,
           GiveUp, WriteBegin, WriteEnd

LEMMA AgentPlacesStep ==
    ASSUME Types, Owners, [RigNext]_rigVars
    PROVE  AgentPlaces'
  <1>0. AgentPlaces /\ Table
    BY TypesAreParts
  <1> USE DEF serverVars, agentVars, AgentGoto, Abandon, Leave
  <1>1. ASSUME NEW a \in Agents,
               \/ Stopped(a) \/ HeartbeatNotDue(a) \/ Heartbeat(a)
               \/ DropTrigger(a) \/ ReadReport(a) \/ ReadMalformed(a) \/ WaitExpired(a)
               \/ Ack(a)
        PROVE  AgentPlaces'
    <2>1. /\ seen' \subseteq seen \cup {a} /\ ajob' = ajob /\ stop' = stop
          /\ \E l \in Labels : apc' = [apc EXCEPT ![a] = l]
      BY <1>1 DEF Stopped, HeartbeatNotDue, Heartbeat, DropTrigger, ReadReport,
                  ReadMalformed, WaitExpired, Ack, Labels, Ended
    <2> QED
      BY <1>0, <2>1 DEF AgentPlaces
  <1>2. ASSUME NEW a \in Agents, Download(a) \/ Kill(a) \/ Restart(a)
        PROVE  AgentPlaces'
    <2>1. /\ seen' = seen /\ (ajob' = ajob \/ ajob' = [ajob EXCEPT ![a] = 0])
          /\ stop' = stop \/ stop' = [stop EXCEPT ![a] = FALSE]
          /\ \E l \in Labels : apc' = [apc EXCEPT ![a] = l]
      BY <1>2 DEF Download, Kill, Restart, Labels, Ended
    <2> QED
      BY <1>0, <2>1 DEF AgentPlaces
  <1>3. ASSUME NEW a \in Agents, Poll(a)
        PROVE  AgentPlaces'
    <2>1. Oldest(Swept(jobs)) \in JobIds \cup {0}
      BY <1>0, SweptRows, OldestIsQueued, Constants DEF Table, JobIds
    <2>2. /\ seen' = seen /\ stop' = stop
          /\ ajob' = ajob \/ ajob' = [ajob EXCEPT ![a] = Oldest(Swept(jobs))]
          /\ \E l \in Labels : apc' = [apc EXCEPT ![a] = l]
      BY <1>3, Zenon DEF Poll, Labels, Ended
    <2> QED
      BY <1>0, <2>1, <2>2 DEF AgentPlaces
  <1>4. ASSUME NEW a \in Agents, PostRunning(a) \/ ShipReport(a) \/ ReportFail(a)
        PROVE  AgentPlaces'
    <2>1. PICK to \in JobStatus, rep \in BOOLEAN, next \in {"top", "drop"} :
             Post(a, to, rep, next) /\ ajob[a] \in DOMAIN jobs
                /\ seen' = seen /\ stop' = stop
      BY <1>4, PostingHandler
    <2>2. /\ ajob' = ajob \/ ajob' = [ajob EXCEPT ![a] = 0]
          /\ \E l \in Labels : apc' = [apc EXCEPT ![a] = l]
      BY <2>1 DEF Post, Labels
    <2> QED
      BY <1>0, <2>1, <2>2 DEF AgentPlaces
  <1>5. ASSUME NEW a \in Agents, Signal(a)
        PROVE  AgentPlaces'
    BY <1>0, <1>5 DEF Signal, AgentPlaces
  <1>6. CASE UNCHANGED <<seen, apc, ajob, stop>>
    BY <1>0, <1>6 DEF AgentPlaces
  <1> QED
    BY <1>1, <1>2, <1>3, <1>4, <1>5, <1>6
       DEF RigNext, rigVars, AgentStep, PluginStep, GameStep, Enqueue, Cancel, Tick,
           GameCrash, GameRestart, Scan, Take, EditMap, Validate, Validated, GiveUp,
           WriteBegin, WriteEnd

LEMMA FolderPlacesStep ==
    ASSUME Types, Owners, [RigNext]_rigVars
    PROVE  FolderPlaces'
  <1>0. FolderPlaces
    BY TypesAreParts
  <1> USE DEF folderVars
  <1>1. ASSUME NEW a \in Agents, Download(a) \/ ReadMalformed(a) \/ Ack(a)
        PROVE  FolderPlaces'
    BY <1>0, <1>1 DEF Download, ReadMalformed, Ack, FolderPlaces
  <1>2. ASSUME NEW a \in Agents, DropTrigger(a)
        PROVE  FolderPlaces'
    <2>1. Timeout + Extra \in 0..(Timeout + Extra)
      BY Constants
    <2> QED
      BY <1>0, <1>2, <2>1 DEF DropTrigger, FolderPlaces
  <1>3. ASSUME NEW a \in Agents, WriteBegin(a) \/ WriteEnd(a)
        PROVE  FolderPlaces'
    BY <1>0, <1>3 DEF WriteBegin, WriteEnd, FolderPlaces
  <1>4. CASE Tick
    BY <1>0, <1>4, Constants DEF Tick, Down, FolderPlaces
  <1>5. CASE UNCHANGED folderVars
    BY <1>0, <1>5 DEF FolderPlaces
  <1> QED
    BY <1>1, <1>2, <1>3, <1>4, <1>5
       DEF RigNext, rigVars, AgentStep, PluginStep, GameStep, Enqueue, Cancel, Stopped,
           HeartbeatNotDue, Heartbeat, Poll, PostRunning, ReadReport, WaitExpired,
           ShipReport, ReportFail, Signal, Kill, Restart, GameCrash, GameRestart, Scan, Take, EditMap,
           Validate, Validated, GiveUp

LEMMA PluginPlacesStep ==
    ASSUME Types, Owners, [RigNext]_rigVars
    PROVE  PluginPlaces'
  <1>0. PluginPlaces /\ Table
    BY TypesAreParts
  <1> USE DEF pluginVars, PluginGoto
  <1>1. ASSUME NEW a \in Agents, Scan(a)
        PROVE  PluginPlaces'
    <2>1. {j \in DOMAIN jobs : /\ jobs[j].agent = a /\ trigger[j]
                               /\ report[j] = "absent"} \subseteq JobIds
      BY <1>0, Constants DEF Table, JobIds
    <2> QED
      BY <1>0, <1>1, <2>1 DEF Scan, PluginPlaces, PluginLabels
  <1>2. ASSUME NEW a \in Agents, Take(a)
        PROVE  PluginPlaces'
    BY <1>0, <1>2 DEF Take, PluginPlaces, PluginLabels
  <1>3. ASSUME NEW a \in Agents, EditMap(a) \/ Validate(a) \/ Validated(a) \/ GiveUp(a)
        PROVE  PluginPlaces'
    <2>1. /\ pending' = pending /\ pjob' = pjob
          /\ \E l \in PluginLabels : ppc' = [ppc EXCEPT ![a] = l]
          /\ \/ window' = window
             \/ \E w \in {OpenWait, ValidateWait} : window' = [window EXCEPT ![a] = w]
      BY <1>3 DEF EditMap, Validate, Validated, GiveUp, PluginLabels
    <2> QED
      BY <1>0, <2>1, Constants DEF PluginPlaces
  <1>4. ASSUME NEW a \in Agents, WriteBegin(a) \/ WriteEnd(a) \/ GameCrash(a) \/ GameRestart(a)
        PROVE  PluginPlaces'
    <2>1. /\ window' = window
          /\ pending' = pending \/ pending' = [pending EXCEPT ![a] = {}]
          /\ pjob' = pjob \/ pjob' = [pjob EXCEPT ![a] = 0]
          /\ \E l \in PluginLabels : ppc' = [ppc EXCEPT ![a] = l]
      BY <1>4 DEF WriteBegin, WriteEnd, GameCrash, GameRestart, PluginLabels
    <2> QED
      BY <1>0, <2>1 DEF PluginPlaces
  <1>5. CASE Tick
    <2>1. \A a \in Agents : Down(window[a]) \in 0..(OpenWait + ValidateWait)
      BY <1>0, Constants DEF PluginPlaces, Down
    <2> QED
      BY <1>0, <1>5, <2>1 DEF Tick, PluginPlaces
  <1>6. CASE UNCHANGED pluginVars
    BY <1>0, <1>6 DEF PluginPlaces
  <1> QED
    BY <1>1, <1>2, <1>3, <1>4, <1>5, <1>6
       DEF RigNext, rigVars, AgentStep, PluginStep, GameStep, Enqueue, Cancel, Stopped,
           HeartbeatNotDue, Heartbeat, Poll, Download, PostRunning, DropTrigger, ReadReport,
           ReadMalformed, WaitExpired, Ack, ShipReport, ReportFail, Signal, Kill, Restart

LEMMA HistoryStep ==
    ASSUME Types, Owners, [RigNext]_rigVars
    PROVE  History'
  <1>0. History /\ Table /\ PluginPlaces
    BY TypesAreParts
  <1> USE DEF histVars
  <1>1. ASSUME NEW a \in Agents, Take(a)
        PROVE  History'
    BY <1>0, <1>1 DEF Take, History, PluginPlaces
  <1>2. ASSUME NEW a \in Agents, Ack(a)
        PROVE  History'
    <2>1. ajob[a] \in JobIds
      BY <1>2, AtHand DEF Ack, AgentAt, After
    <2> QED
      BY <1>0, <1>2, <2>1 DEF Ack, History
  <1>3. CASE UNCHANGED <<runs, cut, acked>> /\ (faults' = faults \/ Fault)
    BY <1>0, <1>3, Constants DEF Fault, History
  <1>4. ASSUME NEW a \in Agents, PostRunning(a) \/ ShipReport(a) \/ ReportFail(a)
        PROVE  UNCHANGED <<runs, cut, acked>> /\ (faults' = faults \/ Fault)
    BY <1>4, Zenon DEF PostRunning, ShipReport, ReportFail, Post
  <1>5. ASSUME NEW a \in Agents, Heartbeat(a) \/ Poll(a) \/ Download(a)
        PROVE  UNCHANGED <<runs, cut, acked>> /\ (faults' = faults \/ Fault)
    BY <1>5, Zenon DEF Heartbeat, Poll, Download
  <1>6. ASSUME NEW a \in Agents, GameCrash(a)
        PROVE  History'
    BY <1>0, <1>6, Constants DEF GameCrash, Fault, History
  <1> QED
    BY <1>1, <1>2, <1>3, <1>4, <1>5, <1>6
       DEF RigNext, rigVars, AgentStep, PluginStep, GameStep, Enqueue, Cancel, Tick, Stopped,
           HeartbeatNotDue, DropTrigger, ReadReport, ReadMalformed, WaitExpired, Signal,
           Kill, Restart, GameRestart, Scan, EditMap, Validate, Validated, GiveUp,
           WriteBegin, WriteEnd

LEMMA TypesStep ==
    ASSUME Types, Owners, [RigNext]_rigVars
    PROVE  Types'
  BY TableStep, AgentPlacesStep, FolderPlacesStep, PluginPlacesStep, HistoryStep,
     TypesAreParts

LEMMA FaultsGrow ==
    ASSUME Types, Owners, [RigNext]_rigVars
    PROVE  faults' = faults \/ Fault
  <1>1. ASSUME NEW a \in Agents, Heartbeat(a) \/ Poll(a) \/ Download(a)
        PROVE  faults' = faults \/ Fault
    BY <1>1, Zenon DEF Heartbeat, Poll, Download
  <1>2. ASSUME NEW a \in Agents, PostRunning(a) \/ ShipReport(a) \/ ReportFail(a)
        PROVE  faults' = faults \/ Fault
    BY <1>2, Zenon DEF PostRunning, ShipReport, ReportFail, Post
  <1> QED
    BY <1>1, <1>2
       DEF RigNext, rigVars, histVars, AgentStep, PluginStep, GameStep, Enqueue, Cancel,
           Tick, Stopped, HeartbeatNotDue, DropTrigger, ReadReport, ReadMalformed,
           WaitExpired, Ack, Signal, Kill, Restart, GameCrash, GameRestart, Scan, Take, EditMap,
           Validate, Validated, GiveUp, WriteBegin, WriteEnd
-----------------------------------------------------------------------------
(* Owners *)

\* What a step may do to rows: none disappears, an owner, telemetry and a
\* verdict stay, a queued row has no owner, and a row is owned or complete only
\* by the poll or the shipment that made it so.
LEMMA RowsStep ==
    ASSUME Types, Owners, [RigNext]_rigVars
    PROVE  /\ \A i \in DOMAIN jobs : /\ i \in DOMAIN jobs'
                                     /\ jobs[i].agent # NoAgent => jobs'[i].agent = jobs[i].agent
                                     /\ jobs[i].report => jobs'[i].report
                                     /\ jobs[i].status \in Terminal =>
                                           jobs'[i].status = jobs[i].status
           /\ \A i \in DOMAIN jobs' :
                 /\ jobs'[i].status = "queued" => jobs'[i].agent = NoAgent
                 /\ jobs'[i].agent # NoAgent =>
                       /\ i \in DOMAIN jobs
                       /\ \/ jobs'[i].agent = jobs[i].agent
                          \/ \E a \in Agents : /\ apc[a] = "poll" /\ jobs'[i].agent = a
                                              /\ (ajob'[a] = i \/ Fault)
                 /\ jobs'[i].status = "complete" =>
                       /\ i \in DOMAIN jobs
                       /\ \/ jobs[i].status = "complete"
                          \/ /\ jobs'[i].report
                             /\ \E a \in Agents : apc[a] = "ship" /\ ajob[a] = i
  <1> DEFINE Kept == /\ DOMAIN jobs' = DOMAIN jobs
                     /\ \A i \in DOMAIN jobs :
                           /\ jobs[i].agent # NoAgent => jobs'[i].agent = jobs[i].agent
                           /\ jobs[i].report => jobs'[i].report
                           /\ jobs[i].status \in Terminal => jobs'[i].status = jobs[i].status
                           /\ \/ jobs'[i].agent = jobs[i].agent
                              \/ \E a \in Agents : /\ apc[a] = "poll" /\ jobs'[i].agent = a
                                                  /\ (ajob'[a] = i \/ Fault)
                           /\ jobs'[i].status = "queued" => jobs'[i].agent = NoAgent
                           /\ jobs'[i].status = "complete" =>
                                 \/ jobs[i].status = "complete"
                                 \/ /\ jobs'[i].report
                                    /\ \E a \in Agents : apc[a] = "ship" /\ ajob[a] = i
  <1>0. /\ jobs \in Seq(RowType)
        /\ \A i \in DOMAIN jobs : jobs[i].status = "queued" => jobs[i].agent = NoAgent
    BY TypesAreParts DEF Table, Owners
  <1>1. CASE Enqueue
    <2>1. /\ jobs' = Append(jobs, Fresh) /\ Fresh.agent = NoAgent /\ Fresh.status = "queued"
      BY <1>1 DEF Enqueue, Fresh
    <2>2. /\ \A i \in DOMAIN jobs : i \in DOMAIN jobs' /\ jobs'[i] = jobs[i]
          /\ \A i \in DOMAIN jobs' : i \in DOMAIN jobs \/ jobs'[i] = Fresh
      <3> HIDE DEF Fresh
      <3> QED
        BY <1>0, <2>1
    <2> QED
      BY <1>0, <2>1, <2>2
  <1>2. ASSUME NEW j \in JobIds, Cancel(j)
        PROVE  Kept
    BY <1>0, <1>2, CancelledRows
  <1>3. CASE Tick
    BY <1>0, <1>3, TickedRows
  <1>4. ASSUME NEW a \in Agents, Poll(a)
        PROVE  Kept
    <2>1. /\ apc[a] = "poll"
          /\ \/ jobs' = jobs
             \/ /\ jobs' = Claimed(Swept(jobs), a)
                /\ ajob' = [ajob EXCEPT ![a] = Oldest(Swept(jobs))] \/ Fault
      BY <1>4, Zenon DEF Poll, AgentAt
    <2>2. CASE jobs' = Claimed(Swept(jobs), a)
      <3>1. DOMAIN jobs' = DOMAIN jobs
        BY <1>0, <2>2, SweptRows, ClaimedRows
      <3>2. ASSUME NEW i \in DOMAIN jobs
            PROVE  /\ Swept(jobs)[i].agent = jobs[i].agent
                   /\ Swept(jobs)[i].report = jobs[i].report
                   /\ \/ Swept(jobs)[i].status = jobs[i].status
                      \/ /\ jobs[i].status \in {"claimed", "running"}
                         /\ Swept(jobs)[i].status = "timed_out"
                   /\ \/ jobs'[i] = Swept(jobs)[i]
                      \/ /\ i = Oldest(Swept(jobs))
                         /\ Swept(jobs)[i].status = "queued"
                         /\ jobs'[i].status = "claimed" /\ jobs'[i].agent = a
                         /\ jobs'[i].report = Swept(jobs)[i].report
        BY <1>0, <2>2, SweptRows, ClaimedRows
      <3>3. ASSUME NEW i \in DOMAIN jobs
            PROVE  \/ jobs'[i].agent = jobs[i].agent
                   \/ jobs'[i].agent = a /\ (ajob'[a] = i \/ Fault)
        <4>1. ajob \in [Agents -> JobIds \cup {0}]
          BY TypesAreParts DEF AgentPlaces
        <4>2. CASE jobs' = jobs
          BY <4>2
        <4> QED
          BY <2>1, <3>2, <4>1, <4>2
      <3>4. {"queued", "claimed", "running"} \cap Terminal = {}
        BY DEF Terminal
      <3> QED
        BY <1>0, <2>1, <3>1, <3>2, <3>3, <3>4
    <2> QED
      BY <1>0, <2>1, <2>2
  <1>5. ASSUME NEW a \in Agents, PostRunning(a) \/ ShipReport(a) \/ ReportFail(a)
        PROVE  Kept
    <2>1. ajob[a] \in DOMAIN jobs
      BY <1>5, PostingHandler
    <2>2. PICK to \in JobStatus, rep \in BOOLEAN, next \in {"top", "drop"} :
             Post(a, to, rep, next) /\ (to = "complete" => apc[a] = "ship" /\ rep)
      BY <1>5, PostingHandler
    <2>3. /\ DOMAIN jobs' = DOMAIN jobs
          /\ \A i \in DOMAIN jobs : /\ jobs'[i].agent = jobs[i].agent
                                    /\ i # ajob[a] => jobs'[i] = jobs[i]
          /\ \/ jobs'[ajob[a]] = jobs[ajob[a]]
             \/ /\ MayMove(jobs[ajob[a]], to, a)
                /\ jobs'[ajob[a]].status = to
                /\ jobs'[ajob[a]].report = (jobs[ajob[a]].report \/ rep)
      BY <2>1, <2>2, PostOutcome
    <2>4. MayMove(jobs[ajob[a]], to, a) => to # "queued" /\ jobs[ajob[a]].status \notin Terminal
      BY MoveOut
    <2>5. ASSUME NEW i \in DOMAIN jobs
          PROVE  /\ jobs[i].report => jobs'[i].report
                 /\ jobs[i].status \in Terminal => jobs'[i].status = jobs[i].status
                 /\ jobs'[i].status = "queued" => jobs[i].status = "queued"
                 /\ jobs'[i].status = "complete" =>
                       \/ jobs[i].status = "complete"
                       \/ jobs'[i].report /\ apc[a] = "ship" /\ ajob[a] = i
      <3>1. CASE i # ajob[a]
        BY <2>3, <3>1
      <3>2. CASE i = ajob[a]
        BY <2>2, <2>3, <2>4, <3>2
      <3> QED
        BY <3>1, <3>2
    <2> QED
      BY <1>0, <2>3, <2>5
  <1>6. CASE UNCHANGED jobs
    BY <1>0, <1>6
  <1> QED
    BY <1>1, <1>2, <1>3, <1>4, <1>5, <1>6, ZenonT(40)
       DEF RigNext, rigVars, serverVars, AgentStep, PluginStep, GameStep, Stopped,
           HeartbeatNotDue, Heartbeat, Download, DropTrigger, ReadReport, ReadMalformed,
           WaitExpired, Ack, Signal, Kill, Restart, GameCrash, GameRestart, Scan, Take, EditMap,
           Validate, Validated, GiveUp, WriteBegin, WriteEnd

\* Where an agent may get in a step, and with which job.
AgentMoved(b) ==
    \/ apc'[b] \in Between /\ ajob'[b] = 0
    \/ /\ apc[b] \in Before /\ apc'[b] \in Before /\ ajob'[b] = ajob[b]
    \/ /\ apc[b] \in After /\ apc'[b] \in After /\ ajob'[b] = ajob[b]
       /\ apc'[b] \in {"wait", "ack"} => apc[b] \in {"wait", "ack"}
       /\ apc'[b] = "ack" => apc[b] = "ack" \/ ReadReport(b)
       /\ apc'[b] = "ship" => apc[b] = "ship" \/ Ack(b)
       /\ apc[b] = "ship" => apc'[b] = "ship"
    \/ /\ DropTrigger(b) /\ apc'[b] = "wait" /\ ajob'[b] = ajob[b]
    \/ /\ apc[b] = "poll" /\ apc'[b] = "download"
       /\ ajob'[b] \in DOMAIN jobs /\ jobs[ajob'[b]].agent = NoAgent
       /\ jobs'[ajob'[b]].agent = b /\ jobs'[ajob'[b]].status = "claimed"

LEMMA AgentMoves ==
    ASSUME Types, Owners, [RigNext]_rigVars, NEW b \in Agents
    PROVE  AgentMoved(b)
  <1> USE DEF AgentMoved
  <1>0. /\ apc \in [Agents -> Labels] /\ ajob \in [Agents -> JobIds \cup {0}]
        /\ apc[b] \in Between => ajob[b] = 0
        /\ jobs \in Seq(RowType)
    BY TypesAreParts DEF AgentPlaces, Owners, Table
  <1>1. CASE apc'[b] = apc[b] /\ ajob'[b] = ajob[b]
    BY <1>0, <1>1 DEF Labels, Between, Before, After
  <1>2. ASSUME NEW a \in Agents, Stopped(a) \/ HeartbeatNotDue(a) \/ Heartbeat(a)
        PROVE  AgentMoved(b)
    <2>1. /\ ajob' = ajob /\ apc[a] = "top"
          /\ \E l \in Between : apc' = [apc EXCEPT ![a] = l]
      BY <1>2 DEF Stopped, HeartbeatNotDue, Heartbeat, AgentAt, AgentGoto, Between, Ended
    <2>2. CASE a = b
      BY <1>0, <2>1, <2>2 DEF Between
    <2>3. CASE a # b
      BY <1>0, <1>1, <2>1, <2>3
    <2> QED
      BY <2>2, <2>3
  <1>3. ASSUME NEW a \in Agents, Kill(a) \/ Restart(a)
        PROVE  AgentMoved(b)
    <2>1. /\ ajob' = [ajob EXCEPT ![a] = 0]
          /\ \E l \in Between : apc' = [apc EXCEPT ![a] = l]
      BY <1>3 DEF Kill, Restart, Leave, Abandon, AgentGoto, Between, Ended
    <2>2. CASE a = b
      BY <1>0, <2>1, <2>2
    <2>3. CASE a # b
      BY <1>0, <1>1, <2>1, <2>3
    <2> QED
      BY <2>2, <2>3
  <1>4. ASSUME NEW a \in Agents, Download(a)
        PROVE  AgentMoved(b)
    <2>1. /\ apc[a] = "download"
          /\ \/ ajob' = ajob /\ \E l \in {"running", "failed"} : apc' = [apc EXCEPT ![a] = l]
             \/ apc' = [apc EXCEPT ![a] = "top"] /\ ajob' = [ajob EXCEPT ![a] = 0]
      BY <1>4 DEF Download, Abandon, Leave, AgentAt, AgentGoto
    <2>2. CASE a = b
      BY <1>0, <2>1, <2>2 DEF Between, Before
    <2>3. CASE a # b
      BY <1>0, <1>1, <2>1, <2>3
    <2> QED
      BY <2>2, <2>3
  <1>5. ASSUME NEW a \in Agents,
               \/ DropTrigger(a) \/ ReadReport(a) \/ ReadMalformed(a) \/ WaitExpired(a)
               \/ Ack(a)
        PROVE  AgentMoved(b)
    <2>1. /\ ajob' = ajob
          /\ \/ DropTrigger(a) /\ apc' = [apc EXCEPT ![a] = "wait"]
             \/ apc[a] = "wait" /\ ReadReport(a) /\ apc' = [apc EXCEPT ![a] = "ack"]
             \/ apc[a] = "wait" /\ apc' = [apc EXCEPT ![a] = "timed_out"]
             \/ apc[a] = "ack" /\ Ack(a) /\ apc' = [apc EXCEPT ![a] = "ship"]
      BY <1>5 DEF DropTrigger, ReadReport, ReadMalformed, WaitExpired, Ack, AgentAt, AgentGoto
    <2>2. CASE a = b
      BY <1>0, <2>1, <2>2 DEF After
    <2>3. CASE a # b
      BY <1>0, <1>1, <2>1, <2>3
    <2> QED
      BY <2>2, <2>3
  <1>6. ASSUME NEW a \in Agents, PostRunning(a) \/ ShipReport(a) \/ ReportFail(a)
        PROVE  AgentMoved(b)
    <2>1. \/ /\ apc[a] = "running" /\ ajob' = ajob /\ apc' = [apc EXCEPT ![a] = "drop"]
          \/ apc' = [apc EXCEPT ![a] = "top"] /\ ajob' = [ajob EXCEPT ![a] = 0]
      BY <1>6
         DEF PostRunning, ShipReport, ReportFail, Post, AgentAt, AgentGoto, Abandon, Leave
    <2>2. CASE a = b
      BY <1>0, <2>1, <2>2 DEF Before, Between
    <2>3. CASE a # b
      BY <1>0, <1>1, <2>1, <2>3
    <2> QED
      BY <2>2, <2>3
  <1>7. ASSUME NEW a \in Agents, Poll(a)
        PROVE  AgentMoved(b)
    <2>1. /\ apc[a] = "poll"
          /\ \/ /\ jobs' = Claimed(Swept(jobs), a)
                /\ ajob' = [ajob EXCEPT ![a] = Oldest(Swept(jobs))]
                /\ apc' = [apc EXCEPT ![a] =
                              IF Oldest(Swept(jobs)) = 0 THEN "top" ELSE "download"]
             \/ ajob' = ajob /\ \E l \in {"top", "raised"} : apc' = [apc EXCEPT ![a] = l]
      BY <1>7 DEF Poll, AgentAt, AgentGoto
    <2>2. CASE a # b
      BY <1>0, <1>1, <2>1, <2>2
    <2>3. CASE a = b /\ ajob' = ajob /\ \E l \in {"top", "raised"} : apc' = [apc EXCEPT ![a] = l]
      BY <1>0, <2>1, <2>3 DEF Between, Ended
    <2>4. CASE /\ a = b /\ jobs' = Claimed(Swept(jobs), a)
               /\ ajob' = [ajob EXCEPT ![a] = Oldest(Swept(jobs))]
               /\ apc' = [apc EXCEPT ![a] =
                             IF Oldest(Swept(jobs)) = 0 THEN "top" ELSE "download"]
      <3> DEFINE k == Oldest(Swept(jobs))
      <3>1. CASE k = 0
        BY <1>0, <2>4, <3>1 DEF Between
      <3>2. CASE k # 0
        <4>1. /\ k \in DOMAIN jobs /\ Swept(jobs)[k].status = "queued"
              /\ jobs'[k].agent = b /\ jobs'[k].status = "claimed"
          BY <1>0, <2>4, <3>2, SweptRows, ClaimedRows, OldestIsQueued
        <4>2. jobs[k].agent = NoAgent
          BY <1>0, <4>1, SweptRows DEF Owners
        <4>3. ajob'[b] = k /\ apc'[b] = "download"
          BY <1>0, <2>4, <3>2
        <4> HIDE DEF k
        <4> QED
          BY <2>1, <2>4, <4>1, <4>2, <4>3
      <3> QED
        BY <3>1, <3>2
    <2> QED
      BY <2>1, <2>2, <2>3, <2>4
  <1>8. CASE UNCHANGED <<apc, ajob>>
    BY <1>1, <1>8
  <1> HIDE DEF AgentMoved
  <1>9. ASSUME NEW a \in Agents,
               \/ PluginStep(a) \/ GameStep(a) \/ Signal(a) \/ GameCrash(a) \/ GameRestart(a)
        PROVE  UNCHANGED <<apc, ajob>>
    BY <1>9 DEF agentVars, PluginStep, GameStep, Signal, GameCrash, GameRestart, Scan, Take,
                EditMap, Validate, Validated, GiveUp, WriteBegin, WriteEnd
  <1>10. ASSUME NEW a \in Agents, AgentStep(a) \/ PluginStep(a) \/ GameStep(a)
         PROVE  AgentMoved(b)
    BY <1>2, <1>4, <1>5, <1>6, <1>7, <1>8, <1>9, <1>10 DEF AgentStep
  <1>11. ASSUME NEW a \in Agents,
                \/ Signal(a) \/ Kill(a) \/ Restart(a) \/ GameCrash(a) \/ GameRestart(a)
         PROVE  AgentMoved(b)
    BY <1>3, <1>8, <1>9, <1>11
  <1>12. Enqueue \/ (\E j \in JobIds : Cancel(j)) \/ Tick => UNCHANGED <<apc, ajob>>
    BY DEF agentVars, Enqueue, Cancel, Tick
  <1>13. UNCHANGED rigVars => UNCHANGED <<apc, ajob>>
    BY DEF rigVars, agentVars
  <1>14. AgentMoved(b)
    BY <1>8, <1>10, <1>11, <1>12, <1>13 DEF RigNext
  <1> QED
    BY <1>14

LEMMA OwnersStep ==
    ASSUME Types, Owners, [RigNext]_rigVars
    PROVE  Owners'
  <1>1. \A i \in DOMAIN jobs' : jobs'[i].status = "queued" => jobs'[i].agent = NoAgent
    BY RowsStep
  <1>2. ASSUME NEW a \in Agents
        PROVE  /\ apc'[a] \in Between => ajob'[a] = 0
               /\ apc'[a] \in Before \cup After =>
                     ajob'[a] \in DOMAIN jobs' /\ jobs'[ajob'[a]].agent = a
    <2>1. a # NoAgent
      BY RigAssumption
    <2>2. CASE /\ apc[a] \in Before \cup After /\ apc'[a] \in Before \cup After
               /\ ajob'[a] = ajob[a]
      <3>1. ajob[a] \in DOMAIN jobs /\ jobs[ajob[a]].agent = a
        BY <2>2, AtHand
      <3>2. apc'[a] \notin Between
        BY <2>2 DEF Between, Before, After, Ended
      <3> QED
        BY <2>1, <2>2, <3>1, <3>2, RowsStep
    <2>3. CASE apc'[a] \in Between /\ ajob'[a] = 0
      BY <2>3 DEF Between, Before, After, Ended
    <2>4. CASE /\ apc[a] = "poll" /\ apc'[a] = "download"
               /\ ajob'[a] \in DOMAIN jobs /\ jobs'[ajob'[a]].agent = a
      BY <2>4, RowsStep DEF Between, Ended
    <2>5. DropTrigger(a) => apc[a] \in Before
      BY DEF DropTrigger, AgentAt, Before
    <2>6. "wait" \in After
      BY DEF After
    <2> QED
      BY <2>2, <2>3, <2>4, <2>5, <2>6, AgentMoves DEF AgentMoved
  <1> QED
    BY <1>1, <1>2 DEF Owners
-----------------------------------------------------------------------------
(* The folder and the plugin *)

\* Which actions write what.
LEMMA Writers ==
    ASSUME [RigNext]_rigVars
    PROVE  /\ trigger' = trigger \/ \E a \in Agents : Download(a) \/ DropTrigger(a)
           /\ report' = report \/ \E a \in Agents : \/ Download(a) \/ ReadMalformed(a) \/ Ack(a)
                                                    \/ WriteBegin(a) \/ WriteEnd(a)
           /\ runs' = runs \/ \E a \in Agents : Take(a)
           /\ cut' = cut \/ \E a \in Agents : GameCrash(a)
           /\ acked' = acked \/ \E a \in Agents : Ack(a)
           /\ \/ UNCHANGED <<ppc, pending, pjob>>
              \/ \E a \in Agents :
                    \/ Scan(a) \/ Take(a) \/ EditMap(a) \/ Validate(a) \/ Validated(a)
                    \/ GiveUp(a) \/ WriteBegin(a) \/ WriteEnd(a) \/ GameCrash(a)
                    \/ GameRestart(a)
  <1> DEFINE Quiet == UNCHANGED <<folderVars, pluginVars, histVars>>
             Still == UNCHANGED <<trigger, report, ppc, pending, pjob, runs, cut, acked>>
  <1> USE DEF folderVars, pluginVars, histVars
  <1>1. Enqueue \/ (\E j \in JobIds : Cancel(j)) \/ Tick => Still
    BY DEF Enqueue, Cancel, Tick
  <1>2. ASSUME NEW a \in Agents,
               \/ Stopped(a) \/ HeartbeatNotDue(a) \/ Heartbeat(a) \/ Poll(a)
               \/ PostRunning(a) \/ ReadReport(a) \/ WaitExpired(a) \/ ShipReport(a)
               \/ ReportFail(a) \/ Signal(a) \/ Kill(a) \/ Restart(a)
        PROVE  Still
    BY <1>2 DEF Stopped, HeartbeatNotDue, Heartbeat, Poll, PostRunning, ReadReport,
                WaitExpired, ShipReport, ReportFail, Signal, Kill, Restart
  <1>3. ASSUME NEW a \in Agents, Download(a) \/ DropTrigger(a) \/ ReadMalformed(a) \/ Ack(a)
        PROVE  /\ UNCHANGED <<ppc, pending, pjob, runs, cut>>
               /\ trigger' = trigger \/ Download(a) \/ DropTrigger(a)
               /\ report' = report \/ Download(a) \/ ReadMalformed(a) \/ Ack(a)
               /\ acked' = acked \/ Ack(a)
    BY <1>3 DEF Download, DropTrigger, ReadMalformed, Ack
  <1>4. ASSUME NEW a \in Agents,
               \/ Scan(a) \/ Take(a) \/ EditMap(a) \/ Validate(a) \/ Validated(a)
               \/ GiveUp(a) \/ WriteBegin(a) \/ WriteEnd(a) \/ GameCrash(a)
               \/ GameRestart(a)
        PROVE  /\ UNCHANGED <<trigger, acked>>
               /\ report' = report \/ WriteBegin(a) \/ WriteEnd(a)
               /\ runs' = runs \/ Take(a)
               /\ cut' = cut \/ GameCrash(a)
    BY <1>4 DEF Scan, Take, EditMap, Validate, Validated, GiveUp, WriteBegin, WriteEnd,
                GameCrash, GameRestart
  <1>5. UNCHANGED rigVars => Still
    BY DEF rigVars
  <1>6. CASE Still
    BY <1>6
  <1>7. CASE \E a \in Agents : AgentStep(a) \/ PluginStep(a) \/ GameStep(a)
    BY <1>2, <1>3, <1>4, <1>6, <1>7 DEF AgentStep, PluginStep, GameStep
  <1>8. CASE \E a \in Agents :
              Signal(a) \/ Kill(a) \/ Restart(a) \/ GameCrash(a) \/ GameRestart(a)
    BY <1>2, <1>4, <1>6, <1>8
  <1> QED
    BY <1>1, <1>5, <1>6, <1>7, <1>8 DEF RigNext

\* A trigger once dropped stays, for a download clears only what is not there.
LEMMA TriggerStays ==
    ASSUME Types, Owners, Folder, [RigNext]_rigVars, NEW j \in JobIds
    PROVE  \/ trigger'[j] = trigger[j]
           \/ /\ ~trigger[j] /\ trigger'[j]
              /\ \E a \in Agents : DropTrigger(a) /\ ajob[a] = j
  <1>0. trigger \in [JobIds -> BOOLEAN]
    BY TypesAreParts DEF FolderPlaces
  <1>1. ASSUME NEW a \in Agents, Download(a)
        PROVE  trigger'[j] = trigger[j]
    <2>1. ~trigger[ajob[a]] /\ ajob[a] \in JobIds
      BY <1>1, AtHand DEF Download, AgentAt, Before, Folder
    <2> QED
      BY <1>0, <1>1, <2>1 DEF Download
  <1>2. ASSUME NEW a \in Agents, DropTrigger(a)
        PROVE  trigger'[j] = trigger[j] \/ (~trigger[j] /\ trigger'[j] /\ ajob[a] = j)
    <2>1. ~trigger[ajob[a]] /\ ajob[a] \in JobIds
      BY <1>2, AtHand DEF DropTrigger, AgentAt, Before, Folder
    <2> QED
      BY <1>0, <1>2, <2>1 DEF DropTrigger
  <1> QED
    BY <1>1, <1>2, Writers

\* A job in the hands of one agent is in nobody else's.
LEMMA OneHand ==
    ASSUME Types, Owners, NEW a \in Agents, NEW b \in Agents,
           apc[a] \in Before \cup After, apc[b] \in Before \cup After, ajob[a] = ajob[b]
    PROVE  a = b
  BY AtHand

LEMMA FolderStep ==
    ASSUME Types, Owners, Folder, Listed, [RigNext]_rigVars
    PROVE  Folder'
  <1>0. /\ trigger \in [JobIds -> BOOLEAN]
        /\ report \in [JobIds -> {"absent", "partial", "full"}]
        /\ runs \in [JobIds -> Nat] /\ pending \in [Agents -> SUBSET JobIds]
        /\ NoAgent \notin Agents
    BY TypesAreParts, RigAssumption DEF FolderPlaces, History, PluginPlaces
  <1>1. ASSUME NEW j \in JobIds, trigger'[j]
        PROVE  j \in DOMAIN jobs' /\ jobs'[j].agent \in Agents
    <2>1. j \in DOMAIN jobs /\ jobs[j].agent \in Agents
      <3>1. CASE trigger[j]
        BY <3>1 DEF Folder
      <3>2. CASE \E a \in Agents : DropTrigger(a) /\ ajob[a] = j
        BY <3>2, AtHand DEF DropTrigger, AgentAt, Before
      <3> QED
        BY <1>1, <3>1, <3>2, TriggerStays
    <2> QED
      BY <1>0, <2>1, RowsStep
  <1>2. ASSUME NEW j \in JobIds, ~trigger'[j]
        PROVE  runs'[j] = 0 /\ report'[j] = "absent"
    <2>1. ~trigger[j] /\ runs[j] = 0 /\ report[j] = "absent"
      BY <1>0, <1>2, TriggerStays DEF Folder
    <2>2. runs'[j] = 0
      <3>1. ASSUME NEW a \in Agents, Take(a)
            PROVE  runs'[j] = 0
        <4>1. PICK k \in pending[a] : runs' = [runs EXCEPT ![k] = @ + 1]
          BY <3>1 DEF Take
        <4>2. k # j
          BY <2>1, <4>1 DEF Listed
        <4> QED
          BY <1>0, <2>1, <4>1, <4>2
      <3> QED
        BY <2>1, <3>1, Writers
    <2>3. report'[j] = "absent"
      <3>1. ASSUME NEW a \in Agents, Download(a) \/ ReadMalformed(a) \/ Ack(a)
            PROVE  report'[j] = "absent"
        BY <1>0, <2>1, <3>1 DEF Download, ReadMalformed, Ack
      <3>2. ASSUME NEW a \in Agents, WriteBegin(a) \/ WriteEnd(a)
            PROVE  report'[j] = "absent"
        <4>1. pjob[a] # j
          BY <2>1, <3>2 DEF Listed, WriteBegin, WriteEnd, PluginAt, Working
        <4> QED
          BY <1>0, <2>1, <3>2, <4>1 DEF WriteBegin, WriteEnd
      <3> QED
        BY <2>1, <3>1, <3>2, Writers
    <2> QED
      BY <2>2, <2>3
  <1>3. ASSUME NEW b \in Agents
        PROVE  /\ apc'[b] \in Before => ~trigger'[ajob'[b]]
               /\ apc'[b] \in After => trigger'[ajob'[b]]
    <2>1. CASE apc'[b] \in Between
      BY <2>1 DEF Between, Before, After, Ended
    <2>2. CASE apc[b] \in Before /\ apc'[b] \in Before /\ ajob'[b] = ajob[b]
      <3>1. ~trigger[ajob[b]] /\ ajob[b] \in JobIds
        BY <2>2, AtHand DEF Folder
      <3>2. ASSUME NEW a \in Agents, DropTrigger(a)
            PROVE  ajob[a] # ajob[b]
        <4>1. apc[a] = "drop" /\ apc[a] \in Before /\ apc' = [apc EXCEPT ![a] = "wait"]
          BY <3>2 DEF DropTrigger, AgentAt, AgentGoto, Before
        <4>2. a # b
          BY <2>2, <4>1, TypesAreParts DEF AgentPlaces, Before
        <4> QED
          BY <2>2, <4>1, <4>2, OneHand
      <3>3. ~trigger'[ajob[b]]
        BY <1>0, <3>1, <3>2, TriggerStays
      <3> QED
        BY <2>2, <3>3 DEF Before, After
    <2>3. CASE apc[b] \in After /\ apc'[b] \in After /\ ajob'[b] = ajob[b]
      <3>1. trigger[ajob[b]] /\ ajob[b] \in JobIds
        BY <2>3, AtHand DEF Folder
      <3>2. trigger'[ajob[b]]
        BY <1>0, <3>1, TriggerStays
      <3> QED
        BY <2>3, <3>2 DEF Before, After
    <2>4. CASE DropTrigger(b) /\ apc'[b] = "wait" /\ ajob'[b] = ajob[b]
      <3>1. ajob[b] \in JobIds
        BY <2>4, AtHand DEF DropTrigger, AgentAt, Before
      <3>2. trigger'[ajob[b]]
        BY <1>0, <2>4, <3>1 DEF DropTrigger
      <3> QED
        BY <2>4, <3>2 DEF Before
    <2>5. CASE /\ apc[b] = "poll" /\ apc'[b] = "download"
               /\ ajob'[b] \in DOMAIN jobs /\ jobs[ajob'[b]].agent = NoAgent
      <3>1. ajob'[b] \in JobIds
        BY <2>5, TypesStep, TypesAreParts, Constants DEF Table, JobIds
      <3>2. ~trigger[ajob'[b]]
        BY <1>0, <2>5, <3>1 DEF Folder
      <3>3. ASSUME NEW a \in Agents, DropTrigger(a)
            PROVE  ajob[a] # ajob'[b]
        BY <1>0, <2>5, <3>3, AtHand DEF DropTrigger, AgentAt, Before
      <3>4. ~trigger'[ajob'[b]]
        BY <1>0, <3>1, <3>2, <3>3, TriggerStays
      <3> QED
        BY <2>5, <3>4 DEF After
    <2> QED
      BY <2>1, <2>2, <2>3, <2>4, <2>5, AgentMoves DEF AgentMoved
  <1> QED
    BY <1>1, <1>2, <1>3 DEF Folder

LEMMA ListedStep ==
    ASSUME Types, Owners, Folder, Listed, [RigNext]_rigVars
    PROVE  Listed'
  <1>0. /\ trigger \in [JobIds -> BOOLEAN] /\ runs \in [JobIds -> Nat]
        /\ ppc \in [Agents -> PluginLabels] /\ pending \in [Agents -> SUBSET JobIds]
        /\ pjob \in [Agents -> JobIds \cup {0}]
        /\ NoAgent \notin Agents
    BY TypesAreParts, RigAssumption DEF FolderPlaces, History, PluginPlaces
  <1>1. ASSUME NEW b \in Agents, NEW j \in JobIds, trigger[j], jobs[j].agent = b
        PROVE  trigger'[j] /\ jobs'[j].agent = b
    BY <1>0, <1>1, TriggerStays, RowsStep DEF Folder
  <1>2. ASSUME NEW j \in JobIds, runs[j] > 0
        PROVE  runs'[j] > 0
    <2>1. ASSUME NEW a \in Agents, Take(a)
          PROVE  runs'[j] > 0
      BY <1>0, <1>2, <2>1 DEF Take
    <2> QED
      BY <1>2, <2>1, Writers
  <1>3. ASSUME NEW b \in Agents, NEW j \in pending'[b]
        PROVE  /\ j \in JobIds /\ trigger[j] /\ jobs[j].agent = b
    <2>1. CASE j \in pending[b]
      BY <1>0, <2>1 DEF Listed
    <2>2. CASE pending' # pending
      <3>1. ASSUME NEW a \in Agents, Scan(a)
            PROVE  \/ j \in pending[b]
                   \/ j \in DOMAIN jobs /\ trigger[j] /\ jobs[j].agent = b
        <4> DEFINE found == {k \in DOMAIN jobs : /\ jobs[k].agent = a
                                                 /\ trigger[k]
                                                 /\ report[k] = "absent"}
        <4>1. pending' = [pending EXCEPT ![a] = found]
          BY <3>1 DEF Scan
        <4>2. j \in pending[b] \/ (a = b /\ j \in found)
          <5> HIDE DEF found
          <5> QED
            BY <1>0, <1>3, <4>1
        <4> QED
          BY <4>2
      <3>2. ASSUME NEW a \in Agents, Take(a) \/ GameCrash(a) \/ GameRestart(a)
            PROVE  j \in pending[b]
        BY <1>0, <1>3, <3>2 DEF Take, GameCrash, GameRestart
      <3>3. ASSUME NEW a \in Agents,
                   \/ EditMap(a) \/ Validate(a) \/ Validated(a) \/ GiveUp(a)
                   \/ WriteBegin(a) \/ WriteEnd(a)
            PROVE  pending' = pending
        BY <3>3 DEF EditMap, Validate, Validated, GiveUp, WriteBegin, WriteEnd
      <3>4. DOMAIN jobs \subseteq JobIds
        BY TypesAreParts, Constants DEF Table, JobIds
      <3> QED
        BY <2>1, <2>2, <3>1, <3>2, <3>3, <3>4, Writers
    <2> QED
      BY <1>3, <2>1, <2>2
  <1>4. ASSUME NEW b \in Agents
        PROVE  \/ /\ ppc[b] \in Working /\ ppc'[b] \in Working
                  /\ pjob'[b] = pjob[b] /\ pending'[b] = pending[b]
               \/ ppc'[b] \notin Working /\ pjob'[b] = 0
               \/ Take(b)
    <2>1. CASE UNCHANGED <<ppc, pending, pjob>>
      BY <2>1 DEF Listed
    <2>2. ASSUME NEW a \in Agents, Take(a), a # b
          PROVE  ppc'[b] = ppc[b] /\ pjob'[b] = pjob[b] /\ pending'[b] = pending[b]
      BY <1>0, <2>2 DEF Take, PluginGoto
    <2>3. ASSUME NEW a \in Agents, Scan(a)
          PROVE  \/ ppc'[b] = ppc[b] /\ pjob'[b] = pjob[b] /\ pending'[b] = pending[b]
                 \/ ppc'[b] \notin Working /\ pjob'[b] = 0
      BY <1>0, <2>3 DEF Scan, PluginGoto, PluginAt, Working, Listed
    <2>4. ASSUME NEW a \in Agents, EditMap(a) \/ Validate(a) \/ Validated(a) \/ GiveUp(a)
          PROVE  /\ pjob'[b] = pjob[b] /\ pending'[b] = pending[b]
                 /\ ppc'[b] = ppc[b] \/ (ppc[b] \in Working /\ ppc'[b] \in Working)
      BY <1>0, <2>4 DEF EditMap, Validate, Validated, GiveUp, PluginGoto, PluginAt, Working
    <2>5. ASSUME NEW a \in Agents, WriteBegin(a)
          PROVE  /\ pjob'[b] = pjob[b] /\ pending'[b] = pending[b]
                 /\ ppc'[b] = ppc[b] \/ (ppc[b] \in Working /\ ppc'[b] \in Working)
      BY <1>0, <2>5 DEF WriteBegin, PluginGoto, PluginAt, Working
    <2>6. ASSUME NEW a \in Agents, WriteEnd(a) \/ GameCrash(a) \/ GameRestart(a)
          PROVE  \/ ppc'[b] = ppc[b] /\ pjob'[b] = pjob[b] /\ pending'[b] = pending[b]
                 \/ ppc'[b] \notin Working /\ pjob'[b] = 0
      BY <1>0, <2>6 DEF WriteEnd, GameCrash, GameRestart, PluginGoto, Working
    <2>7. \/ ppc[b] \in Working \/ pjob[b] = 0
      BY DEF Listed
    <2> QED
      BY <2>1, <2>2, <2>3, <2>4, <2>5, <2>6, <2>7, Writers
  <1>5. ASSUME NEW b \in Agents, Take(b)
        PROVE  \E j \in pending[b] : /\ ppc'[b] = "ready" /\ pjob'[b] = j
                                     /\ j \notin pending'[b] /\ runs'[j] > 0
    BY <1>0, <1>5 DEF Take, PluginGoto, Listed
  <1>6. ASSUME NEW b \in Agents
        PROVE  /\ \A j \in pending'[b] : trigger'[j] /\ jobs'[j].agent = b
               /\ ppc'[b] \in Working => /\ pjob'[b] \in JobIds \ pending'[b]
                                         /\ trigger'[pjob'[b]]
                                         /\ jobs'[pjob'[b]].agent = b
                                         /\ runs'[pjob'[b]] > 0
               /\ ppc'[b] \notin Working => pjob'[b] = 0
    <2>1. \A j \in pending'[b] : trigger'[j] /\ jobs'[j].agent = b
      BY <1>1, <1>3
    <2>2. CASE /\ ppc[b] \in Working /\ ppc'[b] \in Working
               /\ pjob'[b] = pjob[b] /\ pending'[b] = pending[b]
      BY <1>1, <1>2, <2>1, <2>2 DEF Listed
    <2>3. CASE ppc'[b] \notin Working /\ pjob'[b] = 0
      BY <2>1, <2>3
    <2>4. CASE Take(b)
      <3>1. PICK j \in pending[b] : /\ ppc'[b] = "ready" /\ pjob'[b] = j
                                    /\ j \notin pending'[b] /\ runs'[j] > 0
        BY <1>5, <2>4
      <3>2. j \in JobIds /\ trigger'[j] /\ jobs'[j].agent = b
        BY <1>0, <1>1 DEF Listed
      <3> QED
        BY <2>1, <3>1, <3>2 DEF Working
    <2> QED
      BY <1>4, <2>2, <2>3, <2>4
  <1> QED
    BY <1>6 DEF Listed
-----------------------------------------------------------------------------
(* What a job costs in runs *)

LEMMA BudgetStep ==
    ASSUME Types, Owners, Folder, Listed, Budget, [RigNext]_rigVars
    PROVE  Budget'
  <1>0. /\ trigger \in [JobIds -> BOOLEAN] /\ runs \in [JobIds -> Nat]
        /\ report \in [JobIds -> {"absent", "partial", "full"}]
        /\ ppc \in [Agents -> PluginLabels] /\ pending \in [Agents -> SUBSET JobIds]
        /\ pjob \in [Agents -> JobIds \cup {0}] /\ NoAgent \notin Agents
        /\ 0 \notin JobIds /\ cut \in [JobIds -> Nat]
    BY TypesAreParts, RigAssumption DEF FolderPlaces, History, PluginPlaces, JobIds
  <1>1. /\ runs' \in [JobIds -> Nat] /\ cut' \in [JobIds -> Nat]
        /\ \A j \in JobIds : cut[j] <= cut'[j]
    <2>1. ASSUME NEW a \in Agents, GameCrash(a)
          PROVE  \A j \in JobIds : cut[j] <= cut'[j]
      BY <1>0, <2>1 DEF GameCrash
    <2> QED
      BY <1>0, <2>1, TypesStep, TypesAreParts, Writers DEF History
  <1> DEFINE P(b, j) == j \in pending[b]
             P2(b, j) == j \in pending'[b]
  <1>2. ASSUME NEW b \in Agents, NEW j \in JobIds, trigger[j], jobs[j].agent = b
        PROVE  \/ runs'[j] = runs[j] /\ (P2(b, j) => P(b, j))
                  /\ (Scannable(b, j)' => Scannable(b, j))
                  /\ (Removable(b, j)' => Removable(b, j))
               \/ runs'[j] = runs[j] /\ (P2(b, j) => P(b, j))
                  /\ Removable(b, j) /\ ~Removable(b, j)'
               \/ runs'[j] = runs[j] /\ Scannable(b, j) /\ ~Scannable(b, j)'
                  /\ (Removable(b, j)' => Removable(b, j))
               \/ runs'[j] = runs[j] + 1 /\ P(b, j) /\ ~P2(b, j)
                  /\ (Scannable(b, j)' => Scannable(b, j))
                  /\ (Removable(b, j)' => Removable(b, j))
               \/ runs'[j] = runs[j] /\ P(b, j) /\ ~P2(b, j)
                  /\ (Removable(b, j)' => Removable(b, j))
               \/ runs'[j] = runs[j] /\ (P2(b, j) => P(b, j)) /\ cut'[j] = cut[j] + 1
                  /\ (Removable(b, j)' => Removable(b, j))
    <2>1. Removable(b, j)' => Removable(b, j)
      <3>1. SUFFICES ASSUME ajob'[b] = j, apc'[b] \in {"wait", "ack"}
                     PROVE  ajob[b] = j /\ apc[b] \in {"wait", "ack"}
        BY DEF Removable
      <3>2. ~(DropTrigger(b) /\ ajob'[b] = ajob[b])
        BY <1>2, <3>1 DEF DropTrigger, AgentAt, Before, Folder
      <3>3. apc'[b] \notin Between \cup Before /\ apc'[b] # "download"
        BY <3>1 DEF Between, Before, Ended
      <3> QED
        BY <3>1, <3>2, <3>3, AgentMoves DEF AgentMoved
    <2>2. ASSUME NEW a \in Agents, Download(a)
          PROVE  UNCHANGED <<runs, pending, ppc, pjob>> /\ report'[j] = report[j]
      <3>1. ajob[a] # j
        BY <1>2, <2>2 DEF Download, AgentAt, Before, Folder
      <3> QED
        BY <1>0, <2>2, <3>1 DEF Download, pluginVars
    <2>3. ASSUME NEW a \in Agents, ReadMalformed(a) \/ Ack(a)
          PROVE  /\ UNCHANGED <<runs, pending, ppc, pjob>>
                 /\ report'[j] = report[j] \/ (Removable(b, j) /\ ~Removable(b, j)')
      <3>1. /\ UNCHANGED <<runs, pending, ppc, pjob>> /\ apc[a] \in {"wait", "ack"}
            /\ apc[a] \in After
            /\ report' = report \/ report' = [report EXCEPT ![ajob[a]] = "absent"]
            /\ \E l \in {"timed_out", "ship"} : apc' = [apc EXCEPT ![a] = l]
        BY <2>3 DEF ReadMalformed, Ack, pluginVars, histVars, AgentAt, AgentGoto, After
      <3>2. CASE ajob[a] # j
        BY <1>0, <3>1, <3>2
      <3>3. CASE ajob[a] = j
        <4>1. a = b
          BY <1>2, <3>1, <3>3, AtHand
        <4>2. apc'[b] \notin {"wait", "ack"}
          BY <3>1, <4>1, TypesAreParts DEF AgentPlaces
        <4> QED
          BY <3>1, <3>3, <4>1, <4>2 DEF Removable
      <3> QED
        BY <3>1, <3>2, <3>3
    <2>4. ASSUME UNCHANGED <<runs, pending, ppc, pjob>>, report'[j] = report[j]
          PROVE  runs'[j] = runs[j] /\ (P2(b, j) => P(b, j))
                 /\ (Scannable(b, j)' => Scannable(b, j))
      BY <2>4 DEF Scannable
    <2>5. ASSUME NEW a \in Agents, Scan(a)
          PROVE  /\ runs'[j] = runs[j]
                 /\ \/ (P2(b, j) => P(b, j)) /\ (Scannable(b, j)' => Scannable(b, j))
                    \/ Scannable(b, j) /\ ~Scannable(b, j)'
      <3> DEFINE found == {k \in DOMAIN jobs : /\ jobs[k].agent = a
                                               /\ trigger[k]
                                               /\ report[k] = "absent"}
      <3>1. /\ runs' = runs /\ report' = report /\ pjob' = pjob
            /\ pending' = [pending EXCEPT ![a] = found]
            /\ ppc[a] = "scan" /\ ppc' = [ppc EXCEPT ![a] = "take"]
        BY <2>5 DEF Scan, PluginAt, PluginGoto, histVars, folderVars
      <3>2. CASE a # b
        <4> HIDE DEF found
        <4> QED
          BY <1>0, <3>1, <3>2 DEF Scannable
      <3>3. CASE a = b
        <4>1. j \in found <=> report[j] = "absent"
          BY <1>2, <3>3 DEF Folder
        <4>2. pjob[b] # j /\ ppc[b] = "scan" /\ ppc'[b] = "take"
          BY <1>0, <3>1, <3>3 DEF Listed, Working
        <4>3. pending'[b] = found
          BY <1>0, <3>1, <3>3
        <4> HIDE DEF found
        <4> QED
          BY <3>1, <4>1, <4>2, <4>3 DEF Scannable
      <3> QED
        BY <3>2, <3>3
    <2>6. ASSUME NEW a \in Agents, Take(a)
          PROVE  /\ Scannable(b, j)' => Scannable(b, j)
                 /\ \/ runs'[j] = runs[j] /\ (P2(b, j) => P(b, j))
                    \/ runs'[j] = runs[j] + 1 /\ P(b, j) /\ ~P2(b, j)
      <3>1. PICK k \in pending[a] :
                   /\ pending' = [pending EXCEPT ![a] = @ \ {k}]
                   /\ pjob' = [pjob EXCEPT ![a] = k]
                   /\ ppc' = [ppc EXCEPT ![a] = IF trigger[k] THEN "ready" ELSE "dead"]
                   /\ runs' = [runs EXCEPT ![k] = @ + 1]
        BY <2>6 DEF Take, PluginGoto
      <3>2. /\ k \in JobIds /\ trigger[k] /\ jobs[k].agent = a
            /\ ppc[a] = "take" /\ pjob[a] = 0 /\ report' = report
        BY <1>0, <2>6 DEF Take, PluginAt, Listed, Working, folderVars
      <3>3. CASE a # b
        BY <1>0, <1>2, <3>1, <3>2, <3>3 DEF Scannable
      <3>4. CASE a = b /\ k # j
        BY <1>0, <3>1, <3>2, <3>4 DEF Scannable
      <3>5. CASE a = b /\ k = j
        BY <1>0, <3>1, <3>2, <3>5 DEF Scannable
      <3> QED
        BY <3>3, <3>4, <3>5
    <2>7. ASSUME NEW a \in Agents, EditMap(a) \/ Validate(a) \/ Validated(a) \/ GiveUp(a)
          PROVE  /\ runs'[j] = runs[j] /\ (P2(b, j) => P(b, j))
                 /\ (Scannable(b, j)' => Scannable(b, j))
      <3>1. /\ runs' = runs /\ report' = report /\ pending' = pending /\ pjob' = pjob
            /\ ppc[a] \in {"ready", "open", "validate"}
            /\ \E l \in {"open", "validate", "write"} : ppc' = [ppc EXCEPT ![a] = l]
        BY <2>7 DEF EditMap, Validate, Validated, GiveUp, PluginAt, PluginGoto,
                    folderVars, histVars
      <3>2. ppc'[b] = ppc[b] \/ (ppc[b] \notin {"writing", "dead"} /\ ppc'[b] # "writing")
        BY <1>0, <3>1
      <3> QED
        BY <3>1, <3>2 DEF Scannable
    <2>8. ASSUME NEW a \in Agents, WriteBegin(a) \/ WriteEnd(a)
          PROVE  /\ runs'[j] = runs[j] /\ (P2(b, j) => P(b, j))
                 /\ (Scannable(b, j)' => Scannable(b, j))
      <3>1. /\ runs' = runs /\ pending' = pending /\ pjob[a] \in JobIds
            /\ jobs[pjob[a]].agent = a
        BY <2>8 DEF WriteBegin, WriteEnd, PluginAt, histVars, Listed, Working
      <3>2. CASE WriteBegin(a)
        <4>1. /\ report' = [report EXCEPT ![pjob[a]] = "partial"] /\ pjob' = pjob
              /\ ppc[a] = "write" /\ ppc' = [ppc EXCEPT ![a] = "writing"]
          BY <3>2 DEF WriteBegin, PluginAt, PluginGoto
        <4> QED
          BY <1>0, <1>2, <3>1, <4>1 DEF Scannable
      <3>3. CASE WriteEnd(a)
        <4>1. /\ report' = [report EXCEPT ![pjob[a]] = IF @ = "partial" THEN "full" ELSE @]
              /\ pjob' = [pjob EXCEPT ![a] = 0] /\ ppc[a] = "writing"
              /\ \E l \in {"scan", "take"} : ppc' = [ppc EXCEPT ![a] = l]
          BY <3>3 DEF WriteEnd, PluginAt, PluginGoto
        <4> QED
          BY <1>0, <1>2, <3>1, <4>1 DEF Scannable
      <3> QED
        BY <2>8, <3>2, <3>3
    <2>9. ASSUME NEW a \in Agents, GameCrash(a) \/ GameRestart(a)
          PROVE  /\ runs'[j] = runs[j] /\ (P2(b, j) => P(b, j))
                 /\ \/ Scannable(b, j)' => Scannable(b, j)
                    \/ P(b, j) /\ ~P2(b, j)
                    \/ cut'[j] = cut[j] + 1
      <3>1. /\ runs' = runs /\ report' = report
            /\ pending' = [pending EXCEPT ![a] = {}] /\ pjob' = [pjob EXCEPT ![a] = 0]
        BY <2>9 DEF GameCrash, GameRestart, folderVars, histVars
      <3>2. CASE a # b
        <4>1. ppc'[b] = ppc[b]
          BY <1>0, <2>9, <3>2 DEF GameCrash, GameRestart, PluginGoto
        <4> QED
          BY <1>0, <3>1, <3>2, <4>1 DEF Scannable
      <3>3. CASE a = b /\ pjob[b] # j
        BY <1>0, <3>1, <3>3 DEF Scannable
      <3>4. CASE a = b /\ pjob[b] = j
        <4>1. ppc[b] # "dead"
          BY <1>0, <3>4 DEF Listed, Working
        <4>2. cut'[j] = cut[j] + 1
          BY <1>0, <2>9, <3>4, <4>1 DEF GameCrash, GameRestart, PluginAt
        <4> QED
          BY <1>0, <3>1, <3>4, <4>2
      <3> QED
        BY <3>2, <3>3, <3>4
    <2>10. CASE UNCHANGED <<ppc, pending, pjob>>
      <3>1. CASE runs' = runs /\ report'[j] = report[j]
        BY <2>1, <2>4, <2>10, <3>1
      <3>2. CASE \E a \in Agents : Download(a) \/ ReadMalformed(a) \/ Ack(a)
        BY <2>1, <2>2, <2>3, <2>4, <3>2
      <3>3. CASE \E a \in Agents : WriteBegin(a) \/ WriteEnd(a)
        BY <2>1, <2>8, <3>3
      <3>4. CASE \E a \in Agents : Take(a)
        BY <2>1, <2>6, <3>4
      <3> QED
        BY <3>1, <3>2, <3>3, <3>4, Writers
    <2> HIDE DEF P, P2
    <2> QED
      BY <2>1, <2>5, <2>6, <2>7, <2>8, <2>9, <2>10, Writers
  <1>3. ASSUME NEW b \in Agents, NEW j \in JobIds, trigger'[j], jobs'[j].agent = b
        PROVE  /\ runs'[j] + Bit(j \in pending'[b]) + Bit(Scannable(b, j)')
                     + Bit(Removable(b, j)') <= 2 + cut'[j]
    <2>1. CASE trigger[j]
      <3>1. jobs[j].agent = b
        BY <1>0, <1>3, <2>1, RowsStep DEF Folder
      <3>2. runs[j] + Bit(P(b, j)) + Bit(Scannable(b, j)) + Bit(Removable(b, j))
              <= 2 + cut[j]
        BY <2>1, <3>1 DEF Budget
      <3>3. /\ runs[j] \in Nat /\ runs'[j] \in Nat
            /\ cut[j] \in Nat /\ cut'[j] \in Nat /\ cut[j] <= cut'[j]
        BY <1>0, <1>1
      <3> HIDE DEF P, P2
      <3>4. runs'[j] + Bit(P2(b, j)) + Bit(Scannable(b, j)') + Bit(Removable(b, j)')
               <= 2 + cut'[j]
        BY <1>2, <2>1, <3>1, <3>2, <3>3 DEF Bit
      <3> QED
        BY <3>4 DEF P2
    <2>2. CASE ~trigger[j]
      <3>1. PICK a \in Agents : DropTrigger(a) /\ ajob[a] = j
        BY <1>3, <2>2, TriggerStays
      <3>2. /\ runs' = runs /\ pending' = pending
        BY <3>1 DEF DropTrigger, histVars, pluginVars
      <3>3. runs[j] = 0 /\ j \notin pending[b]
        BY <2>2 DEF Folder, Listed
      <3>4. cut'[j] \in Nat
        BY <1>1
      <3> QED
        BY <3>2, <3>3, <3>4 DEF Bit
    <2> QED
      BY <2>1, <2>2
  <1> QED
    BY <1>3 DEF Budget
-----------------------------------------------------------------------------
(* Reports and verdicts *)

LEMMA EarnedStep ==
    ASSUME Types, Owners, Listed, Earned, [RigNext]_rigVars
    PROVE  Earned'
  <1>0. /\ runs \in [JobIds -> Nat] /\ acked \subseteq JobIds
        /\ report \in [JobIds -> {"absent", "partial", "full"}]
        /\ apc \in [Agents -> Labels]
    BY TypesAreParts DEF FolderPlaces, History, AgentPlaces
  <1>1. ASSUME NEW j \in JobIds, runs[j] > 0
        PROVE  runs'[j] > 0
    <2>1. ASSUME NEW a \in Agents, Take(a)
          PROVE  runs'[j] > 0
      BY <1>0, <1>1, <2>1 DEF Take
    <2> QED
      BY <1>1, <2>1, Writers
  <1>2. ASSUME NEW j \in JobIds, report'[j] # "absent"
        PROVE  runs[j] > 0
    <2>1. CASE report[j] # "absent"
      BY <2>1 DEF Earned
    <2>2. ASSUME NEW a \in Agents, Download(a) \/ ReadMalformed(a) \/ Ack(a)
          PROVE  report[j] # "absent"
      BY <1>0, <1>2, <2>2 DEF Download, ReadMalformed, Ack
    <2>3. ASSUME NEW a \in Agents, WriteBegin(a) \/ WriteEnd(a)
          PROVE  report[j] # "absent" \/ (j = pjob[a] /\ runs[j] > 0)
      <3>1. pjob[a] \in JobIds /\ runs[pjob[a]] > 0
        BY <2>3 DEF WriteBegin, WriteEnd, PluginAt, Listed, Working
      <3> QED
        BY <1>0, <1>2, <2>3, <3>1 DEF WriteBegin, WriteEnd
    <2> QED
      BY <1>2, <2>1, <2>2, <2>3, Writers
  <1>3. ASSUME NEW j \in acked'
        PROVE  j \in JobIds /\ runs[j] > 0
    <2>1. ASSUME NEW a \in Agents, Ack(a)
          PROVE  j \in acked \/ (j = ajob[a] /\ j \in JobIds /\ runs[j] > 0)
      BY <1>3, <2>1, AtHand DEF Ack, AgentAt, After, Earned
    <2>2. j \in acked => j \in JobIds /\ runs[j] > 0
      BY <1>0 DEF Earned
    <2> QED
      BY <1>3, <2>1, <2>2, Writers
  <1>4. acked \subseteq acked'
    <2>1. ASSUME NEW a \in Agents, Ack(a)
          PROVE  acked \subseteq acked'
      BY <2>1 DEF Ack
    <2> QED
      BY <2>1, Writers
  <1>5. ASSUME NEW b \in Agents
        PROVE  /\ apc'[b] = "ack" => runs'[ajob'[b]] > 0
               /\ apc'[b] = "ship" => ajob'[b] \in acked'
    <2>1. CASE apc'[b] = "ack"
      <3>1. /\ ajob'[b] = ajob[b] /\ apc[b] \in After
            /\ apc[b] = "ack" \/ ReadReport(b)
        BY <2>1, AgentMoves DEF AgentMoved, Between, Before, Ended
      <3>2. ajob[b] \in JobIds
        BY <3>1, AtHand
      <3>3. runs[ajob[b]] > 0
        BY <3>1, <3>2 DEF ReadReport, Earned
      <3> QED
        BY <1>1, <2>1, <3>1, <3>2, <3>3
    <2>2. CASE apc'[b] = "ship"
      <3>1. ajob'[b] = ajob[b] /\ (apc[b] = "ship" \/ Ack(b))
        BY <2>2, AgentMoves DEF AgentMoved, Between, Before, Ended
      <3>2. Ack(b) => ajob[b] \in acked'
        BY DEF Ack
      <3> QED
        BY <1>4, <2>2, <3>1, <3>2 DEF Earned
    <2> QED
      BY <2>1, <2>2
  <1>6. ASSUME NEW i \in DOMAIN jobs', jobs'[i].status = "complete"
        PROVE  jobs'[i].report /\ i \in acked' /\ runs'[i] > 0
    <2>1. CASE i \in DOMAIN jobs /\ jobs[i].status = "complete"
      <3>1. jobs[i].report /\ i \in acked
        BY <2>1 DEF Earned, CompleteIsEarned
      <3> QED
        BY <1>1, <1>3, <1>4, <2>1, <3>1, RowsStep
    <2>2. CASE jobs'[i].report /\ \E a \in Agents : apc[a] = "ship" /\ ajob[a] = i
      <3>1. i \in acked
        BY <2>2 DEF Earned
      <3> QED
        BY <1>1, <1>3, <1>4, <2>2, <3>1
    <2> QED
      BY <1>6, <2>1, <2>2, RowsStep
  <1> QED
    BY <1>1, <1>2, <1>3, <1>5, <1>6 DEF Earned, CompleteIsEarned

\* Unless something fails, an agent lets go of its job only with a verdict posted.
LEMMA LetGo ==
    ASSUME Types, Owners, [RigNext]_rigVars, NEW b \in Agents,
           apc[b] \in Before \cup After, ajob'[b] # ajob[b]
    PROVE  Fault \/ ShipReport(b) \/ ReportFail(b)
  <1>0. ajob \in [Agents -> JobIds \cup {0}] /\ apc[b] \notin Between
    BY TypesAreParts DEF AgentPlaces, Between, Before, After, Ended
  <1>1. ASSUME NEW a \in Agents,
               Stopped(a) \/ HeartbeatNotDue(a) \/ Heartbeat(a) \/ DropTrigger(a)
               \/ ReadReport(a) \/ ReadMalformed(a) \/ WaitExpired(a) \/ Ack(a) \/ Signal(a)
        PROVE  ajob' = ajob
    BY <1>1 DEF Stopped, HeartbeatNotDue, Heartbeat, DropTrigger, ReadReport, ReadMalformed,
                WaitExpired, Ack, Signal, agentVars
  <1>2. ASSUME NEW a \in Agents, Download(a) \/ Kill(a)
        PROVE  ajob' = ajob \/ Fault
    BY <1>2, Zenon DEF Download, Kill
  <1>3. ASSUME NEW a \in Agents, PostRunning(a)
        PROVE  ajob' = ajob \/ Fault
    BY <1>3, Zenon DEF PostRunning, Post
  <1>4. ASSUME NEW a \in Agents, Poll(a) \/ Restart(a)
        PROVE  ajob'[b] = ajob[b]
    <2>1. /\ apc[a] \in Between
          /\ ajob' = ajob \/ \E k : ajob' = [ajob EXCEPT ![a] = k]
      BY <1>4 DEF Poll, Restart, Abandon, Leave, AgentAt, Between, Ended
    <2>2. a # b
      BY <1>0, <2>1
    <2> QED
      BY <1>0, <2>1, <2>2
  <1>5. ASSUME NEW a \in Agents, ShipReport(a) \/ ReportFail(a), a # b
        PROVE  ajob'[b] = ajob[b]
    <2>1. ajob' = ajob \/ ajob' = [ajob EXCEPT ![a] = 0]
      BY <1>5, Zenon DEF ShipReport, ReportFail, Post, Abandon, Leave
    <2> QED
      BY <1>0, <1>5, <2>1
  <1>6. ASSUME NEW a \in Agents, PluginStep(a) \/ GameStep(a) \/ GameCrash(a) \/ GameRestart(a)
        PROVE  ajob' = ajob
    BY <1>6 DEF PluginStep, GameStep, GameCrash, GameRestart, Scan, Take, EditMap,
                Validate, Validated, GiveUp, WriteBegin, WriteEnd, agentVars
  <1>7. Enqueue \/ (\E j \in JobIds : Cancel(j)) \/ Tick => ajob' = ajob
    BY DEF Enqueue, Cancel, Tick, agentVars
  <1>8. UNCHANGED rigVars => ajob' = ajob
    BY DEF rigVars, agentVars
  <1>9. CASE \E a \in Agents : AgentStep(a) \/ PluginStep(a) \/ GameStep(a)
    BY <1>1, <1>2, <1>3, <1>4, <1>5, <1>6, <1>9 DEF AgentStep
  <1>10. CASE \E a \in Agents :
              Signal(a) \/ Kill(a) \/ Restart(a) \/ GameCrash(a) \/ GameRestart(a)
    BY <1>1, <1>2, <1>4, <1>6, <1>10
  <1> QED
    BY <1>7, <1>8, <1>9, <1>10 DEF RigNext

\* What becomes of a row whose verdict is posted and nothing fails.
LEMMA VerdictPosted ==
    ASSUME Types, Owners, NEW b \in Agents, ShipReport(b) \/ ReportFail(b), ~Fault
    PROVE  /\ ajob[b] \in DOMAIN jobs
           /\ jobs'[ajob[b]].status \in Terminal
           /\ ShipReport(b) /\ jobs[ajob[b]].status \in {"claimed", "running"} =>
                 jobs'[ajob[b]].report
  <1>1. ajob[b] \in DOMAIN jobs /\ jobs[ajob[b]].agent = b /\ b # NoAgent
    BY PostingHandler, RigAssumption
  <1>2. PICK to \in Terminal, rep \in BOOLEAN :
           Post(b, to, rep, "top") /\ (ShipReport(b) => rep)
    BY DEF ShipReport, ReportFail, Terminal
  <1>3. to \in JobStatus
    BY DEF JobStatus
  <1>4. /\ \/ jobs'[ajob[b]] = jobs[ajob[b]]
           \/ jobs'[ajob[b]].status = to
        /\ MayMove(jobs[ajob[b]], to, b) => jobs'[ajob[b]].status = to
        /\ MayMove(jobs[ajob[b]], to, b) /\ rep => jobs'[ajob[b]].report
    BY <1>1, <1>2, <1>3, PostOutcome
  <1>5. jobs[ajob[b]].status \in {"claimed", "running"} \cup Terminal
    <2>1. jobs[ajob[b]].status \in JobStatus /\ jobs[ajob[b]].status # "queued"
      BY <1>1, TypesAreParts, TableFacts DEF Table, Owners
    <2> QED
      BY <2>1 DEF JobStatus
  <1>6. jobs[ajob[b]].status \in {"claimed", "running"} => MayMove(jobs[ajob[b]], to, b)
    BY <1>1, MoveIn
  <1> QED
    BY <1>1, <1>2, <1>4, <1>5, <1>6

LEMMA HandledStep ==
    ASSUME Types, Owners, Handled, [RigNext]_rigVars
    PROVE  Handled'
  <1>0. faults \in Nat /\ faults' \in Nat /\ 0 \notin JobIds
    BY TypesAreParts, TypesStep, Constants DEF History, JobIds
  <1>1. SUFFICES ASSUME faults' = 0, NEW i \in DOMAIN jobs', jobs'[i].agent # NoAgent,
                        jobs'[i].status \notin Terminal
                 PROVE  ajob'[jobs'[i].agent] = i
    BY DEF Handled
  <1>2. faults = 0 /\ ~Fault
    BY <1>0, <1>1, FaultsGrow DEF Fault
  <1>3. i \in DOMAIN jobs
    BY <1>1, RowsStep
  <1>4. CASE jobs'[i].agent = jobs[i].agent
    <2> DEFINE b == jobs[i].agent
    <2>1. b \in Agents /\ i \in JobIds
      <3>1. jobs \in Seq(RowType) /\ Len(jobs) <= MaxJobs
        BY TypesAreParts DEF Table
      <3>2. jobs[i].agent \in Agents \cup {NoAgent} /\ i \in 1..Len(jobs)
        BY <1>3, <3>1, TableFacts
      <3> QED
        BY <1>1, <1>4, <3>1, <3>2, Constants DEF JobIds
    <2>2. jobs[i].status \notin Terminal
      BY <1>1, <1>3, RowsStep
    <2>3. ajob[b] = i
      BY <1>1, <1>2, <1>3, <1>4, <2>2 DEF Handled
    <2>4. apc[b] \in Before \cup After
      BY <1>0, <2>1, <2>3, TypesAreParts
         DEF AgentPlaces, Labels, Owners, Between, Before, After
    <2> HIDE DEF b
    <2>5. ajob'[b] = ajob[b]
      BY <1>1, <1>2, <2>1, <2>3, <2>4, LetGo, VerdictPosted
    <2> QED
      BY <1>4, <2>3, <2>5 DEF b
  <1>5. \/ jobs'[i].agent = jobs[i].agent
        \/ \E a \in Agents : jobs'[i].agent = a /\ ajob'[a] = i
    BY <1>1, <1>2, RowsStep, ZenonT(40)
  <1>6. CASE \E a \in Agents : jobs'[i].agent = a /\ ajob'[a] = i
    BY <1>6
  <1> QED
    BY <1>4, <1>5, <1>6
-----------------------------------------------------------------------------
(* The inductive invariant and what follows from it *)

LEMMA RigInitial ==
    ASSUME RigInit
    PROVE  RigInv
  <1> USE DEF RigInit
  <1>1. Types
    <2>1. /\ jobs \in Seq(RowType) /\ Len(jobs) <= MaxJobs
          /\ 0 \in 0..(Timeout + Extra) /\ 0 \in 0..(OpenWait + ValidateWait)
          /\ 0 \in 0..MaxFaults
      BY Constants
    <2>2. Table /\ AgentPlaces /\ FolderPlaces /\ PluginPlaces /\ History
      BY <2>1 DEF Table, AgentPlaces, FolderPlaces, PluginPlaces, History, Labels, PluginLabels
    <2> QED
      BY <2>2, TypesAreParts
  <1>2. Owners /\ Folder
    BY DEF Owners, Folder, Between, Before, After, Ended
  <1>3. Listed
    BY DEF Listed, Working
  <1>4. Budget
    BY DEF Budget
  <1>5. Earned /\ Handled
    BY DEF Earned, CompleteIsEarned, Handled
  <1> QED
    BY <1>1, <1>2, <1>3, <1>4, <1>5 DEF RigInv

LEMMA RigInductive ==
    ASSUME RigInv, [RigNext]_rigVars
    PROVE  RigInv'
  <1>1. Types /\ Owners /\ Folder /\ Listed /\ Budget /\ Earned /\ Handled
    BY DEF RigInv
  <1>2. Types' /\ Owners' /\ Folder' /\ Listed' /\ Budget' /\ Earned' /\ Handled'
    BY <1>1, TypesStep, OwnersStep, FolderStep, ListedStep, BudgetStep, EarnedStep,
       HandledStep
  <1> QED
    BY <1>2 DEF RigInv

\* RigInv holds in every reachable state of any number of rigs, with any number
\* of failures, kills, crashes and restarts.
THEOREM RigInvariant == RigSpec => []RigInv
  BY RigInitial, RigInductive, PTL DEF RigSpec

LEMMA RigInvIsSafe ==
    ASSUME RigInv
    PROVE  PluginSafe /\ CompleteIsEarned /\ CleanStop
  <1>1. Types /\ Owners /\ Folder /\ Listed /\ Budget /\ Earned /\ Handled
    BY DEF RigInv
  <1>2. RigTypeOK /\ CompleteIsEarned
    BY <1>1 DEF Types, Earned
  <1>3. TriggerStillThere
    BY <1>1 DEF Listed, TriggerStillThere
  <1>4. ASSUME NEW j \in JobIds
        PROVE  runs[j] <= 2 + cut[j]
    <2>1. runs[j] \in Nat /\ cut[j] \in Nat
      BY <1>1, TypesAreParts DEF History
    <2>2. CASE trigger[j]
      <3>1. jobs[j].agent \in Agents
        BY <1>1, <2>2 DEF Folder
      <3>2. PICK a \in Agents : jobs[j].agent = a
        BY <3>1
      <3>3. runs[j] + Bit(j \in pending[a]) + Bit(Scannable(a, j)) + Bit(Removable(a, j))
           <= 2 + cut[j]
        BY <1>1, <2>2, <3>2 DEF Budget
      <3> QED
        BY <2>1, <3>3 DEF Bit
    <2>3. CASE ~trigger[j]
      BY <1>1, <2>1, <2>3 DEF Folder
    <2> QED
      BY <2>2, <2>3
  <1>5. CleanStop
    <2>1. SUFFICES ASSUME NEW a \in Agents, apc[a] = "stopped", faults = 0,
                          NEW j \in DOMAIN jobs, jobs[j].agent = a
                   PROVE  jobs[j].status \in Terminal
      BY DEF CleanStop
    <2>2. ajob[a] = 0 /\ a # NoAgent /\ j # 0
      BY <1>1, <2>1, RigAssumption, TypesAreParts, TableFacts
         DEF Owners, Between, Ended, Table
    <2> QED
      BY <1>1, <2>1, <2>2 DEF Handled
  <1> QED
    BY <1>2, <1>3, <1>4, <1>5 DEF PluginSafe, RunsBounded

\* No trigger disappears between the plugin's scan and its read of it, and a job
\* is run twice at most and once more for each run a crash of the game cut short:
\* for any number of rigs, failures, and restarts of agents and games.
THEOREM PluginIsSafe == RigSpec => []PluginSafe
  BY RigInvariant, RigInvIsSafe, PTL

\* A job is complete only with its own rig's telemetry, and an agent that was told
\* to stop has left no job behind: for any number of rigs.
THEOREM VerdictsAreEarned == RigSpec => [](CompleteIsEarned /\ CleanStop)
  BY RigInvariant, RigInvIsSafe, PTL

\* With one rig, a job in hand stays under way, or somebody cancels it.
LEMMA InHand ==
    ASSUME Types, Owners, OneRig, [RigNext]_rigVars, NEW b \in Agents,
           apc[b] \in Before \cup After, apc'[b] \in Before \cup After,
           jobs[ajob[b]].status \in {"claimed", "running", "cancelled"}
    PROVE  jobs'[ajob[b]].status \in {"claimed", "running", "cancelled"}
  <1> DEFINE j == ajob[b]
             Good == jobs'[j].status \in {"claimed", "running", "cancelled"}
  <1>0. /\ jobs \in Seq(RowType) /\ j \in DOMAIN jobs
        /\ apc \in [Agents -> Labels] /\ apc'[b] # "top" /\ apc[b] # "poll"
    BY TypesAreParts, AtHand DEF Table, AgentPlaces, Before, After
  <1>1. CASE Enqueue
    <2>1. jobs' = Append(jobs, Fresh)
      BY <1>1 DEF Enqueue
    <2>2. jobs'[j] = jobs[j]
      <3> HIDE DEF Fresh, j
      <3> QED
        BY <1>0, <2>1
    <2> QED
      BY <2>2
  <1>2. ASSUME NEW k \in JobIds, Cancel(k)
        PROVE  Good
    <2>1. CASE k = j
      BY <1>0, <1>2, <2>1, CancelledRows
    <2>2. CASE k # j
      BY <1>0, <1>2, <2>2, CancelledRows
    <2> QED
      BY <2>1, <2>2
  <1>3. CASE Tick
    BY <1>0, <1>3, TickedRows
  <1>4. ASSUME NEW a \in Agents
        PROVE  ~Poll(a) /\ ~ShipReport(a) /\ ~ReportFail(a)
    <2>1. a = b
      BY DEF OneRig
    <2>2. ShipReport(a) \/ ReportFail(a) => apc' = [apc EXCEPT ![a] = "top"]
      BY Zenon DEF ShipReport, ReportFail, Post, Abandon, Leave, AgentGoto
    <2> QED
      BY <1>0, <2>1, <2>2 DEF Poll, AgentAt
  <1>5. ASSUME NEW a \in Agents, PostRunning(a)
        PROVE  Good
    <2>1. a = b
      BY DEF OneRig
    <2>2. Post(a, "running", FALSE, "drop")
      BY <1>5 DEF PostRunning
    <2>3. jobs'[j] = jobs[j] \/ jobs'[j].status = "running"
      BY <1>0, <2>1, <2>2, PostOutcome DEF JobStatus
    <2> QED
      BY <2>3
  <1>6. CASE UNCHANGED jobs
    BY <1>6
  <1> QED
    BY <1>1, <1>2, <1>3, <1>4, <1>5, <1>6
       DEF RigNext, rigVars, serverVars, AgentStep, PluginStep, GameStep, Stopped,
           HeartbeatNotDue, Heartbeat, Download, DropTrigger, ReadReport, ReadMalformed,
           WaitExpired, Ack, Signal, Kill, Restart, GameCrash, GameRestart, Scan, Take, EditMap,
           Validate, Validated, GiveUp, WriteBegin, WriteEnd

\* What Undisturbed says survives every step of a single rig.
LEMMA UndisturbedStep ==
    ASSUME RigInv, RigInv', OneRig, Undisturbed, [RigNext]_rigVars
    PROVE  Undisturbed'
  <1>0. /\ Types /\ Owners /\ Folder /\ Listed /\ Earned
        /\ faults \in Nat /\ faults' \in Nat
        /\ jobs \in Seq(RowType)
    BY TypesAreParts DEF RigInv, History, Table
  <1>1. SUFFICES ASSUME faults' = 0
                 PROVE  /\ \A a \in Agents : apc'[a] \in After \cup Before =>
                              jobs'[ajob'[a]].status \in {"claimed", "running", "cancelled"}
                        /\ TelemetryKept'
    BY DEF Undisturbed
  <1>2. ~Fault /\ faults = 0
    BY <1>0, <1>1, FaultsGrow DEF Fault
  <1>3. /\ \A a \in Agents : apc[a] \in After \cup Before =>
              jobs[ajob[a]].status \in {"claimed", "running", "cancelled"}
        /\ TelemetryKept
    BY <1>2 DEF Undisturbed
  <1>4. ASSUME NEW b \in Agents, apc'[b] \in After \cup Before
        PROVE  jobs'[ajob'[b]].status \in {"claimed", "running", "cancelled"}
    <2>1. CASE apc[b] \in Before \cup After /\ ajob'[b] = ajob[b]
      BY <1>0, <1>2, <1>3, <1>4, <2>1, InHand
    <2>2. CASE jobs'[ajob'[b]].status = "claimed"
      BY <2>2
    <2>3. DropTrigger(b) => apc[b] \in Before
      BY DEF DropTrigger, AgentAt, Before
    <2>4. apc'[b] \notin Between
      BY <1>4 DEF Between, Before, After, Ended
    <2> QED
      BY <1>0, <2>1, <2>2, <2>3, <2>4, AgentMoves DEF AgentMoved
  <1>5. ASSUME NEW j \in acked'
        PROVE  \/ jobs'[j].report \/ jobs'[j].status = "cancelled"
               \/ \E a \in Agents : ajob'[a] = j /\ apc'[a] = "ship"
    <2>1. ASSUME NEW a \in Agents, Ack(a), j = ajob[a]
          PROVE  ajob'[a] = j /\ apc'[a] = "ship"
      BY <1>0, <2>1, TypesAreParts DEF Ack, AgentGoto, AgentPlaces
    <2>2. CASE j \in acked
      <3>1. j \in DOMAIN jobs
        <4>1. j \in JobIds /\ runs[j] > 0
          BY <1>0, <2>2, TypesAreParts DEF History, Earned
        <4> QED
          BY <1>0, <4>1 DEF Folder
      <3>2. CASE jobs[j].report \/ jobs[j].status = "cancelled"
        BY <1>0, <3>1, <3>2, RowsStep DEF Terminal
      <3>3. ASSUME NEW a \in Agents, ajob[a] = j, apc[a] = "ship"
            PROVE  \/ jobs'[j].report \/ jobs'[j].status = "cancelled"
                   \/ ajob'[a] = j /\ apc'[a] = "ship"
        <4>1. apc[a] \in After /\ jobs[j].status \in {"claimed", "running", "cancelled"}
          BY <1>3, <3>3 DEF After
        <4>2. CASE ajob'[a] # ajob[a]
          <5>1. ShipReport(a)
            BY <1>0, <1>2, <3>3, <4>1, <4>2, LetGo DEF ReportFail
          <5> QED
            <6>1. CASE jobs[j].status = "cancelled"
              BY <1>0, <3>1, <6>1, RowsStep DEF Terminal
            <6>2. CASE jobs[j].status \in {"claimed", "running"}
              BY <1>0, <1>2, <3>3, <5>1, <6>2, VerdictPosted
            <6> QED
              BY <4>1, <6>1, <6>2
        <4>3. CASE ajob'[a] = ajob[a]
          <5>1. ajob[a] # 0 /\ apc[a] \notin Before /\ apc[a] # "poll"
            BY <1>0, <3>3, <4>1, AtHand DEF Before
          <5>2. ~DropTrigger(a)
            BY <3>3 DEF DropTrigger, AgentAt
          <5> QED
            BY <1>0, <3>3, <4>3, <5>1, <5>2, AgentMoves DEF AgentMoved
        <4> QED
          BY <4>2, <4>3
      <3> QED
        BY <1>3, <2>2, <3>2, <3>3 DEF TelemetryKept
    <2>3. j \in acked \/ \E a \in Agents : Ack(a) /\ j = ajob[a]
      <3>1. ASSUME NEW a \in Agents, Ack(a)
            PROVE  j \in acked \/ j = ajob[a]
        BY <1>5, <3>1 DEF Ack
      <3> QED
        BY <1>5, <3>1, Writers
    <2> QED
      BY <2>1, <2>2, <2>3
  <1> QED
    BY <1>4, <1>5 DEF TelemetryKept

\* With one rig and nothing failing, telemetry that was read is at the server or
\* on its way there, unless the job was cancelled.
THEOREM SingleRigReports ==
    ASSUME OneRig
    PROVE  RigSpec => []ReportsSafe
  <1>1. RigInit => Undisturbed
    BY DEF RigInit, Undisturbed, TelemetryKept, Before, After
  <1>2. ASSUME RigInv, RigInv', Undisturbed, [RigNext]_rigVars
        PROVE  Undisturbed'
    BY <1>2, UndisturbedStep
  <1>3. ASSUME RigInv, Undisturbed
        PROVE  ReportsSafe
    BY <1>3, RigInvIsSafe DEF ReportsSafe, QuietTelemetryKept, Undisturbed
  <1> QED
    BY <1>1, <1>2, <1>3, RigInvariant, PTL DEF RigSpec
=============================================================================
