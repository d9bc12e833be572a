---------------------------- MODULE RemoteTestRig ----------------------------
(***************************************************************************)
(* The whole remote-test loop: the queue server, the agents that poll it,  *)
(* the plugin inside the game on each agent's machine, and the folder of   *)
(* trigger (.in.json) and report (.out.json) files an agent and its plugin *)
(* share.                                                                  *)
(*                                                                         *)
(* The server's requests are atomic here: JobStore proves that one server  *)
(* process serialises them.  A job is claimed at most once, so it has one  *)
(* rig, that of its owner, and its two files are indexed by the job alone. *)
(*                                                                         *)
(* Time is relative: `age` counts the seconds since a job was claimed (one *)
(* past the timeout is enough to be expired) until it has a verdict,       *)
(* `left` the seconds until the deadline written into a job's trigger,     *)
(* `window` the seconds until the plugin gives up on its present wait.  So *)
(* time passes for ever and the state space is finite.                     *)
(*                                                                         *)
(* Every HTTP call of an agent may be answered with an error, may not      *)
(* reach the server, or may be carried out and its answer lost.  Agents    *)
(* may be killed and the game may crash, and both may be started again.    *)
(* MaxFaults bounds the failures.                                          *)
(***************************************************************************)
EXTENDS JobStates, Integers, Sequences, FiniteSets

CONSTANTS MaxJobs,        \* bound: jobs submitted
          MaxFaults,      \* bound: failed calls, kills and crashes
          Timeout,        \* timeout_seconds of every job
          Extra,          \* plugin_wait_max_extra_s
          OpenWait,       \* EDITOR_OPEN_WAIT_SECONDS
          ValidateWait,   \* VALIDATE_WAIT_SECONDS
          MayRestart,     \* are agents that ended started again?
          MayStop         \* do operators send SIGTERM?

ASSUME RigAssumption ==
    /\ NoAgent \notin Agents
    /\ {MaxJobs, MaxFaults, Extra} \subseteq Nat
    /\ {Timeout, OpenWait, ValidateWait} \subseteq Nat \ {0}
    /\ {MayRestart, MayStop} \subseteq BOOLEAN

JobIds == 1..MaxJobs

VARIABLES jobs,     \* server: the jobs table
          seen,     \* server: agents with a heartbeat row
          apc,      \* agent -> where run_agent and _handle_job are
          ajob,     \* agent -> the job it handles, or 0
          stop,     \* agent -> shutdown_requested
          trigger,  \* job -> is <job>.in.json in its rig's folder?
          left,     \* job -> seconds until deadline_unix
          report,   \* job -> state of <job>.out.json
          ppc,      \* agent -> where its plugin is
          pending,  \* agent -> what the plugin's scan still has to process
          pjob,     \* agent -> the job its plugin processes, or 0
          window,   \* agent -> seconds left of the plugin's present wait
          runs,     \* history: how often the plugin started on a job
          cut,      \* history: how many of those a crash of the game cut short
          acked,    \* history: jobs whose report an agent ingested
          faults

serverVars == <<jobs, seen>>
agentVars  == <<apc, ajob, stop>>
folderVars == <<trigger, left, report>>
pluginVars == <<ppc, pending, pjob, window>>
histVars   == <<runs, cut, acked, faults>>
rigVars == <<serverVars, agentVars, folderVars, pluginVars, histVars>>

Fresh == [status |-> "queued", agent |-> NoAgent, report |-> FALSE, age |-> 0]

RigInit ==
    /\ jobs = << >>
    /\ seen = {}
    /\ apc = [a \in Agents |-> "top"]
    /\ ajob = [a \in Agents |-> 0]
    /\ stop = [a \in Agents |-> FALSE]
    /\ trigger = [j \in JobIds |-> FALSE]
    /\ left = [j \in JobIds |-> 0]
    /\ report = [j \in JobIds |-> "absent"]
    /\ ppc = [a \in Agents |-> "scan"]
    /\ pending = [a \in Agents |-> {}]
    /\ pjob = [a \in Agents |-> 0]
    /\ window = [a \in Agents |-> 0]
    /\ runs = [j \in JobIds |-> 0]
    /\ cut = [j \in JobIds |-> 0]
    /\ acked = {}
    /\ faults = 0

Fault == faults < MaxFaults /\ faults' = faults + 1
-----------------------------------------------------------------------------
(* The server *)

Enqueue ==
    /\ Len(jobs) < MaxJobs
    /\ jobs' = Append(jobs, Fresh)
    /\ UNCHANGED <<seen, agentVars, folderVars, pluginVars, histVars>>

\* A row with its new status; nobody asks for its age after a verdict.
Posted(row, to) == [row EXCEPT !.status = to, !.age = IF to \in Terminal THEN 0 ELSE @]

\* An operator posts status cancelled, naming no agent.
Cancel(j) ==
    /\ j \in DOMAIN jobs
    /\ MayMove(jobs[j], "cancelled", NoAgent)
    /\ jobs' = [jobs EXCEPT ![j] = Posted(@, "cancelled")]
    /\ UNCHANGED <<seen, agentVars, folderVars, pluginVars, histVars>>

\* Mutant: a sweep that forgets running jobs.
SweptClaimedOnly(table) ==
    [i \in DOMAIN table |->
        IF table[i].status = "claimed" /\ table[i].age > Timeout
        THEN Posted(table[i], "timed_out") ELSE table[i]]

\* sweep_timeouts
Swept(table) ==
    [i \in DOMAIN table |->
        IF table[i].status \in {"claimed", "running"} /\ table[i].age > Timeout
        THEN Posted(table[i], "timed_out") ELSE table[i]]

\* claim_next: the oldest queued job, or 0.
Oldest(table) ==
    LET queued == {i \in DOMAIN table : table[i].status = "queued"}
    IN  IF queued = {} THEN 0 ELSE CHOOSE i \in queued : \A k \in queued : i <= k

Claimed(table, a) ==
    LET i == Oldest(table)
    IN  IF i = 0 THEN table
        ELSE [table EXCEPT ![i].status = "claimed", ![i].agent = a, ![i].age = 0]

\* transition; a move the graph or the owner forbids is a 409 and no change.
Moved(j, to, a, withReport) ==
    IF MayMove(jobs[j], to, a)
    THEN [jobs EXCEPT ![j] = [Posted(jobs[j], to) EXCEPT !.report = @ \/ withReport]]
    ELSE jobs
-----------------------------------------------------------------------------
(* The agent *)

\* An agent process that is no longer there: told to stop, killed, or ended
\* by an exception.
Ended == {"stopped", "killed", "raised"}

AgentAt(a, label) == apc[a] = label
AgentGoto(a, label) == apc' = [apc EXCEPT ![a] = label]

\* _handle_job is over, or the process is.
Leave(a, label) == AgentGoto(a, label) /\ ajob' = [ajob EXCEPT ![a] = 0]

\* An exception _handle_job does not catch: the loop logs it and goes on.
Abandon(a) == Leave(a, "top")

\* while not shutdown_requested: the heartbeat, if it is due.
Stopped(a) ==
    /\ AgentAt(a, "top") /\ stop[a]
    /\ AgentGoto(a, "stopped")
    /\ UNCHANGED <<serverVars, ajob, stop, folderVars, pluginVars, histVars>>

HeartbeatNotDue(a) ==
    /\ AgentAt(a, "top") /\ ~stop[a]
    /\ AgentGoto(a, "poll")
    /\ UNCHANGED <<serverVars, ajob, stop, folderVars, pluginVars, histVars>>

Heartbeat(a) ==
    /\ AgentAt(a, "top") /\ ~stop[a]
    /\ \/ seen' = seen \cup {a} /\ AgentGoto(a, "poll") /\ UNCHANGED faults
       \/ UNCHANGED seen /\ AgentGoto(a, "poll") /\ Fault      \* HTTP error
       \/ seen' \in {seen, seen \cup {a}}                      \* no answer
          /\ AgentGoto(a, "raised") /\ Fault
    /\ UNCHANGED <<jobs, ajob, stop, folderVars, pluginVars, runs, cut, acked>>

\* client.claim_next.  Only RemoteTestHTTPError is caught.
Poll(a) ==
    LET table == Swept(jobs)
        j     == Oldest(table)
    IN  /\ AgentAt(a, "poll")
        /\ \/ /\ jobs' = Claimed(table, a)
              /\ ajob' = [ajob EXCEPT ![a] = j]
              /\ AgentGoto(a, IF j = 0 THEN "top" ELSE "download")
              /\ UNCHANGED faults
           \/ AgentGoto(a, "top") /\ Fault /\ UNCHANGED <<jobs, ajob>>
           \/ jobs' \in {jobs, Claimed(table, a)}
              /\ AgentGoto(a, "raised") /\ Fault /\ UNCHANGED ajob
        /\ UNCHANGED <<seen, stop, folderVars, pluginVars, runs, cut, acked>>

\* clear_stale, then the download and its checks.
Download(a) ==
    /\ AgentAt(a, "download")
    /\ trigger' = [trigger EXCEPT ![ajob[a]] = FALSE]
    /\ report' = [report EXCEPT ![ajob[a]] = "absent"]
    /\ \/ AgentGoto(a, "running") /\ UNCHANGED <<ajob, faults>>
       \/ AgentGoto(a, "failed") /\ Fault /\ UNCHANGED ajob  \* 410, size, sha256
       \/ Abandon(a) /\ Fault                                \* no answer
    /\ UNCHANGED <<serverVars, stop, left, pluginVars, runs, cut, acked>>

\* client.post_status: 200 and 409 alike return, an HTTP error is logged,
\* no answer raises out of _handle_job.
Post(a, to, withReport, next) ==
    LET moved == Moved(ajob[a], to, a, withReport)
        done  == IF next = "top" THEN Abandon(a)
                 ELSE AgentGoto(a, next) /\ UNCHANGED ajob
    IN  \/ jobs' = moved /\ done /\ UNCHANGED faults
        \/ UNCHANGED jobs /\ done /\ Fault
        \/ jobs' \in {jobs, moved} /\ Abandon(a) /\ Fault

PostRunning(a) ==
    /\ AgentAt(a, "running")
    /\ Post(a, "running", FALSE, "drop")
    /\ UNCHANGED <<seen, stop, folderVars, pluginVars, runs, cut, acked>>

DropTrigger(a) ==
    /\ AgentAt(a, "drop")
    /\ trigger' = [trigger EXCEPT ![ajob[a]] = TRUE]
    /\ left' = [left EXCEPT ![ajob[a]] = Timeout + Extra]
    /\ AgentGoto(a, "wait")
    /\ UNCHANGED <<serverVars, ajob, stop, report, pluginVars, histVars>>

\* wait_for_report: a report, a report that does not parse (removed, if the
\* removal succeeds), or the deadline.
ReadReport(a) ==
    /\ AgentAt(a, "wait") /\ left[ajob[a]] > 0 /\ report[ajob[a]] = "full"
    /\ AgentGoto(a, "ack")
    /\ UNCHANGED <<serverVars, ajob, stop, folderVars, pluginVars, histVars>>

ReadMalformed(a) ==
    /\ AgentAt(a, "wait") /\ left[ajob[a]] > 0 /\ report[ajob[a]] = "partial"
    /\ report' \in {report, [report EXCEPT ![ajob[a]] = "absent"]}
    /\ AgentGoto(a, "timed_out")
    /\ UNCHANGED <<serverVars, ajob, stop, trigger, left, pluginVars, histVars>>

WaitExpired(a) ==
    /\ AgentAt(a, "wait") /\ left[ajob[a]] = 0
    /\ AgentGoto(a, "timed_out")
    /\ UNCHANGED <<serverVars, ajob, stop, folderVars, pluginVars, histVars>>

\* plugin.ack: remove the report before it is shipped.
Ack(a) ==
    /\ AgentAt(a, "ack")
    /\ report' = [report EXCEPT ![ajob[a]] = "absent"]
    /\ acked' = acked \cup {ajob[a]}
    /\ AgentGoto(a, "ship")
    /\ UNCHANGED <<serverVars, ajob, stop, trigger, left, pluginVars, runs, cut, faults>>

\* Mutant: the status is posted without the report.
ShipWithoutReport(a) ==
    /\ AgentAt(a, "ship")
    /\ Post(a, "complete", FALSE, "top")
    /\ UNCHANGED <<seen, stop, folderVars, pluginVars, runs, cut, acked>>

ShipReport(a) ==
    /\ AgentAt(a, "ship")
    /\ Post(a, "complete", TRUE, "top")
    /\ UNCHANGED <<seen, stop, folderVars, pluginVars, runs, cut, acked>>

ReportFail(a) ==
    /\ apc[a] \in {"failed", "timed_out"}
    /\ Post(a, apc[a], FALSE, "top")
    /\ UNCHANGED <<seen, stop, folderVars, pluginVars, runs, cut, acked>>

\* SIGINT or SIGTERM, a kill or a power loss, and a supervisor that starts
\* the agent again.
Signal(a) ==
    /\ MayStop /\ apc[a] \notin Ended /\ ~stop[a]
    /\ stop' = [stop EXCEPT ![a] = TRUE]
    /\ UNCHANGED <<serverVars, apc, ajob, folderVars, pluginVars, histVars>>

Kill(a) ==
    /\ apc[a] \notin Ended
    /\ Leave(a, "killed") /\ Fault
    /\ UNCHANGED <<serverVars, stop, folderVars, pluginVars, runs, cut, acked>>

Restart(a) ==
    /\ MayRestart /\ apc[a] \in {"killed", "raised"}
    /\ Abandon(a)
    /\ stop' = [stop EXCEPT ![a] = FALSE]
    /\ UNCHANGED <<serverVars, folderVars, pluginVars, histVars>>
-----------------------------------------------------------------------------
(* The plugin *)

PluginAt(a, label) == ppc[a] = label
PluginGoto(a, label) == ppc' = [ppc EXCEPT ![a] = label]

\* Mutant: the scan does not look for reports.
ScanAll(a) ==
    /\ PluginAt(a, "scan")
    /\ pending' = [pending EXCEPT ![a] =
                     {j \in DOMAIN jobs : jobs[j].agent = a /\ trigger[j]}]
    /\ pending'[a] # {}
    /\ PluginGoto(a, "take")
    /\ UNCHANGED <<serverVars, agentVars, folderVars, pjob, window, histVars>>

\* ScanForPending: triggers without a report beside them.  The order of a
\* folder listing is not specified.
Scan(a) ==
    /\ PluginAt(a, "scan")
    /\ pending' = [pending EXCEPT ![a] =
                     {j \in DOMAIN jobs : /\ jobs[j].agent = a
                                          /\ trigger[j]
                                          /\ report[j] = "absent"}]
    /\ pending'[a] # {}
    /\ PluginGoto(a, "take")
    /\ UNCHANGED <<serverVars, agentVars, folderVars, pjob, window, histVars>>

\* The next of the list.  ReadJson does not look whether the trigger is
\* still there: one that has gone since the scan ends Main.
Take(a) ==
    /\ PluginAt(a, "take")
    /\ \E j \in pending[a] :
          /\ pending' = [pending EXCEPT ![a] = @ \ {j}]
          /\ pjob' = [pjob EXCEPT ![a] = j]
          /\ PluginGoto(a, IF trigger[j] THEN "ready" ELSE "dead")
          /\ runs' = [runs EXCEPT ![j] = @ + 1]
    /\ UNCHANGED <<serverVars, agentVars, folderVars, window, cut, acked, faults>>

\* The title is ready and the editor is asked to open the map.
EditMap(a) ==
    /\ PluginAt(a, "ready")
    /\ window' = [window EXCEPT ![a] = OpenWait]
    /\ PluginGoto(a, "open")
    /\ UNCHANGED <<serverVars, agentVars, folderVars, pending, pjob, histVars>>

\* The map is open and validation starts.
Validate(a) ==
    /\ PluginAt(a, "open") /\ window[a] > 0 /\ left[pjob[a]] > 0
    /\ window' = [window EXCEPT ![a] = ValidateWait]
    /\ PluginGoto(a, "validate")
    /\ UNCHANGED <<serverVars, agentVars, folderVars, pending, pjob, histVars>>

\* Validated or NotValidable.
Validated(a) ==
    /\ PluginAt(a, "validate") /\ window[a] > 0 /\ left[pjob[a]] > 0
    /\ PluginGoto(a, "write")
    /\ UNCHANGED <<serverVars, agentVars, folderVars, pending, pjob, window, histVars>>

\* A wait that has run out: the title was never ready, the editor did not
\* open, the validation did not settle.
GiveUp(a) ==
    /\ \/ PluginAt(a, "ready") /\ left[pjob[a]] = 0
       \/ ppc[a] \in {"open", "validate"} /\ (window[a] = 0 \/ left[pjob[a]] = 0)
    /\ PluginGoto(a, "write")
    /\ UNCHANGED <<serverVars, agentVars, folderVars, pending, pjob, window, histVars>>

\* WriteOut: Json::ToFile creates the file and fills it.
WriteBegin(a) ==
    /\ PluginAt(a, "write")
    /\ report' = [report EXCEPT ![pjob[a]] = "partial"]
    /\ PluginGoto(a, "writing")
    /\ UNCHANGED <<serverVars, agentVars, trigger, left, pending, pjob, window, histVars>>

WriteEnd(a) ==
    /\ PluginAt(a, "writing")
    /\ report' = [report EXCEPT ![pjob[a]] = IF @ = "partial" THEN "full" ELSE @]
    /\ pjob' = [pjob EXCEPT ![a] = 0]
    /\ PluginGoto(a, IF pending[a] = {} THEN "scan" ELSE "take")
    /\ UNCHANGED <<serverVars, agentVars, trigger, left, pending, window, histVars>>

\* The game crashes, is closed, or unloads the plugin: what the plugin had
\* listed is forgotten, and the run it was in the middle of is cut short.
GameCrash(a) ==
    /\ ~PluginAt(a, "dead")
    /\ PluginGoto(a, "dead") /\ Fault
    /\ pending' = [pending EXCEPT ![a] = {}]
    /\ pjob' = [pjob EXCEPT ![a] = 0]
    /\ cut' = [j \in JobIds |-> IF j = pjob[a] THEN cut[j] + 1 ELSE cut[j]]
    /\ UNCHANGED <<serverVars, agentVars, folderVars, window, runs, acked>>

\* The game is started again, or the plugin is loaded again: Main starts over
\* with a scan of the folder as it is.
GameRestart(a) ==
    /\ PluginAt(a, "dead")
    /\ PluginGoto(a, "scan")
    /\ pending' = [pending EXCEPT ![a] = {}]
    /\ pjob' = [pjob EXCEPT ![a] = 0]
    /\ UNCHANGED <<serverVars, agentVars, folderVars, window, histVars>>
-----------------------------------------------------------------------------
Down(n) == IF n = 0 THEN 0 ELSE n - 1

Tick ==
    /\ jobs' = [i \in DOMAIN jobs |->
                  IF jobs[i].status \in {"claimed", "running"}
                  THEN [jobs[i] EXCEPT !.age = IF @ > Timeout THEN @ ELSE @ + 1]
                  ELSE jobs[i]]
    /\ left' = [j \in JobIds |-> Down(left[j])]
    /\ window' = [a \in Agents |-> Down(window[a])]
    /\ UNCHANGED <<seen, agentVars, trigger, report, ppc, pending, pjob, histVars>>

AgentStep(a) ==
    \/ Stopped(a) \/ HeartbeatNotDue(a) \/ Heartbeat(a) \/ Poll(a)
    \/ Download(a) \/ PostRunning(a) \/ DropTrigger(a)
    \/ ReadReport(a) \/ ReadMalformed(a) \/ WaitExpired(a)
    \/ Ack(a) \/ ShipReport(a) \/ ReportFail(a)

\* What the plugin does by itself; opening and validating are up to the game.
PluginStep(a) ==
    Scan(a) \/ Take(a) \/ GiveUp(a) \/ WriteBegin(a) \/ WriteEnd(a)

GameStep(a) == EditMap(a) \/ Validate(a) \/ Validated(a)

RigNext ==
    \/ Enqueue
    \/ \E j \in JobIds : Cancel(j)
    \/ \E a \in Agents : AgentStep(a) \/ PluginStep(a) \/ GameStep(a)
    \/ \E a \in Agents : Signal(a) \/ Kill(a) \/ Restart(a)
    \/ \E a \in Agents : GameCrash(a) \/ GameRestart(a)
    \/ Tick

\* The processes run and time passes.  Nothing is assumed of the game, of
\* operators or of failures; Restart is fair where agents are supervised.
RigFairness ==
    /\ WF_rigVars(Tick)
    /\ \A a \in Agents : /\ WF_rigVars(AgentStep(a))
                         /\ WF_rigVars(PluginStep(a))
                         /\ WF_rigVars(Restart(a))

RigSpec == RigInit /\ [][RigNext]_rigVars /\ RigFairness
-----------------------------------------------------------------------------
(* Properties *)

\* Every variable has its type; in particular the deadline drop_trigger writes
\* is never further away than timeout + plugin_wait_max_extra_s.
RigTypeOK ==
    /\ jobs \in Seq([status : JobStatus, agent : Agents \cup {NoAgent},
                      report : BOOLEAN, age : 0..(Timeout + 1)])
    /\ seen \subseteq Agents
    /\ apc \in [Agents -> {"top", "poll", "download", "running", "drop", "wait",
                            "ack", "ship", "failed", "timed_out"} \cup Ended]
    /\ ajob \in [Agents -> JobIds \cup {0}]
    /\ stop \in [Agents -> BOOLEAN]
    /\ trigger \in [JobIds -> BOOLEAN]
    /\ left \in [JobIds -> 0..(Timeout + Extra)]
    /\ report \in [JobIds -> {"absent", "partial", "full"}]
    /\ ppc \in [Agents -> {"scan", "take", "ready", "open", "validate",
                            "write", "writing", "dead"}]
    /\ pending \in [Agents -> SUBSET JobIds]
    /\ pjob \in [Agents -> JobIds \cup {0}]
    /\ window \in [Agents -> 0..(OpenWait + ValidateWait)]
    /\ runs \in [JobIds -> Nat]
    /\ cut \in [JobIds -> Nat]
    /\ acked \subseteq JobIds
    /\ faults \in 0..MaxFaults

\* No trigger the plugin has listed disappears before the plugin gets to it.
\* ReadJson opens the file unconditionally and nothing catches its
\* exception, so one vanished trigger would end the plugin until somebody
\* loads it again.
TriggerStillThere == \A a \in Agents, j \in JobIds : j \in pending[a] => trigger[j]

\* The trigger stays after the report is acknowledged, so the plugin runs the
\* job again; the second report is nobody's and stops a third run.  Only a
\* crash of the game buys more: a restarted plugin takes the run the crash cut
\* short once again, never one it has reported.
RunsBounded == \A j \in JobIds : runs[j] <= 2 + cut[j]

\* An agent told to stop finishes its job first (README.md:86: "SIGINT /
\* SIGTERM finish the current job cleanly before exiting").
CleanStop ==
    \A a \in Agents : apc[a] = "stopped" /\ faults = 0 =>
        \A j \in DOMAIN jobs : jobs[j].agent = a => jobs[j].status \in Terminal

\* Telemetry an agent has read is at the server, or on its way there, or the
\* job was cancelled (README.md:55: "agent reads telemetry, POSTs upstream,
\* deletes"; README.md:75: the agent waits "up to timeout + slack").
TelemetryKept ==
    \A j \in acked : \/ jobs[j].report
                      \/ jobs[j].status = "cancelled"
                      \/ \E a \in Agents : ajob[a] = j /\ apc[a] = "ship"

\* While nothing fails that holds for a single rig: no report is dropped
\* between the folder and the server, however the plugin's second run of a
\* finished job delays the next one.
QuietTelemetryKept == faults = 0 => TelemetryKept

\* A job is complete only with the telemetry its own rig's plugin wrote.
CompleteIsEarned ==
    \A j \in DOMAIN jobs : jobs[j].status = "complete" =>
        jobs[j].report /\ j \in acked /\ runs[j] > 0

\* Every job that was submitted gets a verdict.
EveryJobEnds ==
    \A j \in JobIds : j \in DOMAIN jobs ~>
                         j \in DOMAIN jobs /\ jobs[j].status \in Terminal

\* The plugin comes back from every job: each of its waits has a deadline.
PluginReturns ==
    \A a \in Agents : ppc[a] = "ready" ~> ppc[a] \in {"scan", "take", "dead"}
\* The plugin's folder stays usable: triggers it has listed are there, and
\* no job is run for ever, however often agents and games are restarted.
PluginSafe == RigTypeOK /\ TriggerStillThere /\ RunsBounded

\* Telemetry and verdict belong together: complete is earned, what was read
\* arrives, and a stopped agent leaves no job behind.
ReportsSafe == CompleteIsEarned /\ QuietTelemetryKept /\ CleanStop

\* Every wait of the rig ends, the submitter's and the plugin's.
WaitsEnd == EveryJobEnds /\ PluginReturns
=============================================================================
