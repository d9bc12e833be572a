---------------------------- MODULE ActionWorker ----------------------------
(***************************************************************************)
(* The operator layer of the web dashboard: ActionWorker runs one CLI      *)
(* action at a time in a thread of its own, collects its output in a       *)
(* bounded deque, and the request threads of Flask start runs, read their  *)
(* state (ActionRun.to_dict) and stream their output (tail_stream).        *)
(*                                                                         *)
(* There are two locks.  The worker's protects `current` and `last` and is *)
(* held by _finish while it fills in the run; the run's protects the deque *)
(* and is held by to_dict and tail_stream while they read the run.  So a   *)
(* reader and _finish do not exclude each other: the assignments of the    *)
(* one and the reads of the other are separate actions here.               *)
(***************************************************************************)
EXTENDS Integers, Sequences, FiniteSets

CONSTANTS Pollers,    \* threads that serve GET /api/actions/status
          Streams,    \* threads that serve GET /api/actions/<run>/log
          Cap,        \* _LOG_TAIL_SIZE
          MaxRuns,    \* bound: accepted starts
          MaxLines,   \* bound: lines a run prints
          MaxFaults   \* bound: threads that cannot be started

ASSUME WorkerAssumption ==
    /\ Pollers \cap Streams = {}
    /\ "free" \notin Pollers \cup Streams
    /\ {Cap, MaxRuns} \subseteq Nat \ {0}
    /\ MaxFaults \in Nat /\ MaxLines \in Nat \ {0, 1}

RunIds == 1..MaxRuns

VARIABLES runs,     \* runs accepted so far: the fields _finish writes
          current,  \* ActionWorker._current, 0 for None
          last,     \* ActionWorker._last_completed, 0 for None
          wlock,    \* is ActionWorker._lock held (by the _finish of a run)?
          rlock,    \* run -> the reader that holds ActionRun._lock
          runner,   \* run -> where its thread is
          alive,    \* runs whose subprocess exists
          code,     \* run -> exit code the thread is about to report
          log,      \* run -> lines appended so far
          poll,     \* poller -> where it is, the run, and what it has read
          stream,   \* stream -> where tail_stream is, and its locals
          faults

vars == <<runs, current, last, wlock, rlock, runner, alive, code, log, poll,
          stream, faults>>

None == -1

\* completed_at, exit_code and status of an ActionRun.
Started == [done |-> FALSE, code |-> None, status |-> "running"]

NoPoll == [at |-> "idle", run |-> 0, done |-> FALSE, code |-> None,
           status |-> "running"]

NoStream == [at |-> "idle", run |-> 0, cursor |-> 0, low |-> 0, size |-> 0,
             running |-> TRUE, sent |-> {}]

Init ==
    /\ runs = << >>
    /\ current = 0 /\ last = 0
    /\ wlock = FALSE
    /\ rlock = [r \in RunIds |-> "free"]
    /\ runner = [r \in RunIds |-> "none"]
    /\ alive = {}
    /\ code = [r \in RunIds |-> 0]
    /\ log = [r \in RunIds |-> 0]
    /\ poll = [p \in Pollers |-> NoPoll]
    /\ stream = [s \in Streams |-> NoStream]
    /\ faults = 0

readers == <<rlock, poll, stream>>
-----------------------------------------------------------------------------
(* POST /api/actions/<name> and the thread it starts *)

Busy == current # 0 /\ runs[current].status = "running"

\* ActionWorker.start; while Busy it raises BusyError (409), changing nothing.
Start ==
    /\ ~wlock /\ Len(runs) < MaxRuns
    /\ ~Busy
    /\ runs' = Append(runs, Started)
    /\ current' = Len(runs')
    /\ UNCHANGED <<last, wlock, readers, runner, alive, code, log, faults>>

\* thread.start(), after the lock is released: it may raise.
StartThread(r) ==
    /\ r \in DOMAIN runs /\ runner[r] = "none"
    /\ \/ runner' = [runner EXCEPT ![r] = "begin"] /\ UNCHANGED faults
       \/ /\ faults < MaxFaults /\ faults' = faults + 1
          /\ runner' = [runner EXCEPT ![r] = "refused"]
    /\ UNCHANGED <<runs, current, last, wlock, readers, alive, code, log>>

\* append_log takes the run's lock for the one append.
AppendLog(r) == /\ rlock[r] = "free"
                /\ log' = [log EXCEPT ![r] = @ + 1]

\* The first line: of a no-op, which is then over, or of a command.
Begin(r) ==
    /\ runner[r] = "begin"
    /\ AppendLog(r)
    /\ runner' \in {[runner EXCEPT ![r] = "finish"], [runner EXCEPT ![r] = "spawn"]}
    /\ UNCHANGED <<runs, current, last, wlock, readers, alive, code, faults>>

\* subprocess.Popen
Spawn(r) ==
    /\ runner[r] = "spawn"
    /\ \/ /\ runner' = [runner EXCEPT ![r] = "reading"]
          /\ alive' = alive \cup {r}
       \/ /\ runner' = [runner EXCEPT ![r] = "error"]
          /\ UNCHANGED alive
    /\ UNCHANGED <<runs, current, last, wlock, readers, code, log, faults>>

\* for line in proc.stdout
Output(r) ==
    /\ runner[r] = "reading" /\ log[r] < MaxLines - 1
    /\ AppendLog(r)
    /\ UNCHANGED <<runs, current, last, wlock, readers, runner, alive, code, faults>>

\* Reading raises (output that is not text): nobody ends the process.
OutputRaises(r) ==
    /\ runner[r] = "reading"
    /\ runner' = [runner EXCEPT ![r] = "error"]
    /\ UNCHANGED <<runs, current, last, wlock, readers, alive, code, log, faults>>

OrphanEnds(r) ==
    /\ r \in alive /\ runner[r] # "reading"
    /\ alive' = alive \ {r}
    /\ UNCHANGED <<runs, current, last, wlock, readers, runner, code, log, faults>>

\* The process closes its output and proc.wait returns.
Exit(r) ==
    /\ runner[r] = "reading"
    /\ code' \in {[code EXCEPT ![r] = c] : c \in {0, 1}}
    /\ runner' = [runner EXCEPT ![r] = "finish"]
    /\ alive' = alive \ {r}
    /\ UNCHANGED <<runs, current, last, wlock, readers, log, faults>>

\* Mutant: the error is logged and that is all.
WorkerErrorOnly(r) ==
    /\ runner[r] = "error"
    /\ AppendLog(r)
    /\ code' = [code EXCEPT ![r] = 1]
    /\ runner' = [runner EXCEPT ![r] = "over"]
    /\ UNCHANGED <<runs, current, last, wlock, readers, alive, faults>>

\* except Exception: a line, and exit code 1.
WorkerError(r) ==
    /\ runner[r] = "error"
    /\ AppendLog(r)
    /\ code' = [code EXCEPT ![r] = 1]
    /\ runner' = [runner EXCEPT ![r] = "finish"]
    /\ UNCHANGED <<runs, current, last, wlock, readers, alive, faults>>

\* _finish, assignment by assignment, under the worker's lock only.
FinishTime(r) ==
    /\ runner[r] = "finish" /\ ~wlock
    /\ wlock' = TRUE
    /\ runs' = [runs EXCEPT ![r].done = TRUE]
    /\ runner' = [runner EXCEPT ![r] = "finish_code"]
    /\ UNCHANGED <<current, last, readers, alive, code, log, faults>>

FinalStatus(r) == IF code[r] = 0 THEN "success" ELSE "failed"

\* Mutant: the status is written before the exit code.
StatusThenCode(r, step) ==
    IF step = "finish_code" THEN [runs EXCEPT ![r].status = FinalStatus(r)]
                            ELSE [runs EXCEPT ![r].code = code[r]]

CodeThenStatus(r, step) ==
    IF step = "finish_code" THEN [runs EXCEPT ![r].code = code[r]]
                            ELSE [runs EXCEPT ![r].status = FinalStatus(r)]

FinishCode(r) ==
    /\ runner[r] = "finish_code"
    /\ runs' = CodeThenStatus(r, "finish_code")
    /\ runner' = [runner EXCEPT ![r] = "finish_status"]
    /\ UNCHANGED <<current, last, wlock, readers, alive, code, log, faults>>

FinishStatus(r) ==
    /\ runner[r] = "finish_status"
    /\ runs' = CodeThenStatus(r, "finish_status")
    /\ runner' = [runner EXCEPT ![r] = "finish_end"]
    /\ UNCHANGED <<current, last, wlock, readers, alive, code, log, faults>>

\* _last_completed, _current, and the end of the with block.
FinishEnd(r) ==
    /\ runner[r] = "finish_end"
    /\ last' = r /\ current' = 0
    /\ wlock' = FALSE
    /\ runner' = [runner EXCEPT ![r] = "over"]
    /\ UNCHANGED <<runs, readers, alive, code, log, faults>>
-----------------------------------------------------------------------------
worker == <<runs, current, last, wlock, runner, alive, code, log, faults>>

Lock(r, who) == rlock[r] = "free" /\ rlock' = [rlock EXCEPT ![r] = who]
Unlock(r) == rlock' = [rlock EXCEPT ![r] = "free"]

(* to_dict of the current or the last run, read by read *)

PollFind(p) ==
    /\ poll[p].at = "idle" /\ ~wlock
    /\ \E r \in {current, last} \ {0} :
          poll' = [poll EXCEPT ![p] = [NoPoll EXCEPT !.at = "found", !.run = r]]
    /\ UNCHANGED <<worker, rlock, stream>>

PollTime(p) ==
    /\ poll[p].at = "found"
    /\ Lock(poll[p].run, p)
    /\ poll' = [poll EXCEPT ![p].at = "status", ![p].done = runs[poll[p].run].done]
    /\ UNCHANGED <<worker, stream>>

PollStatus(p) ==
    /\ poll[p].at = "status"
    /\ poll' = [poll EXCEPT ![p].at = "code", ![p].status = runs[poll[p].run].status]
    /\ UNCHANGED <<worker, rlock, stream>>

PollCode(p) ==
    /\ poll[p].at = "code"
    /\ poll' = [poll EXCEPT ![p].at = "got", ![p].code = runs[poll[p].run].code]
    /\ Unlock(poll[p].run)
    /\ UNCHANGED <<worker, stream>>

PollReply(p) ==
    /\ poll[p].at = "got"
    /\ poll' = [poll EXCEPT ![p] = NoPoll]
    /\ UNCHANGED <<worker, rlock, stream>>

(* _find_run, then tail_stream from offset 0 *)

Lookup(which) == IF which = "first" THEN current ELSE last

FindFirst(s, r) ==
    /\ stream[s].at = "idle" /\ r \in DOMAIN runs /\ ~wlock
    /\ stream' = [stream EXCEPT ![s] =
                    [NoStream EXCEPT !.run = r,
                       !.at = IF Lookup("first") = r THEN "snap" ELSE "find"]]
    /\ UNCHANGED <<worker, rlock, poll>>

FindSecond(s) ==
    /\ stream[s].at = "find" /\ ~wlock
    /\ stream' = [stream EXCEPT ![s].at =
                    IF Lookup("second") = stream[s].run THEN "snap" ELSE "gone"]
    /\ UNCHANGED <<worker, rlock, poll>>

Least(a, b) == IF a < b THEN a ELSE b

\* snapshot = list(run.log_tail), and with the lock still held the status.
Snap(s) ==
    LET r == stream[s].run
    IN  /\ stream[s].at = "snap"
        /\ Lock(r, s)
        /\ stream' = [stream EXCEPT ![s].at = "status",
                                    ![s].size = Least(log[r], Cap),
                                    ![s].low = log[r] - Least(log[r], Cap)]
        /\ UNCHANGED <<worker, poll>>

Status(s) ==
    /\ stream[s].at = "status"
    /\ Unlock(stream[s].run)
    /\ stream' = [stream EXCEPT ![s].at = "decide",
                    ![s].running = runs[stream[s].run].status = "running"]
    /\ UNCHANGED <<worker, poll>>

\* if cursor < len(snapshot): yield what lies beyond the cursor.
Yield(s) ==
    LET t == stream[s]
    IN  /\ t.at = "decide" /\ t.cursor < t.size
        /\ stream' = [stream EXCEPT ![s].at = "snap", ![s].cursor = t.size,
                        ![s].sent = @ \cup (t.low + t.cursor + 1)..(t.low + t.size)]
        /\ UNCHANGED <<worker, rlock, poll>>

\* if not is_running: return
StreamDone(s) ==
    /\ stream[s].at = "decide" /\ stream[s].cursor >= stream[s].size
    /\ ~stream[s].running
    /\ stream' = [stream EXCEPT ![s].at = "done"]
    /\ UNCHANGED <<worker, rlock, poll>>

\* The action is silent: look again after a pause, or give up at the idle
\* deadline.
Idle(s) ==
    /\ stream[s].at = "decide" /\ stream[s].cursor >= stream[s].size
    /\ stream[s].running
    /\ stream' \in {[stream EXCEPT ![s].at = "snap"],
                    [stream EXCEPT ![s].at = "timeout"]}
    /\ UNCHANGED <<worker, rlock, poll>>

StreamClosed(s) ==
    /\ stream[s].at \in {"done", "timeout", "gone"}
    /\ stream' = [stream EXCEPT ![s] = NoStream]
    /\ UNCHANGED <<worker, rlock, poll>>
-----------------------------------------------------------------------------
\* What the runner's thread does by itself; when the process writes, ends or
\* fails is not up to it.
RunnerStep(r) ==
    \/ StartThread(r) \/ Begin(r) \/ Spawn(r) \/ WorkerError(r)
    \/ FinishTime(r) \/ FinishCode(r) \/ FinishStatus(r) \/ FinishEnd(r)

ProcessStep(r) == Output(r) \/ OutputRaises(r) \/ Exit(r) \/ OrphanEnds(r)

PollStep(p) == \/ PollFind(p) \/ PollTime(p) \/ PollStatus(p) \/ PollCode(p)
               \/ PollReply(p)

StreamStep(s) == \/ \E r \in RunIds : FindFirst(s, r)
                 \/ FindSecond(s) \/ Snap(s) \/ Status(s) \/ Yield(s)
                 \/ StreamDone(s) \/ Idle(s) \/ StreamClosed(s)

Next ==
    \/ Start
    \/ \E r \in RunIds : RunnerStep(r) \/ ProcessStep(r)
    \/ \E p \in Pollers : PollStep(p)
    \/ \E s \in Streams : StreamStep(s)

\* Threads run, and a lock that is free again and again is got in the end.
Fairness ==
    /\ \A r \in RunIds : SF_vars(RunnerStep(r))
    /\ \A p \in Pollers : WF_vars(PollStatus(p) \/ PollCode(p))
    /\ \A s \in Streams : WF_vars(Status(s))

Spec == Init /\ [][Next]_vars /\ Fairness
-----------------------------------------------------------------------------
(* Properties *)

\* Every variable has its type; in particular the cursor of tail_stream never
\* leaves the deque and the locks are held by readers that exist.
TypeOK ==
    /\ runs \in Seq([done : BOOLEAN, code : {None, 0, 1},
                     status : {"running", "success", "failed"}])
    /\ {current, last} \subseteq 0..Len(runs)
    /\ wlock \in BOOLEAN
    /\ rlock \in [RunIds -> Pollers \cup Streams \cup {"free"}]
    /\ runner \in [RunIds -> {"none", "refused", "begin", "spawn", "reading",
                     "error", "finish", "finish_code", "finish_status",
                     "finish_end", "over"}]
    /\ alive \subseteq RunIds
    /\ code \in [RunIds -> {None, 0, 1}]
    /\ log \in [RunIds -> 0..MaxLines]
    /\ poll \in [Pollers -> [at : {"idle", "found", "status", "code", "got"},
                   run : 0..MaxRuns, done : BOOLEAN, code : {None, 0, 1},
                   status : {"running", "success", "failed"}]]
    /\ stream \in [Streams -> [at : {"idle", "find", "gone", "snap",
                      "status", "decide", "done", "timeout"},
                     run : 0..MaxRuns, cursor : 0..Cap, low : 0..MaxLines, size : 0..Cap,
                     running : BOOLEAN, sent : SUBSET (1..MaxLines)]]
    /\ faults \in 0..MaxFaults

\* ActionWorker is a "Single-action-at-a-time runner" (actions.py:303): two
\* subprocesses run side by side only if the worker has lost the output of
\* one of them to a reading error.
OneAtATime ==
    Cardinality({r \in alive : runner[r] = "reading"}) <= 1

\* A reader that sees a final status also sees the exit code, although it
\* does not exclude _finish: the code is written before the status and read
\* after it.
SnapshotHasCode ==
    \A p \in Pollers : poll[p].at = "got" /\ poll[p].status # "running" =>
        /\ poll[p].code # None
        /\ (poll[p].code = 0) = (poll[p].status = "success")

\* A log request is answered 404 only if the run is neither the current one
\* nor the last one, also when it finishes between the two lookups.
GoneIsGone ==
    \A s \in Streams : stream[s].at = "gone" => stream[s].run \notin {current, last}

\* A stream that ends because the action completed has sent every line the
\* deque holds (actions.py:410: "stops at idle timeout or when the action
\* completes and all lines are consumed").
StreamComplete ==
    \A s \in Streams : stream[s].at = "done" =>
        LET n == log[stream[s].run]
        IN  (n - Least(n, Cap) + 1)..n \subseteq stream[s].sent

\* One action runs at a time and those who ask see it as it is: the four
\* conditions above.
ReadersSeeTheTruth ==
    TypeOK /\ OneAtATime /\ SnapshotHasCode /\ GoneIsGone /\ StreamComplete

\* When the process has ended, however it ended, the worker takes the next
\* action in the end.
BusyEnds ==
    \A r \in RunIds : runner[r] \in {"error", "finish"} ~> current # r
=============================================================================
