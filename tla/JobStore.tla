------------------------------- MODULE JobStore -------------------------------
(***************************************************************************)
(* The remote-test queue server: the Flask handlers of server.py that      *)
(* write, and JobStore of storage.py under them.                           *)
(*                                                                         *)
(* Every write is a SELECT followed by an UPDATE, and `_lock` is held from *)
(* before the one until after the other.  The lock lives in a process:     *)
(* threads of one worker process exclude each other, threads of two        *)
(* workers (gunicorn with workers > 1) do not.  So SELECT and UPDATE are   *)
(* separate actions, and `lock` has one entry per worker.                  *)
(*                                                                         *)
(* enqueue handles the artifact file before it takes the lock: it looks    *)
(* whether the file exists, opens it (which truncates it), fills it, and   *)
(* only then inserts the row.                                              *)
(*                                                                         *)
(* Every operation reads the clock BEFORE it takes the lock, so the time   *)
(* it writes may be up to LockWait old.                                    *)
(***************************************************************************)
EXTENDS JobRows, FiniteSets

CONSTANTS Threads,         \* request threads of the server
          NoThread,        \* "the lock is free"
          Workers,         \* worker processes
          WorkerOf,        \* the process a thread belongs to
          PostedStatuses,  \* the statuses clients send to POST .../status
          MaxJobs,         \* bound: rows in the table
          MaxClock,        \* bound: seconds that pass
          LockWait,        \* bound: seconds between reading the clock and writing
          MaxCrashes       \* bound: server crashes

ASSUME StoreAssumption ==
    /\ NoThread \notin Threads
    /\ WorkerOf \in [Threads -> Workers]
    /\ PostedStatuses \subseteq JobStatus
    /\ MaxJobs \in Nat /\ MaxClock \in Nat /\ LockWait \in Nat
    /\ MaxCrashes \in Nat
    /\ Threads \cap {"absent", "full", "torn"} = {}

VARIABLES jobs,     \* the jobs table
          files,    \* artifact directory: "absent", "full", "torn", or the
                    \* thread that truncated the file and is filling it
          lock,     \* worker -> the thread in its `with self._lock` block
          pc,       \* thread -> where its request is
          op,       \* thread -> the locals of its request
          clock,    \* wall clock, in seconds
          granted,  \* history: <<agent, job>> pairs served by GET /jobs/next
          crashes

vars == <<jobs, files, lock, pc, op, clock, granted, crashes>>

\* What a request remembers between its steps.
Request == [agent : Agents \cup {NoAgent}, art : Artifacts \cup {"none"},
            job : Nat, rows : SUBSET Nat, to : JobStatus, now : Nat,
            report : Reports \cup {NoReport}, timeout : Timeouts \cup {0}]

NoRequest == [agent |-> NoAgent, art |-> "none", job |-> 0, rows |-> {},
              to |-> "queued", now |-> 0, report |-> NoReport, timeout |-> 0]

\* The program counters of a thread that holds its worker's lock.
Locked == {"sweep", "claim", "move"}

\* The program counters of a thread inside enqueue.
Enqueuing == {"open", "write", "insert"}

\* The times a request that gets the lock now may have read.
Recent == {n \in 0..clock : n + LockWait >= clock}

\* The bound on rows counts the requests that will insert one.
Room == Len(jobs) + Cardinality({t \in Threads : pc[t] \in Enqueuing}) < MaxJobs

Init ==
    /\ jobs = << >>
    /\ files = [a \in Artifacts |-> "absent"]
    /\ lock = [w \in Workers |-> NoThread]
    /\ pc = [t \in Threads |-> "idle"]
    /\ op = [t \in Threads |-> NoRequest]
    /\ clock = 0
    /\ granted = {}
    /\ crashes = 0

\* Mutant: the lock is looked at and not taken.
AcquireNothing(t) == /\ lock[WorkerOf[t]] = NoThread
                     /\ UNCHANGED lock

Acquire(t) == /\ lock[WorkerOf[t]] = NoThread
              /\ lock' = [lock EXCEPT ![WorkerOf[t]] = t]

Release(t) == lock' = [lock EXCEPT ![WorkerOf[t]] = NoThread]

Goto(t, label, request) == /\ pc' = [pc EXCEPT ![t] = label]
                           /\ op' = [op EXCEPT ![t] = request]

Return(t) == Goto(t, "idle", NoRequest)
-----------------------------------------------------------------------------
(* POST /jobs *)

\* target.exists() answers True and the content hashes to the digest.  If it
\* does not (the file is still being filled, or was torn by a crash) the
\* request is refused with a 400 and nothing changes.
EnqueueFound(t, art, timeout) ==
    /\ pc[t] = "idle" /\ Room
    /\ files[art] = "full"
    /\ Goto(t, "insert", [NoRequest EXCEPT !.art = art, !.timeout = timeout])
    /\ UNCHANGED <<jobs, files, lock, clock, granted, crashes>>

\* Mutant: the row is inserted without its file.
EnqueueWithoutFile(t, art, timeout) ==
    /\ pc[t] = "idle" /\ Room
    /\ files[art] = "absent"
    /\ Goto(t, "insert", [NoRequest EXCEPT !.art = art, !.timeout = timeout])
    /\ UNCHANGED <<jobs, files, lock, clock, granted, crashes>>

\* target.exists() answers False.
EnqueueAbsent(t, art, timeout) ==
    /\ pc[t] = "idle" /\ Room
    /\ files[art] = "absent"
    /\ Goto(t, "open", [NoRequest EXCEPT !.art = art, !.timeout = timeout])
    /\ UNCHANGED <<jobs, files, lock, clock, granted, crashes>>

\* target.write_bytes opens the file, which truncates whatever is there.
EnqueueOpen(t) ==
    /\ pc[t] = "open"
    /\ files' = [files EXCEPT ![op[t].art] = t]
    /\ Goto(t, "write", op[t])
    /\ UNCHANGED <<jobs, lock, clock, granted, crashes>>

\* ... and fills it.  A writer that was truncated under its feet leaves the
\* completion to the writer that truncated last.
EnqueueWritten(t) ==
    /\ pc[t] = "write"
    /\ files' = [files EXCEPT ![op[t].art] = IF @ = t THEN "full" ELSE @]
    /\ Goto(t, "insert", op[t])
    /\ UNCHANGED <<jobs, lock, clock, granted, crashes>>

\* The INSERT: one statement, taken and committed under the lock.
EnqueueInsert(t) ==
    /\ pc[t] = "insert"
    /\ lock[WorkerOf[t]] = NoThread
    /\ \E now \in Recent :
          jobs' = Append(jobs, NewRow(op[t].art, op[t].timeout, now))
    /\ Return(t)
    /\ UNCHANGED <<files, lock, clock, granted, crashes>>
-----------------------------------------------------------------------------
(* GET /jobs/next: sweep_timeouts, then claim_next, then the reply *)

SweepSelect(t, a) ==
    /\ pc[t] = "idle"
    /\ Acquire(t)
    /\ \E now \in Recent :
          Goto(t, "sweep",
               [NoRequest EXCEPT !.agent = a, !.now = now,
                  !.rows = {i \in DOMAIN jobs : Expired(jobs[i], now)}])
    /\ UNCHANGED <<jobs, files, clock, granted, crashes>>

SweepUpdate(t) ==
    /\ pc[t] = "sweep"
    /\ jobs' = [i \in DOMAIN jobs |-> IF i \in op[t].rows
                                      THEN SweptRow(jobs[i], op[t].now)
                                      ELSE jobs[i]]
    /\ Release(t)
    /\ Goto(t, "swept", [NoRequest EXCEPT !.agent = op[t].agent])
    /\ UNCHANGED <<files, clock, granted, crashes>>

\* Mutant: claim_next selects the row before it takes the lock.
ClaimSelectUnlocked(t) ==
    /\ pc[t] = "swept"
    /\ \E now \in Recent, i \in DOMAIN jobs :
          /\ IsOldestQueued(jobs, i)
          /\ Goto(t, "claim", [op[t] EXCEPT !.job = i, !.now = now])
    /\ UNCHANGED <<jobs, files, lock, clock, granted, crashes>>

ClaimSelect(t) ==
    /\ pc[t] = "swept"
    /\ Acquire(t)
    /\ \E now \in Recent, i \in DOMAIN jobs :
          /\ IsOldestQueued(jobs, i)
          /\ Goto(t, "claim", [op[t] EXCEPT !.job = i, !.now = now])
    /\ UNCHANGED <<jobs, files, clock, granted, crashes>>

\* Nothing is queued: 204.
ClaimNothing(t) ==
    /\ pc[t] = "swept"
    /\ lock[WorkerOf[t]] = NoThread
    /\ Queued(jobs) = {}
    /\ Return(t)
    /\ UNCHANGED <<jobs, files, lock, clock, granted, crashes>>

\* UPDATE ... WHERE id = ? AND status = 'queued'.  Whether a row matched is
\* not looked at.
ClaimUpdate(t) ==
    /\ pc[t] = "claim"
    /\ LET i == op[t].job
       IN  jobs' = IF jobs[i].status = "queued"
                   THEN [jobs EXCEPT ![i] =
                           ClaimedRow(@, op[t].agent, op[t].now)]
                   ELSE jobs
    /\ Release(t)
    /\ Goto(t, "reply", op[t])
    /\ UNCHANGED <<files, clock, granted, crashes>>

\* self.get(job_id) after the lock is released; 200 with the job.
ClaimReply(t) ==
    /\ pc[t] = "reply"
    /\ granted' = granted \cup {<<op[t].agent, op[t].job>>}
    /\ Return(t)
    /\ UNCHANGED <<jobs, files, lock, clock, crashes>>
-----------------------------------------------------------------------------
(* POST /jobs/{id}/status.  A request the checks reject (409) writes nothing *)

MoveSelect(t, i, to, a, rep) ==
    /\ pc[t] = "idle"
    /\ Acquire(t)
    /\ i \in DOMAIN jobs
    /\ MayMove(jobs[i], to, a)
    /\ \E now \in Recent :
          Goto(t, "move", [NoRequest EXCEPT !.agent = a, !.job = i, !.to = to,
                                            !.report = rep, !.now = now])
    /\ UNCHANGED <<jobs, files, clock, granted, crashes>>

MoveUpdate(t) ==
    /\ pc[t] = "move"
    /\ jobs' = [jobs EXCEPT ![op[t].job] =
                   MovedRow(@, op[t].to, op[t].report, op[t].now)]
    /\ Release(t)
    /\ Return(t)
    /\ UNCHANGED <<files, clock, granted, crashes>>
-----------------------------------------------------------------------------
Tick ==
    /\ clock < MaxClock
    /\ clock' = clock + 1
    /\ UNCHANGED <<jobs, files, lock, pc, op, granted, crashes>>

\* The server dies and is started again: requests vanish, uncommitted
\* statements roll back, a file that was being filled stays as it is.
Crash ==
    /\ crashes < MaxCrashes
    /\ crashes' = crashes + 1
    /\ files' = [a \in Artifacts |->
                    IF files[a] \in Threads THEN "torn" ELSE files[a]]
    /\ lock' = [w \in Workers |-> NoThread]
    /\ pc' = [t \in Threads |-> "idle"]
    /\ op' = [t \in Threads |-> NoRequest]
    /\ UNCHANGED <<jobs, clock, granted>>

EnqueueStep(t) ==
    \/ \E art \in Artifacts, timeout \in Timeouts : EnqueueFound(t, art, timeout)
    \/ \E art \in Artifacts, timeout \in Timeouts : EnqueueAbsent(t, art, timeout)
    \/ EnqueueOpen(t)
    \/ EnqueueWritten(t)
    \/ EnqueueInsert(t)

PollStep(t) ==
    \/ \E a \in Agents : SweepSelect(t, a)
    \/ SweepUpdate(t)
    \/ ClaimSelect(t)
    \/ ClaimNothing(t)
    \/ ClaimUpdate(t)
    \/ ClaimReply(t)

StatusStep(t) ==
    \/ \E i \in DOMAIN jobs, to \in PostedStatuses, a \in Agents \cup {NoAgent},
          rep \in Reports \cup {NoReport} : MoveSelect(t, i, to, a, rep)
    \/ MoveUpdate(t)

Next ==
    \/ \E t \in Threads : EnqueueStep(t) \/ PollStep(t) \/ StatusStep(t)
    \/ Tick
    \/ Crash

Spec == Init /\ [][Next]_vars
-----------------------------------------------------------------------------
(* Properties *)

\* Every variable holds a value of its type, every thread that holds a lock
\* is at a place of the code where it does.
TypeOK ==
    /\ jobs \in Seq(Row)
    /\ files \in [Artifacts -> {"absent", "full", "torn"} \cup Threads]
    /\ lock \in [Workers -> Threads \cup {NoThread}]
    /\ pc \in [Threads -> {"idle", "swept", "reply"} \cup Enqueuing \cup Locked]
    /\ op \in [Threads -> Request]
    /\ clock \in Nat
    /\ granted \subseteq Agents \X Nat
    /\ crashes \in Nat

\* An agent is only ever handed a job the table says it owns, so no job is
\* run by two rigs: claim_next reads the row it returns after it has
\* released the lock (storage.py:236).
GrantedToOwner ==
    \A g \in granted : g[2] \in DOMAIN jobs /\ jobs[g[2]].agent = g[1]

\* A verdict is final: no late status post and no sweep changes a row that
\* is complete, failed, timed out or cancelled.
VerdictFinal ==
    [][\A i \in DOMAIN jobs :
          jobs[i].status \in Terminal =>
             i \in DOMAIN jobs' /\ jobs'[i] = jobs[i]]_vars

\* The server times out only a job whose agent had more than
\* timeout_seconds, however old the times are that the requests read.
SweptLate ==
    \A i \in DOMAIN jobs : jobs[i].swept =>
        /\ jobs[i].claimed # Never
        /\ jobs[i].completed - jobs[i].claimed > jobs[i].timeout

\* A row's artifact is on disk and complete, unless another enqueue of the
\* same bytes is filling the file again or a crash stopped it doing so.
ArtifactKept ==
    \A i \in DOMAIN jobs :
        LET f == files[jobs[i].art]
        IN  \/ f = "full"
            \/ f = "torn" /\ crashes > 0
            \/ f \in Threads /\ pc[f] = "write" /\ op[f].art = jobs[i].art

\* Every claimed or running job was claimed by an agent at a known time
\* (models.py:19: "QUEUED -> CLAIMED (agent picks the job via GET
\* /jobs/next)"), so that a sweep can end it.
ClaimedByAgent ==
    \A i \in DOMAIN jobs : jobs[i].status \in {"claimed", "running"} =>
        jobs[i].agent \in Agents /\ jobs[i].claimed # Never

\* What the rows say is so, whatever the requests of several agents and a
\* crash did in between: the three conditions above.
RowsStayTrue == SweptLate /\ ArtifactKept /\ ClaimedByAgent

\* The promise of the abstract queue.
Life == [i \in DOMAIN jobs |-> [status |-> jobs[i].status,
                                owner  |-> jobs[i].agent,
                                report |-> jobs[i].report]]

Queue == INSTANCE JobLifecycle WITH life <- Life

\* The server keeps the promise of JobLifecycle: statuses only advance, an
\* owner is set once, a job is handed to its owner only.
KeepsPromise == Queue!Spec

\* Why the claim, the sweep and the status post may write from what they
\* selected: the lock is held by whoever is between SELECT and UPDATE ...
LockHeld ==
    /\ \A t \in Threads : pc[t] \in Locked <=> lock[WorkerOf[t]] = t
    /\ \A w \in Workers : lock[w] # NoThread => WorkerOf[lock[w]] = w

\* ... and what was selected is still so at the UPDATE.
SelectionCurrent ==
    \A t \in Threads :
        LET r == op[t]
        IN  /\ pc[t] = "sweep" => \A i \in r.rows :
                  i \in DOMAIN jobs /\ Expired(jobs[i], r.now)
            /\ pc[t] = "claim" => r.job \in Queued(jobs)
            /\ pc[t] = "move"  => /\ r.job \in DOMAIN jobs
                                  /\ MayMove(jobs[r.job], r.to, r.agent)

\* The locals a request needs at each place of the code, and that a reply
\* is about a job the agent owns.
RequestInv ==
    \A t \in Threads :
        LET r == op[t]
        IN  /\ pc[t] \in Enqueuing =>
                  r.art \in Artifacts /\ r.timeout \in Timeouts
            /\ pc[t] \in {"sweep", "swept", "claim", "reply"} =>
                  r.agent \in Agents
            /\ pc[t] = "reply" => /\ r.job \in DOMAIN jobs
                                  /\ jobs[r.job].agent = r.agent

\* Only claim_next names an owner, and it takes the row out of the queue.
QueuedUnowned ==
    \A i \in DOMAIN jobs : jobs[i].status = "queued" => jobs[i].agent = NoAgent

\* All requests are served by one process: `app.run(..., threaded=True)`.
OneProcess == \A s, t \in Threads : WorkerOf[s] = WorkerOf[t]

\* The inductive invariant of the server run as one process.
StoreInv ==
    /\ TypeOK
    /\ LockHeld
    /\ SelectionCurrent
    /\ RequestInv
    /\ QueuedUnowned
    /\ GrantedToOwner
=============================================================================
