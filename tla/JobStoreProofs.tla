---------------------------- MODULE JobStoreProofs ----------------------------
(***************************************************************************)
(* Proofs about JobStore, for any number of threads, agents, artifacts,    *)
(* jobs and crashes: StoreInv is inductive when one process serves all     *)
(* requests, so agents are handed only jobs they own, rows stay true,      *)
(* verdicts are final, and the server implements JobLifecycle.             *)
(***************************************************************************)
EXTENDS JobStore, TLAPS

\* What the UPDATE statements make of a row is a row again.
LEMMA RowTypes ==
    ASSUME NEW row \in Row, NEW now \in Nat
    PROVE  /\ \A art \in Artifacts, d \in Timeouts : NewRow(art, d, now) \in Row
           /\ \A a \in Agents : ClaimedRow(row, a, now) \in Row
           /\ \A to \in JobStatus, rep \in Reports \cup {NoReport} :
                 MovedRow(row, to, rep, now) \in Row
           /\ SweptRow(row, now) \in Row
  <1>1. ASSUME NEW art \in Artifacts, NEW d \in Timeouts
        PROVE  NewRow(art, d, now) \in Row
    BY DEF Row, NewRow, JobStatus, Never
  <1>2. ASSUME NEW a \in Agents
        PROVE  ClaimedRow(row, a, now) \in Row
    BY DEF Row, ClaimedRow, JobStatus
  <1>3. ASSUME NEW to \in JobStatus, NEW rep \in Reports \cup {NoReport}
        PROVE  MovedRow(row, to, rep, now) \in Row
    BY DEF Row, MovedRow
  <1>4. SweptRow(row, now) \in Row
    BY DEF Row, SweptRow, JobStatus, Terminal
  <1> QED
    BY <1>1, <1>2, <1>3, <1>4

\* Updating rows of the table in place gives a table with the same ids.
LEMMA UpdateTable ==
    ASSUME NEW table \in Seq(Row), NEW new,
           new = [i \in DOMAIN table |-> new[i]],
           \A i \in DOMAIN table : new[i] \in Row
    PROVE  new \in Seq(Row) /\ DOMAIN new = DOMAIN table
  OBVIOUS

\* The same for one row.
LEMMA UpdateRow ==
    ASSUME NEW table \in Seq(Row), NEW k \in DOMAIN table, NEW row \in Row
    PROVE  /\ [table EXCEPT ![k] = row] \in Seq(Row)
           /\ DOMAIN [table EXCEPT ![k] = row] = DOMAIN table
  OBVIOUS

\* The empty request is a request, and the times a thread may have read are
\* times.
LEMMA RequestTypes ==
    ASSUME TypeOK
    PROVE  NoRequest \in Request /\ Recent \subseteq Nat
  BY RowAssumption DEF NoRequest, Request, JobStatus, Recent, TypeOK

\* Job ids are naturals and the table holds rows.
LEMMA TableTypes ==
    ASSUME TypeOK
    PROVE  DOMAIN jobs \subseteq Nat /\ \A i \in DOMAIN jobs : jobs[i] \in Row
  BY DEF TypeOK

\* A thread that enters a critical section with the free lock, or leaves one
\* and frees it, keeps the lock and the program counters in step.
LEMMA AcquireKeepsLock ==
    ASSUME OneProcess, TypeOK, LockHeld, NEW t \in Threads, NEW l \in Locked,
           lock[WorkerOf[t]] = NoThread,
           lock' = [lock EXCEPT ![WorkerOf[t]] = t],
           pc' = [pc EXCEPT ![t] = l]
    PROVE  LockHeld'
  <1> USE StoreAssumption
  <1>1. ASSUME NEW s \in Threads
        PROVE  pc'[s] \in Locked <=> lock'[WorkerOf[s]] = s
    <2>1. CASE s = t
      BY <2>1 DEF TypeOK
    <2>2. CASE s # t
      <3>1. WorkerOf[s] = WorkerOf[t] /\ WorkerOf[t] \in Workers
        BY DEF OneProcess
      <3>2. lock'[WorkerOf[s]] = t /\ lock[WorkerOf[s]] = NoThread
        BY <3>1 DEF TypeOK
      <3>3. pc'[s] = pc[s] /\ pc[s] \notin Locked
        BY <2>2, <3>2 DEF TypeOK, LockHeld
      <3> QED
        BY <2>2, <3>2, <3>3
    <2> QED
      BY <2>1, <2>2
  <1>2. ASSUME NEW w \in Workers, lock'[w] # NoThread
        PROVE  WorkerOf[lock'[w]] = w
    BY <1>2 DEF TypeOK, LockHeld
  <1> QED
    BY <1>1, <1>2 DEF LockHeld

LEMMA ReleaseKeepsLock ==
    ASSUME OneProcess, TypeOK, LockHeld, NEW t \in Threads, NEW l,
           l \notin Locked,
           lock[WorkerOf[t]] = t,
           lock' = [lock EXCEPT ![WorkerOf[t]] = NoThread],
           pc' = [pc EXCEPT ![t] = l]
    PROVE  LockHeld'
  <1> USE StoreAssumption
  <1>1. ASSUME NEW s \in Threads
        PROVE  pc'[s] \in Locked <=> lock'[WorkerOf[s]] = s
    <2>1. WorkerOf[s] = WorkerOf[t] /\ WorkerOf[t] \in Workers
      BY DEF OneProcess
    <2>2. lock'[WorkerOf[s]] = NoThread /\ lock[WorkerOf[s]] = t
      BY <2>1 DEF TypeOK
    <2>3. pc'[s] \notin Locked
      BY <2>2 DEF TypeOK, LockHeld
    <2> QED
      BY <2>2, <2>3
  <1>2. ASSUME NEW w \in Workers, lock'[w] # NoThread
        PROVE  WorkerOf[lock'[w]] = w
    BY <1>2 DEF TypeOK, LockHeld
  <1> QED
    BY <1>1, <1>2 DEF LockHeld

\* Within one process a thread that holds the lock, or finds it free, is the
\* only one between a SELECT and its UPDATE.
LEMMA LockExclusive ==
    ASSUME OneProcess, TypeOK, LockHeld, NEW t \in Threads,
           lock[WorkerOf[t]] \in {t, NoThread}
    PROVE  \A s \in Threads \ {t} : pc[s] \notin Locked
  BY StoreAssumption DEF OneProcess, TypeOK, LockHeld

\* Rows are never removed and an owner is never replaced.
OwnersKept ==
    /\ DOMAIN jobs \subseteq DOMAIN jobs'
    /\ \A i \in DOMAIN jobs :
          jobs[i].agent # NoAgent => jobs'[i].agent = jobs[i].agent

\* A step that keeps owners keeps the handed-out jobs with their owners, and
\* the replies under way about jobs their agents own.
LEMMA OwnersKeptSuffices ==
    ASSUME TypeOK, GrantedToOwner, RequestInv, OwnersKept
    PROVE  /\ \A g \in granted :
                 g[2] \in DOMAIN jobs' /\ jobs'[g[2]].agent = g[1]
           /\ \A s \in Threads : pc[s] = "reply" =>
                 op[s].job \in DOMAIN jobs' /\ jobs'[op[s].job].agent = op[s].agent
  <1>1. \A g \in granted : g[1] # NoAgent
    BY RowAssumption DEF TypeOK
  <1>2. \A s \in Threads : pc[s] = "reply" => op[s].agent # NoAgent
    BY RowAssumption DEF RequestInv
  <1> QED
    BY <1>1, <1>2 DEF GrantedToOwner, RequestInv, OwnersKept

\* POST /jobs up to the INSERT: only the file and the request change.
LEMMA EnqueueFileInv ==
    ASSUME StoreInv, NEW t \in Threads, NEW art \in Artifacts,
           NEW d \in Timeouts,
           \/ EnqueueFound(t, art, d)
           \/ EnqueueAbsent(t, art, d)
           \/ EnqueueOpen(t)
           \/ EnqueueWritten(t)
    PROVE  StoreInv'
  <1> USE DEF StoreInv
  <1>1. TypeOK'
    <2>1. [NoRequest EXCEPT !.art = art, !.timeout = d] \in Request
      BY RequestTypes DEF Request
    <2>2. CASE EnqueueFound(t, art, d) \/ EnqueueAbsent(t, art, d)
      BY <2>1, <2>2 DEF EnqueueFound, EnqueueAbsent, Goto, TypeOK, Enqueuing
    <2>3. CASE EnqueueOpen(t)
      BY <2>3 DEF EnqueueOpen, Goto, TypeOK, Enqueuing
    <2>4. CASE EnqueueWritten(t)
      BY <2>4 DEF EnqueueWritten, Goto, TypeOK, Enqueuing
    <2> QED
      BY <2>2, <2>3, <2>4
  <1>2. /\ jobs' = jobs /\ granted' = granted /\ lock' = lock
        /\ \A s \in Threads \ {t} : pc'[s] = pc[s] /\ op'[s] = op[s]
        /\ pc[t] \in {"idle"} \cup Enqueuing /\ pc'[t] \in Enqueuing
        /\ op'[t].art \in Artifacts /\ op'[t].timeout \in Timeouts
    <2>1. CASE EnqueueFound(t, art, d) \/ EnqueueAbsent(t, art, d)
      <3>1. /\ [NoRequest EXCEPT !.art = art, !.timeout = d].art = art
            /\ [NoRequest EXCEPT !.art = art, !.timeout = d].timeout = d
        BY DEF NoRequest
      <3> QED
        BY <2>1, <3>1 DEF EnqueueFound, EnqueueAbsent, Goto, TypeOK, Enqueuing
    <2>2. CASE EnqueueOpen(t) \/ EnqueueWritten(t)
      BY <2>2 DEF EnqueueOpen, EnqueueWritten, Goto, TypeOK, Enqueuing, RequestInv
    <2> QED
      BY <2>1, <2>2
  <1>3. LockHeld'
    BY <1>2 DEF LockHeld, Locked, Enqueuing
  <1>4. SelectionCurrent'
    BY <1>2 DEF SelectionCurrent, Enqueuing
  <1>5. RequestInv'
    BY <1>2 DEF RequestInv, Enqueuing
  <1>6. QueuedUnowned' /\ GrantedToOwner'
    BY <1>2 DEF QueuedUnowned, GrantedToOwner
  <1> QED
    BY <1>1, <1>3, <1>4, <1>5, <1>6

\* The INSERT: the table grows by a queued row nobody owns.
LEMMA EnqueueInsertInv ==
    ASSUME OneProcess, StoreInv, NEW t \in Threads, EnqueueInsert(t)
    PROVE  StoreInv'
  <1> USE DEF StoreInv
  <1>1. PICK now \in Recent :
           jobs' = Append(jobs, NewRow(op[t].art, op[t].timeout, now))
    BY DEF EnqueueInsert
  <1> DEFINE row == NewRow(op[t].art, op[t].timeout, now)
  <1>2. row \in Row
    BY RequestTypes, RowAssumption DEF RequestInv, EnqueueInsert, Enqueuing,
       NewRow, Row, JobStatus, Never
  <1>3. /\ jobs' \in Seq(Row)
        /\ DOMAIN jobs' = DOMAIN jobs \cup {Len(jobs) + 1}
        /\ \A i \in DOMAIN jobs : jobs'[i] = jobs[i] /\ i # Len(jobs) + 1
        /\ jobs'[Len(jobs) + 1] = row
    BY <1>1, <1>2 DEF TypeOK
  <1>4. /\ pc' = [pc EXCEPT ![t] = "idle"] /\ op' = [op EXCEPT ![t] = NoRequest]
        /\ UNCHANGED <<files, lock, clock, granted, crashes>>
        /\ pc[t] = "insert"
    BY DEF EnqueueInsert, Return, Goto
  <1>5. TypeOK'
    BY <1>3, <1>4, RequestTypes DEF TypeOK
  <1>6. LockHeld'
    BY <1>4 DEF LockHeld, Locked, TypeOK
  <1>7. SelectionCurrent'
    BY <1>3, <1>4, LockExclusive DEF SelectionCurrent, TypeOK, EnqueueInsert, Locked
  <1>8. OwnersKept
    BY <1>3 DEF OwnersKept
  <1>9. RequestInv'
    BY <1>4, <1>8, OwnersKeptSuffices DEF RequestInv, TypeOK, Enqueuing
  <1>10. QueuedUnowned'
    BY <1>3 DEF QueuedUnowned, NewRow
  <1>11. GrantedToOwner'
    BY <1>4, <1>8, OwnersKeptSuffices DEF GrantedToOwner
  <1> QED
    BY <1>5, <1>6, <1>7, <1>9, <1>10, <1>11

\* The SELECT of the sweep: the thread takes the lock and remembers expired
\* rows.
LEMMA SweepSelectInv ==
    ASSUME OneProcess, StoreInv, NEW t \in Threads, NEW a \in Agents,
           SweepSelect(t, a)
    PROVE  StoreInv'
  <1> USE DEF StoreInv
  <1>1. PICK now \in Recent :
           Goto(t, "sweep",
                [NoRequest EXCEPT !.agent = a, !.now = now,
                   !.rows = {i \in DOMAIN jobs : Expired(jobs[i], now)}])
    BY DEF SweepSelect
  <1> DEFINE rows == {i \in DOMAIN jobs : Expired(jobs[i], now)}
             r == [NoRequest EXCEPT !.agent = a, !.now = now, !.rows = rows]
  <1>2. /\ r \in Request
        /\ r.agent = a /\ r.now = now /\ r.rows = rows
    BY RequestTypes, TableTypes DEF Request, NoRequest
  <1>3. /\ pc' = [pc EXCEPT ![t] = "sweep"] /\ op' = [op EXCEPT ![t] = r]
        /\ UNCHANGED <<jobs, files, clock, granted, crashes>>
        /\ lock[WorkerOf[t]] = NoThread
        /\ lock' = [lock EXCEPT ![WorkerOf[t]] = t]
        /\ pc[t] = "idle"
    BY <1>1 DEF SweepSelect, Goto, Acquire
  <1> HIDE DEF r
  <1>4. TypeOK'
    BY <1>2, <1>3 DEF TypeOK, Locked
  <1>5. LockHeld'
    BY <1>3, AcquireKeepsLock DEF Locked
  <1>6. SelectionCurrent'
    BY <1>2, <1>3 DEF SelectionCurrent, TypeOK
  <1>7. RequestInv'
    BY <1>2, <1>3 DEF RequestInv, TypeOK, Enqueuing
  <1>8. QueuedUnowned' /\ GrantedToOwner'
    BY <1>3 DEF QueuedUnowned, GrantedToOwner
  <1> QED
    BY <1>4, <1>5, <1>6, <1>7, <1>8

\* The UPDATE of the sweep: rows that are still expired time out.
LEMMA SweepUpdateInv ==
    ASSUME OneProcess, StoreInv, NEW t \in Threads, SweepUpdate(t)
    PROVE  StoreInv'
  <1> USE DEF StoreInv
  <1> DEFINE r == [NoRequest EXCEPT !.agent = op[t].agent]
  <1>1. /\ r \in Request
        /\ r.agent = op[t].agent
    BY RequestTypes DEF Request, NoRequest, TypeOK
  <1>2. /\ pc' = [pc EXCEPT ![t] = "swept"] /\ op' = [op EXCEPT ![t] = r]
        /\ UNCHANGED <<files, clock, granted, crashes>>
        /\ lock' = [lock EXCEPT ![WorkerOf[t]] = NoThread]
        /\ pc[t] = "sweep"
        /\ lock[WorkerOf[t]] = t
    BY DEF SweepUpdate, Goto, Release, LockHeld, Locked
  <1> HIDE DEF r
  <1>3. /\ jobs' = [i \in DOMAIN jobs |-> IF i \in op[t].rows
                                          THEN SweptRow(jobs[i], op[t].now)
                                          ELSE jobs[i]]
        /\ op[t].now \in Nat
    BY DEF SweepUpdate, TypeOK, Request
  <1>4. \A i \in DOMAIN jobs : jobs'[i] \in Row
    BY <1>3, RowTypes DEF TypeOK
  <1>5. jobs' \in Seq(Row) /\ DOMAIN jobs' = DOMAIN jobs
    BY <1>3, <1>4, UpdateTable DEF TypeOK
  <1>6. \A i \in DOMAIN jobs : /\ jobs'[i].agent = jobs[i].agent
                               /\ jobs'[i].status = "queued" => jobs'[i] = jobs[i]
    BY <1>3, TableTypes DEF SweptRow, Row
  <1>7. TypeOK'
    BY <1>1, <1>2, <1>5 DEF TypeOK
  <1>8. LockHeld'
    BY <1>2, ReleaseKeepsLock DEF Locked
  <1>9. SelectionCurrent'
    BY <1>2, LockExclusive DEF SelectionCurrent, TypeOK, Locked
  <1>10. OwnersKept
    BY <1>5, <1>6 DEF OwnersKept
  <1>11. RequestInv'
    BY <1>1, <1>2, <1>10, OwnersKeptSuffices DEF RequestInv, TypeOK, Enqueuing
  <1>12. QueuedUnowned'
    BY <1>5, <1>6 DEF QueuedUnowned
  <1>13. GrantedToOwner'
    BY <1>2, <1>10, OwnersKeptSuffices DEF GrantedToOwner
  <1> QED
    BY <1>7, <1>8, <1>9, <1>11, <1>12, <1>13

\* The SELECT of claim_next: the thread takes the lock and remembers a
\* queued row.
LEMMA ClaimSelectInv ==
    ASSUME OneProcess, StoreInv, NEW t \in Threads, ClaimSelect(t)
    PROVE  StoreInv'
  <1> USE DEF StoreInv
  <1>1. PICK now \in Recent, i \in DOMAIN jobs :
           /\ IsOldestQueued(jobs, i)
           /\ Goto(t, "claim", [op[t] EXCEPT !.job = i, !.now = now])
    BY DEF ClaimSelect
  <1> DEFINE r == [op[t] EXCEPT !.job = i, !.now = now]
  <1>2. /\ r \in Request
        /\ r.agent = op[t].agent /\ r.job = i
        /\ i \in Queued(jobs)
    BY <1>1, RequestTypes, TableTypes DEF Request, TypeOK, IsOldestQueued
  <1>3. /\ pc' = [pc EXCEPT ![t] = "claim"] /\ op' = [op EXCEPT ![t] = r]
        /\ UNCHANGED <<jobs, files, clock, granted, crashes>>
        /\ lock[WorkerOf[t]] = NoThread
        /\ lock' = [lock EXCEPT ![WorkerOf[t]] = t]
        /\ pc[t] = "swept"
    BY <1>1 DEF ClaimSelect, Goto, Acquire
  <1> HIDE DEF r
  <1>4. TypeOK'
    BY <1>2, <1>3 DEF TypeOK, Locked
  <1>5. LockHeld'
    BY <1>3, AcquireKeepsLock DEF Locked
  <1>6. SelectionCurrent'
    BY <1>2, <1>3 DEF SelectionCurrent, TypeOK
  <1>7. RequestInv'
    BY <1>2, <1>3 DEF RequestInv, TypeOK, Enqueuing
  <1>8. QueuedUnowned' /\ GrantedToOwner'
    BY <1>3 DEF QueuedUnowned, GrantedToOwner
  <1> QED
    BY <1>4, <1>5, <1>6, <1>7, <1>8

\* The UPDATE of claim_next: a row nobody owned becomes the agent's.
LEMMA ClaimUpdateInv ==
    ASSUME OneProcess, StoreInv, NEW t \in Threads, ClaimUpdate(t)
    PROVE  StoreInv'
  <1> USE DEF StoreInv
  <1> DEFINE k == op[t].job
             row == ClaimedRow(jobs[k], op[t].agent, op[t].now)
  <1>1. /\ pc' = [pc EXCEPT ![t] = "reply"] /\ op' = [op EXCEPT ![t] = op[t]]
        /\ UNCHANGED <<files, clock, granted, crashes>>
        /\ lock' = [lock EXCEPT ![WorkerOf[t]] = NoThread]
        /\ pc[t] = "claim"
        /\ lock[WorkerOf[t]] = t
    BY DEF ClaimUpdate, Goto, Release, LockHeld, Locked
  <1>2. k \in DOMAIN jobs /\ jobs[k].status = "queued"
    BY <1>1 DEF SelectionCurrent, Queued
  <1>3. op[t].now \in Nat /\ op[t].agent \in Agents
    BY <1>1 DEF TypeOK, Request, RequestInv
  <1>4. row \in Row
    BY <1>2, <1>3, RowTypes DEF TypeOK
  <1>5. jobs' = [jobs EXCEPT ![k] = row]
    BY <1>2 DEF ClaimUpdate
  <1>6. jobs[k] \in Row /\ row.agent = op[t].agent /\ row.status = "claimed"
    BY <1>2, TableTypes DEF ClaimedRow, Row
  <1> HIDE DEF row
  <1>7. jobs' \in Seq(Row) /\ DOMAIN jobs' = DOMAIN jobs
    BY <1>2, <1>4, <1>5, UpdateRow DEF TypeOK
  <1>8. TypeOK'
    BY <1>1, <1>7 DEF TypeOK
  <1>9. LockHeld'
    BY <1>1, ReleaseKeepsLock DEF Locked
  <1>10. SelectionCurrent'
    BY <1>1, LockExclusive DEF SelectionCurrent, TypeOK, Locked
  <1>11. OwnersKept
    BY <1>2, <1>5, <1>7 DEF OwnersKept, QueuedUnowned, TypeOK
  <1>12. RequestInv'
    <2>1. ASSUME NEW s \in Threads \ {t}
          PROVE  pc'[s] = pc[s] /\ op'[s] = op[s]
      BY <1>1 DEF TypeOK
    <2>2. /\ pc'[t] = "reply" /\ op'[t] = op[t]
          /\ jobs'[op[t].job].agent = op[t].agent
      BY <1>1, <1>2, <1>5, <1>6 DEF TypeOK
    <2> QED
      BY <2>1, <2>2, <1>2, <1>3, <1>7, <1>11, OwnersKeptSuffices
         DEF RequestInv, Enqueuing
  <1>13. QueuedUnowned'
    BY <1>2, <1>5, <1>6, <1>7 DEF QueuedUnowned, TypeOK
  <1>14. GrantedToOwner'
    BY <1>1, <1>11, OwnersKeptSuffices DEF GrantedToOwner
  <1> QED
    BY <1>8, <1>9, <1>10, <1>12, <1>13, <1>14

\* GET /jobs/next ends: with nothing, or with the job the agent now owns.
LEMMA PollEndInv ==
    ASSUME StoreInv, NEW t \in Threads, ClaimNothing(t) \/ ClaimReply(t)
    PROVE  StoreInv'
  <1> USE DEF StoreInv
  <1>1. /\ pc' = [pc EXCEPT ![t] = "idle"] /\ op' = [op EXCEPT ![t] = NoRequest]
        /\ UNCHANGED <<jobs, files, lock, clock, crashes>>
        /\ pc[t] \in {"swept", "reply"}
    BY DEF ClaimNothing, ClaimReply, Return, Goto
  <1>2. \/ granted' = granted
        \/ /\ pc[t] = "reply"
           /\ granted' = granted \cup {<<op[t].agent, op[t].job>>}
    BY DEF ClaimNothing, ClaimReply
  <1>3. TypeOK'
    <2>1. granted' \subseteq Agents \X Nat
      BY <1>2 DEF TypeOK, RequestInv, Request
    <2> QED
      BY <1>1, <2>1, RequestTypes DEF TypeOK
  <1>4. LockHeld'
    BY <1>1 DEF LockHeld, Locked, TypeOK
  <1>5. SelectionCurrent' /\ RequestInv'
    BY <1>1 DEF SelectionCurrent, RequestInv, TypeOK, Enqueuing
  <1>6. QueuedUnowned' /\ GrantedToOwner'
    BY <1>1, <1>2 DEF QueuedUnowned, GrantedToOwner, RequestInv
  <1> QED
    BY <1>3, <1>4, <1>5, <1>6

\* The SELECT of a status post that the checks let through.
LEMMA MoveSelectInv ==
    ASSUME OneProcess, StoreInv, NEW t \in Threads, NEW i \in DOMAIN jobs,
           NEW to \in PostedStatuses, NEW a \in Agents \cup {NoAgent},
           NEW rep \in Reports \cup {NoReport}, MoveSelect(t, i, to, a, rep)
    PROVE  StoreInv'
  <1> USE DEF StoreInv
  <1>1. PICK now \in Recent :
          Goto(t, "move", [NoRequest EXCEPT !.agent = a, !.job = i, !.to = to,
                                            !.report = rep, !.now = now])
    BY DEF MoveSelect
  <1> DEFINE r == [NoRequest EXCEPT !.agent = a, !.job = i, !.to = to,
                                    !.report = rep, !.now = now]
  <1>2. r.agent = a /\ r.job = i /\ r.to = to
    BY DEF NoRequest
  <1>3. r \in Request
    BY RequestTypes, TableTypes, StoreAssumption DEF Request
  <1>4. /\ pc' = [pc EXCEPT ![t] = "move"] /\ op' = [op EXCEPT ![t] = r]
        /\ UNCHANGED <<jobs, files, clock, granted, crashes>>
        /\ lock[WorkerOf[t]] = NoThread
        /\ lock' = [lock EXCEPT ![WorkerOf[t]] = t]
        /\ pc[t] = "idle"
        /\ MayMove(jobs[i], to, a)
    BY <1>1 DEF MoveSelect, Goto, Acquire
  <1> HIDE DEF r
  <1>5. TypeOK'
    BY <1>3, <1>4 DEF TypeOK, Locked
  <1>6. LockHeld'
    BY <1>4, AcquireKeepsLock DEF Locked
  <1>7. SelectionCurrent'
    BY <1>2, <1>4 DEF SelectionCurrent, TypeOK
  <1>8. RequestInv'
    BY <1>2, <1>4 DEF RequestInv, TypeOK, Enqueuing
  <1>9. QueuedUnowned' /\ GrantedToOwner'
    BY <1>4 DEF QueuedUnowned, GrantedToOwner
  <1> QED
    BY <1>5, <1>6, <1>7, <1>8, <1>9

\* What the UPDATE of a status post does to the row it selected.
LEMMA MoveUpdateRow ==
    ASSUME StoreInv, NEW t \in Threads, MoveUpdate(t)
    PROVE  LET k   == op[t].job
               row == MovedRow(jobs[k], op[t].to, op[t].report, op[t].now)
           IN  /\ k \in DOMAIN jobs /\ jobs[k] \in Row /\ row \in Row
               /\ MayMove(jobs[k], op[t].to, op[t].agent)
               /\ jobs' = [jobs EXCEPT ![k] = row]
               /\ row.agent = jobs[k].agent /\ row.status = op[t].to
  <1> USE DEF StoreInv
  <1>1. pc[t] = "move"
    BY DEF MoveUpdate
  <1>2. op[t].job \in DOMAIN jobs /\ MayMove(jobs[op[t].job], op[t].to, op[t].agent)
    BY <1>1 DEF SelectionCurrent
  <1>3. jobs[op[t].job] \in Row
    BY <1>2, TableTypes
  <1>4. op[t].to \in JobStatus /\ op[t].report \in Reports \cup {NoReport}
        /\ op[t].now \in Nat
    BY DEF TypeOK, Request
  <1>5. MovedRow(jobs[op[t].job], op[t].to, op[t].report, op[t].now) \in Row
    BY <1>3, <1>4, RowTypes
  <1> QED
    BY <1>2, <1>3, <1>5 DEF MoveUpdate, MovedRow, Row

\* The UPDATE of a status post.
LEMMA MoveUpdateInv ==
    ASSUME OneProcess, StoreInv, NEW t \in Threads, MoveUpdate(t)
    PROVE  StoreInv'
  <1> DEFINE k == op[t].job
             row == MovedRow(jobs[k], op[t].to, op[t].report, op[t].now)
  <1>1. /\ k \in DOMAIN jobs /\ jobs[k] \in Row /\ row \in Row
        /\ MayMove(jobs[k], op[t].to, op[t].agent)
        /\ jobs' = [jobs EXCEPT ![k] = row]
        /\ row.agent = jobs[k].agent /\ row.status = op[t].to
    BY MoveUpdateRow
  <1> HIDE DEF row
  <1> USE DEF StoreInv
  <1>2. /\ pc' = [pc EXCEPT ![t] = "idle"] /\ op' = [op EXCEPT ![t] = NoRequest]
        /\ UNCHANGED <<files, clock, granted, crashes>>
        /\ lock' = [lock EXCEPT ![WorkerOf[t]] = NoThread]
        /\ pc[t] = "move"
        /\ lock[WorkerOf[t]] = t
    BY DEF MoveUpdate, Return, Goto, Release, LockHeld, Locked
  <1>3. jobs' \in Seq(Row) /\ DOMAIN jobs' = DOMAIN jobs
    BY <1>1, UpdateRow DEF TypeOK
  <1>4. row.status # "queued"
    BY <1>1 DEF MayMove, AllowedTransitions, Terminal
  <1>5. TypeOK'
    BY <1>2, <1>3, RequestTypes DEF TypeOK
  <1>6. LockHeld'
    BY <1>2, ReleaseKeepsLock DEF Locked
  <1>7. SelectionCurrent'
    BY <1>2, LockExclusive DEF SelectionCurrent, TypeOK, Locked
  <1>8. OwnersKept
    BY <1>1, <1>3 DEF OwnersKept, TypeOK
  <1>9. RequestInv'
    BY <1>2, <1>8, OwnersKeptSuffices DEF RequestInv, TypeOK, Enqueuing
  <1>10. QueuedUnowned'
    BY <1>1, <1>3, <1>4 DEF QueuedUnowned, TypeOK
  <1>11. GrantedToOwner'
    BY <1>2, <1>8, OwnersKeptSuffices DEF GrantedToOwner
  <1> QED
    BY <1>5, <1>6, <1>7, <1>9, <1>10, <1>11

\* Time passes; the server crashes and comes back with no request and no
\* lock.
LEMMA EnvironmentInv ==
    ASSUME StoreInv, Tick \/ Crash
    PROVE  StoreInv'
  <1> USE DEF StoreInv
  <1>1. CASE Tick
    <2>1. TypeOK'
      BY <1>1 DEF Tick, TypeOK
    <2> QED
      BY <1>1, <2>1 DEF Tick, LockHeld, SelectionCurrent, RequestInv,
                        QueuedUnowned, GrantedToOwner
  <1>2. CASE Crash
    <2>1. TypeOK'
      BY <1>2, RequestTypes DEF Crash, TypeOK
    <2>2. LockHeld'
      BY <1>2, StoreAssumption DEF Crash, LockHeld, Locked
    <2>3. SelectionCurrent' /\ RequestInv'
      BY <1>2 DEF Crash, SelectionCurrent, RequestInv, Enqueuing
    <2>4. QueuedUnowned' /\ GrantedToOwner'
      BY <1>2 DEF Crash, QueuedUnowned, GrantedToOwner
    <2> QED
      BY <2>1, <2>2, <2>3, <2>4
  <1> QED
    BY <1>1, <1>2

LEMMA StutterInv ==
    ASSUME StoreInv, UNCHANGED vars
    PROVE  StoreInv'
  BY DEF vars, StoreInv, TypeOK, LockHeld, SelectionCurrent, RequestInv,
         QueuedUnowned, GrantedToOwner

\* StoreInv is inductive.
LEMMA StoreInvInit ==
    ASSUME Init
    PROVE  StoreInv
  <1>1. NoRequest \in Request
    BY RowAssumption DEF NoRequest, Request, JobStatus
  <1>2. TypeOK
    BY <1>1 DEF Init, TypeOK
  <1>3. LockHeld
    BY StoreAssumption DEF Init, LockHeld, Locked
  <1> QED
    BY <1>2, <1>3 DEF Init, StoreInv, SelectionCurrent, RequestInv, Enqueuing,
                      QueuedUnowned, GrantedToOwner

LEMMA StoreInvNext ==
    ASSUME OneProcess, StoreInv, [Next]_vars
    PROVE  StoreInv'
  <1>1. ASSUME NEW t \in Threads, EnqueueStep(t)
        PROVE  StoreInv'
    <2>1. CASE EnqueueOpen(t) \/ EnqueueWritten(t)
      <3>1. op[t].art \in Artifacts /\ op[t].timeout \in Timeouts
        BY <2>1 DEF EnqueueOpen, EnqueueWritten, StoreInv, RequestInv, Enqueuing
      <3> QED
        BY <2>1, <3>1, EnqueueFileInv
    <2> QED
      BY <1>1, <2>1, EnqueueFileInv, EnqueueInsertInv DEF EnqueueStep
  <1>2. ASSUME NEW t \in Threads, PollStep(t)
        PROVE  StoreInv'
    BY <1>2, SweepSelectInv, SweepUpdateInv, ClaimSelectInv, ClaimUpdateInv,
       PollEndInv DEF PollStep
  <1>3. ASSUME NEW t \in Threads, StatusStep(t)
        PROVE  StoreInv'
    BY <1>3, MoveSelectInv, MoveUpdateInv DEF StatusStep
  <1> QED
    BY <1>1, <1>2, <1>3, EnvironmentInv, StutterInv DEF Next

\* In every state one server process can reach, StoreInv holds: no request
\* writes from a selection that is out of date.
THEOREM StoreInvariant ==
    ASSUME OneProcess
    PROVE  Spec => []StoreInv
  <1>1. Init => StoreInv
    BY StoreInvInit
  <1>2. StoreInv /\ [Next]_vars => StoreInv'
    BY StoreInvNext
  <1> QED
    BY <1>1, <1>2, PTL DEF Spec

\* One server process hands an agent only jobs the table says it owns.
THEOREM GrantsAreOwned ==
    ASSUME OneProcess
    PROVE  Spec => []GrantedToOwner
  <1>1. StoreInv => GrantedToOwner
    BY DEF StoreInv
  <1> QED
    BY <1>1, StoreInvariant, PTL
-----------------------------------------------------------------------------
(* What the rows say is so *)

\* A swept row was late when it was swept and is timed out for good; a row
\* under way names its agent and the time of the claim.
RowTrue(row) ==
    /\ row.swept => /\ row.status = "timed_out" /\ row.claimed # Never
                    /\ row.completed - row.claimed > row.timeout
    /\ row.status \in {"claimed", "running"} =>
          row.agent \in Agents /\ row.claimed # Never

RowsTrue == \A i \in DOMAIN jobs : RowTrue(jobs[i])

\* A status post writes a status that clients post.
PostsPosted == \A t \in Threads : pc[t] = "move" => op[t].to \in PostedStatuses

\* A file being filled is being filled by the thread it names, a torn one was
\* left by a crash, and a row, or a request about to write one, has a file.
FilesTrue ==
    /\ \A art \in Artifacts :
          /\ files[art] \in Threads => /\ pc[files[art]] = "write"
                                       /\ op[files[art]].art = art
          /\ files[art] = "torn" => crashes > 0
    /\ \A i \in DOMAIN jobs : files[jobs[i].art] # "absent"
    /\ \A t \in Threads : pc[t] \in {"write", "insert"} =>
          files[op[t].art] # "absent"

RowsInv == RowsTrue /\ PostsPosted /\ FilesTrue

\* What an UPDATE makes of a true row is a true row, when the row is the one
\* that was selected.
LEMMA UpdatesKeepRowsTrue ==
    ASSUME NEW row \in Row, RowTrue(row), NEW now \in Nat
    PROVE  /\ Expired(row, now) => RowTrue(SweptRow(row, now))
           /\ \A a \in Agents : row.status = "queued" => RowTrue(ClaimedRow(row, a, now))
           /\ \A a : \A to \in JobStatus \ {"claimed"}, rep \in Reports \cup {NoReport} :
                 MayMove(row, to, a) => RowTrue(MovedRow(row, to, rep, now))
  <1>1. ASSUME Expired(row, now)
        PROVE  RowTrue(SweptRow(row, now))
    BY <1>1 DEF RowTrue, Expired, SweptRow, Row
  <1>2. ASSUME NEW a \in Agents, row.status = "queued"
        PROVE  RowTrue(ClaimedRow(row, a, now))
    BY <1>2 DEF RowTrue, ClaimedRow, Row, Never
  <1>3. ASSUME NEW to \in JobStatus \ {"claimed"}, NEW a,
               NEW rep \in Reports \cup {NoReport}, MayMove(row, to, a)
        PROVE  RowTrue(MovedRow(row, to, rep, now))
    <2> DEFINE new == MovedRow(row, to, rep, now)
    <2>1. /\ new.status = to /\ new.agent = row.agent
          /\ new.claimed = row.claimed /\ new.swept = row.swept
      BY DEF MovedRow, Row
    <2>2. /\ row.status \notin Terminal
          /\ to = "running" => row.status = "claimed"
      BY <1>3 DEF MayMove, AllowedTransitions, Terminal
    <2>3. ~row.swept
      BY <2>2 DEF RowTrue, Terminal
    <2>4. to \in {"claimed", "running"} => row.agent \in Agents /\ row.claimed # Never
      BY <2>2 DEF RowTrue
    <2> HIDE DEF new
    <2>5. ~new.swept
      BY <2>1, <2>3 DEF Row
    <2>6. new.status \in {"claimed", "running"} =>
             new.agent \in Agents /\ new.claimed # Never
      BY <2>1, <2>4
    <2>7. RowTrue(new)
      BY <2>5, <2>6, Zenon DEF RowTrue
    <2> QED
      BY <2>7 DEF new
  <1> QED
    BY <1>1, <1>2, <1>3

LEMMA RowsTrueStep ==
    ASSUME "claimed" \notin PostedStatuses, StoreInv, RowsInv, [Next]_vars
    PROVE  RowsTrue'
  <1> USE DEF RowsInv
  <1>1. ASSUME NEW t \in Threads, EnqueueInsert(t)
        PROVE  RowsTrue'
    <2>1. PICK now \in Recent :
             jobs' = Append(jobs, NewRow(op[t].art, op[t].timeout, now))
      BY <1>1 DEF EnqueueInsert
    <2>2. RowTrue(NewRow(op[t].art, op[t].timeout, now))
      BY DEF RowTrue, NewRow
    <2> QED
      BY <2>1, <2>2 DEF RowsTrue, StoreInv, TypeOK
  <1>2. ASSUME NEW t \in Threads, SweepUpdate(t)
        PROVE  RowsTrue'
    <2>1. ASSUME NEW i \in DOMAIN jobs, i \in op[t].rows
          PROVE  RowTrue(SweptRow(jobs[i], op[t].now))
      <3>1. Expired(jobs[i], op[t].now)
        BY <1>2, <2>1 DEF SweepUpdate, StoreInv, SelectionCurrent
      <3>2. jobs[i] \in Row /\ op[t].now \in Nat
        BY TableTypes DEF StoreInv, TypeOK, Request
      <3> QED
        BY <3>1, <3>2, UpdatesKeepRowsTrue DEF RowsTrue
    <2> QED
      BY <1>2, <2>1 DEF SweepUpdate, RowsTrue
  <1>3. ASSUME NEW t \in Threads, ClaimUpdate(t)
        PROVE  RowsTrue'
    <2> DEFINE k == op[t].job
    <2>1. /\ k \in DOMAIN jobs /\ jobs[k].status = "queued" /\ jobs[k] \in Row
          /\ op[t].agent \in Agents /\ op[t].now \in Nat
      BY <1>3, TableTypes DEF ClaimUpdate, StoreInv, SelectionCurrent, Queued,
                              RequestInv, TypeOK, Request
    <2>2. jobs' = [jobs EXCEPT ![k] = ClaimedRow(jobs[k], op[t].agent, op[t].now)]
      BY <1>3, <2>1 DEF ClaimUpdate
    <2>3. RowTrue(ClaimedRow(jobs[k], op[t].agent, op[t].now))
      BY <2>1, UpdatesKeepRowsTrue DEF RowsTrue
    <2> QED
      BY <2>1, <2>2, <2>3 DEF RowsTrue, StoreInv, TypeOK
  <1>4. ASSUME NEW t \in Threads, MoveUpdate(t)
        PROVE  RowsTrue'
    <2> DEFINE k == op[t].job
               row == MovedRow(jobs[k], op[t].to, op[t].report, op[t].now)
    <2>1. /\ k \in DOMAIN jobs /\ jobs[k] \in Row
          /\ MayMove(jobs[k], op[t].to, op[t].agent)
          /\ jobs' = [jobs EXCEPT ![k] = row]
      BY <1>4, MoveUpdateRow
    <2>2. /\ op[t].to \in JobStatus \ {"claimed"} /\ op[t].now \in Nat
          /\ op[t].report \in Reports \cup {NoReport}
      BY <1>4, StoreAssumption DEF MoveUpdate, PostsPosted, StoreInv, TypeOK, Request
    <2>3. RowTrue(row)
      <3>1. RowTrue(jobs[k])
        BY <2>1 DEF RowsTrue
      <3>2. \A a : \A to \in JobStatus \ {"claimed"}, rep \in Reports \cup {NoReport} :
               MayMove(jobs[k], to, a) => RowTrue(MovedRow(jobs[k], to, rep, op[t].now))
        BY <2>1, <2>2, <3>1, UpdatesKeepRowsTrue
      <3> QED
        BY <2>1, <2>2, <3>2
    <2> HIDE DEF row
    <2> QED
      BY <2>1, <2>3 DEF RowsTrue, StoreInv, TypeOK
  <1>5. ASSUME jobs' = jobs
        PROVE  RowsTrue'
    BY <1>5 DEF RowsTrue
  <1>6. ASSUME NEW t \in Threads, EnqueueStep(t)
        PROVE  RowsTrue'
    BY <1>1, <1>5, <1>6 DEF EnqueueStep, EnqueueFound, EnqueueAbsent, EnqueueOpen,
                            EnqueueWritten
  <1>7. ASSUME NEW t \in Threads, PollStep(t)
        PROVE  RowsTrue'
    BY <1>2, <1>3, <1>5, <1>7 DEF PollStep, SweepSelect, ClaimSelect, ClaimNothing,
                                  ClaimReply
  <1>8. ASSUME NEW t \in Threads, StatusStep(t)
        PROVE  RowsTrue'
    BY <1>4, <1>5, <1>8 DEF StatusStep, MoveSelect
  <1>9. CASE Tick \/ Crash \/ UNCHANGED vars
    BY <1>5, <1>9 DEF Tick, Crash, vars
  <1> QED
    BY <1>6, <1>7, <1>8, <1>9 DEF Next

\* Only MoveSelect sends a request on to "move", with a status clients post.
LEMMA PostsPostedStep ==
    ASSUME StoreInv, RowsInv, [Next]_vars
    PROVE  PostsPosted'
  <1> USE DEF RowsInv
  <1>1. ASSUME NEW t \in Threads,
               \A s \in Threads \ {t} : pc'[s] = pc[s] /\ op'[s] = op[s],
               pc'[t] = "move" => op'[t].to \in PostedStatuses
        PROVE  PostsPosted'
    BY <1>1 DEF PostsPosted
  <1>2. ASSUME NEW t \in Threads, EnqueueStep(t) \/ PollStep(t)
        PROVE  PostsPosted'
    <2>1. pc'[t] # "move" /\ \A s \in Threads \ {t} : pc'[s] = pc[s] /\ op'[s] = op[s]
      BY <1>2, ZenonT(40) DEF EnqueueStep, EnqueueFound, EnqueueAbsent, EnqueueOpen, EnqueueWritten,
         EnqueueInsert, PollStep, SweepSelect, SweepUpdate, ClaimSelect, ClaimNothing,
         ClaimUpdate, ClaimReply, Return, Goto, StoreInv, TypeOK
    <2> QED
      BY <1>1, <2>1
  <1>3. ASSUME NEW t \in Threads, StatusStep(t)
        PROVE  PostsPosted'
    <2>1. CASE MoveUpdate(t)
      BY <1>1, <2>1 DEF MoveUpdate, Return, Goto, StoreInv, TypeOK
    <2>2. ASSUME NEW i \in DOMAIN jobs, NEW to \in PostedStatuses,
                 NEW a \in Agents \cup {NoAgent}, NEW rep \in Reports \cup {NoReport},
                 MoveSelect(t, i, to, a, rep)
          PROVE  PostsPosted'
      <3>1. PICK now \in Recent :
               Goto(t, "move", [NoRequest EXCEPT !.agent = a, !.job = i, !.to = to,
                                                 !.report = rep, !.now = now])
        BY <2>2 DEF MoveSelect
      <3>2. [NoRequest EXCEPT !.agent = a, !.job = i, !.to = to,
                              !.report = rep, !.now = now].to = to
        BY DEF NoRequest
      <3> QED
        BY <1>1, <3>1, <3>2 DEF Goto, StoreInv, TypeOK
    <2> QED
      BY <1>3, <2>1, <2>2 DEF StatusStep
  <1>4. CASE Tick \/ UNCHANGED vars
    BY <1>4 DEF Tick, vars, PostsPosted
  <1>5. CASE Crash
    BY <1>5 DEF Crash, PostsPosted
  <1> QED
    BY <1>2, <1>3, <1>4, <1>5 DEF Next

\* A step that changes no file, adds no row and starts no request that relies
\* on one keeps the files true.
LEMMA FilesKept ==
    ASSUME StoreInv, FilesTrue, NEW t \in Threads,
           files' = files, crashes' = crashes,
           \A s \in Threads \ {t} : pc'[s] = pc[s] /\ op'[s] = op[s],
           pc[t] # "write", pc'[t] \notin {"write", "insert"},
           \/ jobs' = jobs
           \/ /\ DOMAIN jobs' = DOMAIN jobs
              /\ \A i \in DOMAIN jobs : jobs'[i].art = jobs[i].art
    PROVE  FilesTrue'
  BY DEF FilesTrue

\* POST /jobs up to the INSERT.
LEMMA EnqueueFilesTrue ==
    ASSUME StoreInv, FilesTrue, NEW t \in Threads, NEW art \in Artifacts,
           NEW d \in Timeouts,
           \/ EnqueueFound(t, art, d)
           \/ EnqueueAbsent(t, art, d)
           \/ EnqueueOpen(t)
           \/ EnqueueWritten(t)
    PROVE  FilesTrue'
  <1> USE StoreAssumption
  <1>0. [NoRequest EXCEPT !.art = art, !.timeout = d].art = art
    BY DEF NoRequest
  <1>1. CASE EnqueueFound(t, art, d)
    <2>1. /\ pc' = [pc EXCEPT ![t] = "insert"]
          /\ op'[t].art = art /\ \A s \in Threads \ {t} : op'[s] = op[s]
          /\ files' = files /\ crashes' = crashes /\ jobs' = jobs
          /\ files[art] = "full" /\ pc[t] = "idle"
      BY <1>0, <1>1 DEF EnqueueFound, Goto, StoreInv, TypeOK
    <2> QED
      BY <2>1 DEF FilesTrue, StoreInv, TypeOK
  <1>2. CASE EnqueueAbsent(t, art, d)
    <2>1. /\ pc[t] # "write" /\ pc'[t] \notin {"write", "insert"}
          /\ files' = files /\ crashes' = crashes /\ jobs' = jobs
          /\ \A s \in Threads \ {t} : pc'[s] = pc[s] /\ op'[s] = op[s]
      BY <1>2 DEF EnqueueAbsent, Goto, StoreInv, TypeOK
    <2> QED
      BY <2>1, FilesKept
  <1>3. CASE EnqueueOpen(t)
    <2>1. /\ pc' = [pc EXCEPT ![t] = "write"] /\ op' = [op EXCEPT ![t] = op[t]]
          /\ files' = [files EXCEPT ![op[t].art] = t]
          /\ crashes' = crashes /\ jobs' = jobs /\ pc[t] = "open"
          /\ op[t].art \in Artifacts
      BY <1>3 DEF EnqueueOpen, Goto, StoreInv, RequestInv, Enqueuing
    <2> QED
      BY <2>1 DEF FilesTrue, StoreInv, TypeOK
  <1>4. CASE EnqueueWritten(t)
    <2>1. /\ pc' = [pc EXCEPT ![t] = "insert"] /\ op' = [op EXCEPT ![t] = op[t]]
          /\ files' = [files EXCEPT ![op[t].art] = IF @ = t THEN "full" ELSE @]
          /\ crashes' = crashes /\ jobs' = jobs /\ pc[t] = "write"
          /\ op[t].art \in Artifacts
      BY <1>4 DEF EnqueueWritten, Goto, StoreInv, RequestInv, Enqueuing
    <2>2. op' = op
      BY <2>1 DEF StoreInv, TypeOK
    <2>3. \A b \in Artifacts : \/ files'[b] = files[b] /\ files[b] # t
                               \/ files'[b] = "full"
      BY <2>1 DEF FilesTrue, StoreInv, TypeOK
    <2> QED
      BY <2>1, <2>2, <2>3 DEF FilesTrue, StoreInv, TypeOK
  <1> QED
    BY <1>1, <1>2, <1>3, <1>4

LEMMA FilesTrueStep ==
    ASSUME StoreInv, RowsInv, [Next]_vars
    PROVE  FilesTrue'
  <1> USE DEF RowsInv
  <1>1. ASSUME NEW t \in Threads, EnqueueInsert(t)
        PROVE  FilesTrue'
    <2>1. PICK now \in Recent :
             jobs' = Append(jobs, NewRow(op[t].art, op[t].timeout, now))
      BY <1>1 DEF EnqueueInsert
    <2>2. NewRow(op[t].art, op[t].timeout, now).art = op[t].art
      BY DEF NewRow
    <2>3. /\ pc' = [pc EXCEPT ![t] = "idle"] /\ op' = [op EXCEPT ![t] = NoRequest]
          /\ files' = files /\ crashes' = crashes /\ pc[t] = "insert"
      BY <1>1 DEF EnqueueInsert, Return, Goto
    <2>4. \A i \in DOMAIN jobs' : files[jobs'[i].art] # "absent"
      BY <2>1, <2>2, <2>3 DEF FilesTrue, StoreInv, TypeOK
    <2> QED
      BY <2>3, <2>4 DEF FilesTrue, StoreInv, TypeOK
  <1>2. ASSUME NEW t \in Threads, EnqueueStep(t)
        PROVE  FilesTrue'
    <2>1. CASE EnqueueOpen(t) \/ EnqueueWritten(t)
      <3>1. op[t].art \in Artifacts /\ op[t].timeout \in Timeouts
        BY <2>1 DEF EnqueueOpen, EnqueueWritten, StoreInv, RequestInv, Enqueuing
      <3> QED
        BY <2>1, <3>1, EnqueueFilesTrue
    <2> QED
      BY <1>1, <1>2, <2>1, EnqueueFilesTrue DEF EnqueueStep
  <1>3. ASSUME NEW t \in Threads, PollStep(t) \/ StatusStep(t)
        PROVE  FilesTrue'
    <2>1. /\ files' = files /\ crashes' = crashes
          /\ \A s \in Threads \ {t} : pc'[s] = pc[s] /\ op'[s] = op[s]
          /\ pc[t] # "write" /\ pc'[t] \notin {"write", "insert"}
      BY <1>3, ZenonT(40) DEF PollStep, SweepSelect, SweepUpdate, ClaimSelect, ClaimNothing,
         ClaimUpdate, ClaimReply, StatusStep, MoveSelect, MoveUpdate, Return, Goto,
         StoreInv, TypeOK
    <2>2. \/ jobs' = jobs
          \/ /\ DOMAIN jobs' = DOMAIN jobs
             /\ \A i \in DOMAIN jobs : jobs'[i].art = jobs[i].art
      <3>1. CASE SweepUpdate(t)
        BY <3>1, TableTypes DEF SweepUpdate, SweptRow, Row, StoreInv
      <3>2. CASE ClaimUpdate(t)
        BY <3>2, TableTypes DEF ClaimUpdate, ClaimedRow, Row, StoreInv
      <3>3. CASE MoveUpdate(t)
        BY <3>3, TableTypes DEF MoveUpdate, MovedRow, Row, StoreInv
      <3> QED
        BY <1>3, <3>1, <3>2, <3>3 DEF PollStep, StatusStep, SweepSelect, ClaimSelect,
           ClaimNothing, ClaimReply, MoveSelect
    <2> QED
      BY <2>1, <2>2, FilesKept
  <1>4. CASE Tick \/ UNCHANGED vars
    BY <1>4 DEF Tick, vars, FilesTrue
  <1>5. CASE Crash
    <2>1. /\ \A art \in Artifacts : /\ files'[art] \notin Threads
                                    /\ files[art] # "absent" => files'[art] # "absent"
          /\ crashes' > 0 /\ jobs' = jobs
          /\ \A t \in Threads : pc'[t] = "idle"
      BY <1>5, StoreAssumption DEF Crash, StoreInv, TypeOK
    <2>2. \A i \in DOMAIN jobs : jobs[i].art \in Artifacts
      BY TableTypes DEF StoreInv, Row
    <2> QED
      BY <2>1, <2>2 DEF FilesTrue
  <1> QED
    BY <1>2, <1>3, <1>4, <1>5 DEF Next

\* One server process keeps the rows true, when no client posts "claimed" (none
\* of agent.py and the CLI does): what is timed out was late, what is under way
\* has an owner, and what is in the table has its artifact.
THEOREM RowsAreTrue ==
    ASSUME OneProcess, "claimed" \notin PostedStatuses
    PROVE  Spec => []RowsStayTrue
  <1>1. Init => RowsInv
    BY StoreAssumption DEF Init, RowsInv, RowsTrue, PostsPosted, FilesTrue
  <1>2. StoreInv /\ RowsInv /\ [Next]_vars => RowsInv'
    BY RowsTrueStep, PostsPostedStep, FilesTrueStep DEF RowsInv
  <1>3. StoreInv /\ RowsInv => RowsStayTrue
    <2> SUFFICES ASSUME StoreInv, RowsInv
                 PROVE  RowsStayTrue
      OBVIOUS
    <2>1. SweptLate /\ ClaimedByAgent
      BY DEF SweptLate, ClaimedByAgent, RowsInv, RowsTrue, RowTrue
    <2>2. ArtifactKept
      <3>1. ASSUME NEW i \in DOMAIN jobs
            PROVE  jobs[i].art \in Artifacts
        BY TableTypes DEF StoreInv, Row
      <3> QED
        BY <3>1 DEF ArtifactKept, RowsInv, FilesTrue, StoreInv, TypeOK
    <2> QED
      BY <2>1, <2>2 DEF RowsStayTrue
  <1> QED
    BY <1>1, <1>2, <1>3, StoreInvariant, PTL DEF Spec

-----------------------------------------------------------------------------
(* The abstract queue *)

\* What a client sees of a row.
View(row) == [status |-> row.status, owner |-> row.agent, report |-> row.report]

\* A step of one server process either leaves the rows alone, or appends a
\* queued row, or moves rows forward.
TableStep ==
    \/ jobs' = jobs
    \/ \E art, d, now : jobs' = Append(jobs, NewRow(art, d, now))
    \/ /\ DOMAIN jobs' = DOMAIN jobs
       /\ \A i \in DOMAIN jobs :
             \/ jobs'[i] = jobs[i]
             \/ Queue!Forward(View(jobs[i]), View(jobs'[i]))

LEMMA TableSteps ==
    ASSUME OneProcess, StoreInv, [Next]_vars
    PROVE  TableStep
  <1>1. ASSUME NEW t \in Threads, EnqueueStep(t)
        PROVE  TableStep
    BY <1>1 DEF EnqueueStep, EnqueueFound, EnqueueAbsent,
                EnqueueOpen, EnqueueWritten, EnqueueInsert, TableStep
  <1>2. ASSUME NEW t \in Threads, SweepUpdate(t)
        PROVE  TableStep
    <2>1. DOMAIN jobs' = DOMAIN jobs
      BY <1>2 DEF SweepUpdate
    <2>2. ASSUME NEW i \in DOMAIN jobs, i \in op[t].rows
          PROVE  Queue!Forward(View(jobs[i]), View(jobs'[i]))
      <3>1. jobs[i] \in Row /\ jobs[i].status \in {"claimed", "running"}
        BY <1>2, <2>2, TableTypes
           DEF SweepUpdate, StoreInv, SelectionCurrent, Expired
      <3>2. jobs'[i] = SweptRow(jobs[i], op[t].now)
        BY <1>2, <2>2 DEF SweepUpdate
      <3> QED
        BY <3>1, <3>2 DEF Queue!Forward, Queue!Stage, View, SweptRow, Row
    <2>3. ASSUME NEW i \in DOMAIN jobs, i \notin op[t].rows
          PROVE  jobs'[i] = jobs[i]
      BY <1>2, <2>3 DEF SweepUpdate
    <2> QED
      BY <2>1, <2>2, <2>3 DEF TableStep
  <1>3. ASSUME NEW t \in Threads, ClaimUpdate(t)
        PROVE  TableStep
    <2> DEFINE k == op[t].job
    <2>1. /\ k \in DOMAIN jobs /\ jobs[k].status = "queued" /\ jobs[k] \in Row
          /\ jobs[k].agent = NoAgent
      BY <1>3, TableTypes DEF ClaimUpdate, StoreInv, SelectionCurrent, Queued,
                              QueuedUnowned
    <2>2. jobs' = [jobs EXCEPT ![k] = ClaimedRow(jobs[k], op[t].agent, op[t].now)]
      BY <1>3, <2>1 DEF ClaimUpdate
    <2>3. Queue!Forward(View(jobs[k]),
                        View(ClaimedRow(jobs[k], op[t].agent, op[t].now)))
      BY <2>1 DEF Queue!Forward, Queue!Stage, View, ClaimedRow, Row
    <2> QED
      BY <2>1, <2>2, <2>3 DEF TableStep, StoreInv, TypeOK
  <1>4. ASSUME NEW t \in Threads, MoveUpdate(t)
        PROVE  TableStep
    <2> DEFINE k == op[t].job
               row == MovedRow(jobs[k], op[t].to, op[t].report, op[t].now)
    <2>1. /\ k \in DOMAIN jobs /\ jobs[k] \in Row /\ row \in Row
          /\ MayMove(jobs[k], op[t].to, op[t].agent)
          /\ jobs' = [jobs EXCEPT ![k] = row]
          /\ row.agent = jobs[k].agent /\ row.status = op[t].to
      BY <1>4, MoveUpdateRow
    <2>2. jobs[k].report # NoReport => row.report # NoReport
      BY <2>1 DEF MovedRow, Row
    <2> HIDE DEF row
    <2>3. Queue!Stage(jobs[k].status) < Queue!Stage(row.status)
      BY <2>1 DEF MayMove, AllowedTransitions, Queue!Stage, Terminal, Row, JobStatus
    <2>4. Queue!Forward(View(jobs[k]), View(row))
      BY <2>1, <2>2, <2>3 DEF Queue!Forward, View
    <2> QED
      BY <2>1, <2>4 DEF TableStep, StoreInv, TypeOK
  <1>5. ASSUME NEW t \in Threads, PollStep(t)
        PROVE  TableStep
    BY <1>2, <1>3, <1>5 DEF PollStep, SweepSelect, ClaimSelect, ClaimNothing,
                            ClaimReply, TableStep
  <1>6. ASSUME NEW t \in Threads, StatusStep(t)
        PROVE  TableStep
    BY <1>4, <1>6 DEF StatusStep, MoveSelect, TableStep
  <1>7. CASE Tick \/ Crash \/ UNCHANGED vars
    BY <1>7 DEF Tick, Crash, vars, TableStep
  <1> QED
    BY <1>1, <1>5, <1>6, <1>7 DEF Next

\* One server process never changes a verdict.
THEOREM VerdictsAreFinal ==
    ASSUME OneProcess
    PROVE  Spec => VerdictFinal
  <1>1. ASSUME StoreInv, [Next]_vars
        PROVE  [\A i \in DOMAIN jobs :
                   jobs[i].status \in Terminal =>
                      i \in DOMAIN jobs' /\ jobs'[i] = jobs[i]]_vars
    <2>1. TableStep
      BY <1>1, TableSteps
    <2>2. ASSUME NEW i \in DOMAIN jobs, jobs[i].status \in Terminal
          PROVE  i \in DOMAIN jobs' /\ jobs'[i] = jobs[i]
      <3>1. jobs \in Seq(Row)
        BY <1>1 DEF StoreInv, TypeOK
      <3>2. ~Queue!Forward(View(jobs[i]), View(jobs'[i]))
        BY <2>2 DEF Queue!Forward, Queue!Stage, View, Terminal
      <3>3. ASSUME NEW r, jobs' = Append(jobs, r)
            PROVE  i \in DOMAIN jobs' /\ jobs'[i] = jobs[i]
        BY <3>1, <3>3
      <3> QED
        BY <2>1, <3>2, <3>3 DEF TableStep
    <2> QED
      BY <2>2
  <1> QED
    BY <1>1, StoreInvariant, PTL DEF Spec, VerdictFinal

\* A sequence is a function on its indices.
LEMMA SeqIsFunction ==
    ASSUME NEW S, NEW s \in Seq(S)
    PROVE  s = [i \in 1..Len(s) |-> s[i]]
  OBVIOUS

LEMMA AppendIsSeq ==
    ASSUME NEW S, NEW s \in Seq(S), NEW e
    PROVE  /\ Append(s, e) \in Seq(S \cup {e})
           /\ Len(Append(s, e)) = Len(s) + 1
  OBVIOUS

\* The server's steps are steps of the abstract queue.
LEMMA PromiseInit ==
    ASSUME Init
    PROVE  Queue!Init
  BY DEF Init, Queue!Init, Life

LEMMA PromiseStep ==
    ASSUME OneProcess, StoreInv, StoreInv', [Next]_vars
    PROVE  [Queue!Next]_<<Life, granted>>
  <1>1. /\ jobs \in Seq(Row) /\ jobs' \in Seq(Row)
        /\ \A i \in DOMAIN jobs' : jobs'[i] \in Row
    BY DEF StoreInv, TypeOK
  <1>2. /\ Life = [i \in DOMAIN jobs |-> View(jobs[i])]
        /\ Life' = [i \in DOMAIN jobs' |-> View(jobs'[i])]
    BY DEF Life, View
  <1>3. CASE granted' = granted
    <2>1. CASE jobs' = jobs
      BY <1>2, <1>3, <2>1
    <2>2. ASSUME NEW art, NEW d, NEW now,
                 jobs' = Append(jobs, NewRow(art, d, now))
          PROVE  Queue!Next
      <3>1. /\ Len(jobs) \in Nat /\ DOMAIN jobs = 1..Len(jobs)
            /\ DOMAIN jobs' = 1..(Len(jobs) + 1)
            /\ \A i \in 1..Len(jobs) : jobs'[i] = jobs[i]
            /\ jobs'[Len(jobs) + 1] = NewRow(art, d, now)
        BY <1>1, <2>2
      <3>2. View(NewRow(art, d, now)) = Queue!Fresh
        BY DEF View, NewRow, Queue!Fresh
      <3> DEFINE old == Life
      <3>3. /\ old \in Seq({View(jobs[i]) : i \in DOMAIN jobs})
            /\ Len(old) = Len(jobs)
        BY <1>2, <3>1
      <3>4. Life' = Append(old, Queue!Fresh)
        <4>1. /\ DOMAIN Append(old, Queue!Fresh) = 1..(Len(jobs) + 1)
              /\ \A i \in 1..Len(jobs) : Append(old, Queue!Fresh)[i] = old[i]
              /\ Append(old, Queue!Fresh)[Len(jobs) + 1] = Queue!Fresh
          BY <3>1, <3>3
        <4>2. \A i \in 1..(Len(jobs) + 1) :
                 View(jobs'[i]) = Append(old, Queue!Fresh)[i]
          BY <1>2, <3>1, <3>2, <4>1
        <4>3. Append(old, Queue!Fresh)
                = [i \in 1..(Len(jobs) + 1) |-> Append(old, Queue!Fresh)[i]]
          <5> HIDE DEF old
          <5> DEFINE new == Append(old, Queue!Fresh)
                     S == {View(jobs[i]) : i \in DOMAIN jobs}
          <5>1. new \in Seq(S \cup {Queue!Fresh}) /\ Len(new) = Len(jobs) + 1
            BY <3>3, AppendIsSeq
          <5> HIDE DEF new, S
          <5>2. new = [i \in 1..Len(new) |-> new[i]]
            BY <5>1, SeqIsFunction
          <5>3. new = [i \in 1..(Len(jobs) + 1) |-> new[i]]
            BY <5>1, <5>2
          <5> QED
            BY <5>3 DEF new
        <4> HIDE DEF old
        <4> QED
          BY <1>2, <3>1, <4>2, <4>3
      <3> QED
        BY <1>3, <3>4 DEF Queue!Next, Queue!Submit
    <2>3. CASE /\ DOMAIN jobs' = DOMAIN jobs
               /\ \A i \in DOMAIN jobs :
                     \/ jobs'[i] = jobs[i]
                     \/ Queue!Forward(View(jobs[i]), View(jobs'[i]))
      <3>1. ASSUME NEW i \in DOMAIN jobs'
            PROVE  View(jobs'[i]) \in Queue!Job
        <4>1. jobs'[i] \in Row
          BY <1>1
        <4> QED
          BY <4>1 DEF View, Queue!Job, Queue!Statuses, Row, JobStatus, Terminal
      <3>2. Life' \in [DOMAIN Life -> Queue!Job]
        BY <1>2, <2>3, <3>1
      <3>3. ASSUME NEW i \in DOMAIN Life
            PROVE  Life'[i] = Life[i] \/ Queue!Forward(Life[i], Life'[i])
        BY <1>2, <2>3
      <3> QED
        BY <1>3, <3>2, <3>3 DEF Queue!Next, Queue!Advance
    <2> QED
      BY <2>1, <2>2, <2>3, TableSteps DEF TableStep
  <1>4. CASE granted' # granted
    <2>1. PICK t \in Threads : ClaimReply(t)
      BY <1>4, ZenonT(40) DEF Next, EnqueueStep, PollStep, StatusStep, EnqueueFound,
         EnqueueAbsent, EnqueueOpen, EnqueueWritten,
         EnqueueInsert, SweepSelect, SweepUpdate, ClaimSelect, ClaimNothing,
         ClaimUpdate, MoveSelect, MoveUpdate, Tick, Crash, vars
    <2>2. /\ op[t].job \in DOMAIN jobs /\ op[t].agent \in Agents
          /\ jobs[op[t].job].agent = op[t].agent
      BY <2>1 DEF ClaimReply, StoreInv, RequestInv
    <2>3. op[t].job \in DOMAIN Life /\ Life[op[t].job].owner = op[t].agent
      BY <1>2, <2>2 DEF View
    <2>4. Life' = Life
      BY <1>2, <2>1 DEF ClaimReply
    <2> QED
      BY <2>1, <2>2, <2>3, <2>4 DEF ClaimReply, Queue!Next, Queue!Grant
  <1> QED
    BY <1>3, <1>4

\* The server, run as one process, implements the abstract queue.
THEOREM StoreKeepsPromise ==
    ASSUME OneProcess
    PROVE  Spec => KeepsPromise
  <1>1. Init => Queue!Init
    BY PromiseInit
  <1>2. StoreInv /\ StoreInv' /\ [Next]_vars => [Queue!Next]_<<Life, granted>>
    BY PromiseStep
  <1> QED
    BY <1>1, <1>2, StoreInvariant, PTL DEF Spec, KeepsPromise, Queue!Spec
=============================================================================
