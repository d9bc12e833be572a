------------------------------ MODULE WorkProofs ------------------------------
(***************************************************************************)
(* Proofs about the work that is handed out.                               *)
(*                                                                         *)
(* ActionWorker, for any number of request threads, runs and lines: one    *)
(* action runs at a time, a reader that sees a final status sees the exit  *)
(* code that goes with it, a 404 is earned, and, as long as the deque      *)
(* drops no line, a stream that ends is complete.  WorkerInv is inductive: *)
(* its parts say what the thread of a run has written (Threads), how many  *)
(* lines it may still print (Lines), what to_dict has read (Polls) and     *)
(* what a log request knows (Lookups).                                     *)
(*                                                                         *)
(* MapCorpus, for any maps, number of shards, versions of files, attempts  *)
(* and mishaps: block rows and status land together, rows name stored      *)
(* files, blocks name their source, and what was parsed stays parsed.      *)
(***************************************************************************)
EXTENDS ActionWorker, MapCorpus, RouteExtraction, Orders

-----------------------------------------------------------------------------
(* The dashboard's action worker.                                          *)

\* The places of a run's thread while _finish holds the worker's lock, and of a
\* thread that has written the final status.
Finishing == {"finish_code", "finish_status", "finish_end"}
Final == {"finish_end", "over"}

\* A run whose thread is not over is the current one, so there is one of them;
\* its status is final exactly when _finish has written it, with its exit code.
Threads ==
    /\ \A r \in RunIds : /\ r \notin DOMAIN runs => runner[r] = "none"
                         /\ code[r] # None
    /\ \A r \in DOMAIN runs :
          /\ r \in RunIds
          /\ runner[r] # "over" <=> current = r
          /\ runner[r] \in Finishing => wlock
          /\ runs[r].status = "running" <=> runner[r] \notin Final
          /\ runner[r] = "finish_status" \/ runner[r] \in Final => runs[r].code = code[r]
          /\ runner[r] \in Final => (code[r] = 0) = (runs[r].status = "success")

\* A thread that has a line to print yet has room for it.
Lines ==
    \A r \in RunIds : /\ runner[r] \in {"none", "refused", "begin"} => log[r] = 0
                      /\ runner[r] \in {"spawn", "reading", "error"} => log[r] < MaxLines

\* What to_dict has read so far agrees with the run, for a final status stays.
Polls ==
    \A p \in Pollers : poll[p].at # "idle" =>
        /\ poll[p].run \in DOMAIN runs
        /\ poll[p].at \in {"status", "code"} => rlock[poll[p].run] = p
        /\ poll[p].at \in {"code", "got"} /\ poll[p].status # "running" =>
              runs[poll[p].run].status = poll[p].status
        /\ poll[p].at = "got" /\ poll[p].status # "running" =>
              poll[p].code = runs[poll[p].run].code

\* A run that is not the current one never becomes it again, nor the last one.
Lookups ==
    \A s \in Streams : stream[s].at # "idle" =>
        /\ stream[s].run \in DOMAIN runs
        /\ stream[s].at \in {"find", "gone"} => stream[s].run # current
        /\ stream[s].at = "gone" => stream[s].run # last
        /\ stream[s].at = "status" => rlock[stream[s].run] = s
        /\ stream[s].low + stream[s].size <= MaxLines

WorkerInv == TypeOK /\ Threads /\ Lines /\ Polls /\ Lookups

\* When the deque drops nothing, a stream's cursor counts the lines it has sent,
\* and a snapshot taken with a final status is all there is.
LinesSent ==
    \A s \in Streams :
        /\ stream[s].low = 0 /\ 1..stream[s].cursor \subseteq stream[s].sent
        /\ stream[s].at = "status" => stream[s].size = log[stream[s].run]
        /\ stream[s].at \in {"decide", "done"} /\ ~stream[s].running =>
              /\ runs[stream[s].run].status # "running"
              /\ stream[s].size = log[stream[s].run]
        /\ stream[s].at = "done" => /\ ~stream[s].running
                                    /\ stream[s].cursor >= stream[s].size
-----------------------------------------------------------------------------
(* The records *)

RunRec == [done : BOOLEAN, code : {None, 0, 1}, status : {"running", "success", "failed"}]
PollRec == [at : {"idle", "found", "status", "code", "got"},
            run : 0..MaxRuns, done : BOOLEAN, code : {None, 0, 1},
            status : {"running", "success", "failed"}]
StreamRec == [at : {"idle", "find", "gone", "snap", "status", "decide", "done", "timeout"},
              run : 0..MaxRuns, cursor : 0..Cap, low : 0..MaxLines, size : 0..Cap,
              running : BOOLEAN, sent : SUBSET (1..MaxLines)]
Labels == {"none", "refused", "begin", "spawn", "reading", "error", "finish",
           "finish_code", "finish_status", "finish_end", "over"}

LEMMA Constants ==
    /\ Cap \in Nat \ {0} /\ MaxRuns \in Nat \ {0} /\ MaxFaults \in Nat
    /\ MaxLines \in Nat /\ MaxLines > 1
    /\ Pollers \cap Streams = {} /\ "free" \notin Pollers \cup Streams
  BY WorkerAssumption

\* The updates the actions make to one record.
Completed(run) == [run EXCEPT !.done = TRUE]
Coded(run, c) == [run EXCEPT !.code = c]
Stated(run, st) == [run EXCEPT !.status = st]

AsFound(q, r) == [q EXCEPT !.at = "found", !.run = r]
AsTimed(q, d) == [q EXCEPT !.at = "status", !.done = d]
AsStated(q, st) == [q EXCEPT !.at = "code", !.status = st]
AsCoded(q, c) == [q EXCEPT !.at = "got", !.code = c]

AsLooked(t, r, at) == [t EXCEPT !.run = r, !.at = at]
AsSnapped(t, size, low) == [t EXCEPT !.at = "status", !.size = size, !.low = low]
AsRead(t, up) == [t EXCEPT !.at = "decide", !.running = up]
AsYielded(t, more) == [t EXCEPT !.at = "snap", !.cursor = t.size, !.sent = @ \cup more]
AsAt(t, at) == [t EXCEPT !.at = at]

LEMMA RunUpdates ==
    ASSUME NEW run \in RunRec
    PROVE  /\ /\ Completed(run) \in RunRec /\ Completed(run).code = run.code
              /\ Completed(run).status = run.status
           /\ \A c \in {0, 1} :
                 /\ Coded(run, c) \in RunRec /\ Coded(run, c).code = c
                 /\ Coded(run, c).status = run.status
           /\ \A st \in {"success", "failed"} :
                 /\ Stated(run, st) \in RunRec /\ Stated(run, st).status = st
                 /\ Stated(run, st).code = run.code
  BY DEF RunRec, Completed, Coded, Stated

LEMMA PollUpdates ==
    ASSUME NEW q \in PollRec
    PROVE  /\ \A r \in 0..MaxRuns : /\ AsFound(q, r) \in PollRec /\ AsFound(q, r).at = "found"
                                    /\ AsFound(q, r).run = r
           /\ \A d \in BOOLEAN : /\ AsTimed(q, d) \in PollRec /\ AsTimed(q, d).at = "status"
                                 /\ AsTimed(q, d).run = q.run
           /\ \A st \in {"running", "success", "failed"} :
                 /\ AsStated(q, st) \in PollRec /\ AsStated(q, st).at = "code"
                 /\ AsStated(q, st).run = q.run /\ AsStated(q, st).status = st
           /\ \A c \in {None, 0, 1} :
                 /\ AsCoded(q, c) \in PollRec /\ AsCoded(q, c).at = "got"
                 /\ AsCoded(q, c).run = q.run /\ AsCoded(q, c).status = q.status
                 /\ AsCoded(q, c).code = c
  BY DEF PollRec, AsFound, AsTimed, AsStated, AsCoded

LEMMA StreamUpdates ==
    ASSUME NEW t \in StreamRec
    PROVE  /\ \A r \in 0..MaxRuns, at \in {"snap", "find"} :
                 /\ AsLooked(t, r, at) \in StreamRec /\ AsLooked(t, r, at).at = at
                 /\ AsLooked(t, r, at).run = r /\ AsLooked(t, r, at).cursor = t.cursor
                 /\ AsLooked(t, r, at).low = t.low /\ AsLooked(t, r, at).size = t.size
                 /\ AsLooked(t, r, at).running = t.running
                 /\ AsLooked(t, r, at).sent = t.sent
           /\ \A up \in BOOLEAN :
                 /\ AsRead(t, up) \in StreamRec /\ AsRead(t, up).at = "decide"
                 /\ AsRead(t, up).run = t.run /\ AsRead(t, up).cursor = t.cursor
                 /\ AsRead(t, up).low = t.low /\ AsRead(t, up).size = t.size
                 /\ AsRead(t, up).running = up /\ AsRead(t, up).sent = t.sent
           /\ \A at \in {"snap", "gone", "done", "timeout"} :
                 /\ AsAt(t, at) \in StreamRec /\ AsAt(t, at).at = at
                 /\ AsAt(t, at).run = t.run /\ AsAt(t, at).cursor = t.cursor
                 /\ AsAt(t, at).low = t.low /\ AsAt(t, at).size = t.size
                 /\ AsAt(t, at).running = t.running /\ AsAt(t, at).sent = t.sent
  <1> USE DEF StreamRec
  <1>1. ASSUME NEW r \in 0..MaxRuns, NEW at \in {"snap", "find"}
        PROVE  /\ AsLooked(t, r, at) \in StreamRec /\ AsLooked(t, r, at).at = at
               /\ AsLooked(t, r, at).run = r /\ AsLooked(t, r, at).cursor = t.cursor
               /\ AsLooked(t, r, at).low = t.low /\ AsLooked(t, r, at).size = t.size
               /\ AsLooked(t, r, at).running = t.running
               /\ AsLooked(t, r, at).sent = t.sent
    BY DEF AsLooked
  <1>3. ASSUME NEW up \in BOOLEAN
        PROVE  /\ AsRead(t, up) \in StreamRec /\ AsRead(t, up).at = "decide"
               /\ AsRead(t, up).run = t.run /\ AsRead(t, up).cursor = t.cursor
               /\ AsRead(t, up).low = t.low /\ AsRead(t, up).size = t.size
               /\ AsRead(t, up).running = up /\ AsRead(t, up).sent = t.sent
    BY DEF AsRead
  <1>5. ASSUME NEW at \in {"snap", "gone", "done", "timeout"}
        PROVE  /\ AsAt(t, at) \in StreamRec /\ AsAt(t, at).at = at
               /\ AsAt(t, at).run = t.run /\ AsAt(t, at).cursor = t.cursor
               /\ AsAt(t, at).low = t.low /\ AsAt(t, at).size = t.size
               /\ AsAt(t, at).running = t.running /\ AsAt(t, at).sent = t.sent
    BY DEF AsAt
  <1> HIDE DEF StreamRec
  <1> QED
    BY <1>1, <1>3, <1>5
-----------------------------------------------------------------------------
(* What the steps do *)

\* What the parts of TypeOK are, for the solvers.
LEMMA Typed ==
    ASSUME TypeOK
    PROVE  /\ runs \in Seq(RunRec) /\ current \in 0..Len(runs) /\ last \in 0..Len(runs)
           /\ wlock \in BOOLEAN /\ rlock \in [RunIds -> Pollers \cup Streams \cup {"free"}]
           /\ runner \in [RunIds -> Labels] /\ alive \subseteq RunIds
           /\ code \in [RunIds -> {None, 0, 1}] /\ log \in [RunIds -> 0..MaxLines]
           /\ poll \in [Pollers -> PollRec] /\ stream \in [Streams -> StreamRec]
           /\ faults \in 0..MaxFaults
           /\ DOMAIN runs = 1..Len(runs) /\ Len(runs) \in Nat
           /\ \A r \in DOMAIN runs : /\ runs[r] \in RunRec
                                     /\ runs[r].done \in BOOLEAN
                                     /\ runs[r].code \in {None, 0, 1}
                                     /\ runs[r].status \in {"running", "success", "failed"}
  <1>1. /\ runs \in Seq(RunRec) /\ current \in 0..Len(runs) /\ last \in 0..Len(runs)
        /\ wlock \in BOOLEAN /\ rlock \in [RunIds -> Pollers \cup Streams \cup {"free"}]
        /\ runner \in [RunIds -> Labels] /\ alive \subseteq RunIds
        /\ code \in [RunIds -> {None, 0, 1}] /\ log \in [RunIds -> 0..MaxLines]
        /\ poll \in [Pollers -> PollRec] /\ stream \in [Streams -> StreamRec]
        /\ faults \in 0..MaxFaults
    BY DEF TypeOK, RunRec, PollRec, StreamRec, Labels
  <1>2. \A run \in RunRec : /\ run.done \in BOOLEAN /\ run.code \in {None, 0, 1}
                            /\ run.status \in {"running", "success", "failed"}
    BY DEF RunRec
  <1>3. DOMAIN runs = 1..Len(runs) /\ Len(runs) \in Nat /\ \A r \in DOMAIN runs : runs[r] \in RunRec
    <2> HIDE DEF RunRec
    <2> QED
      BY <1>1
  <1> QED
    BY <1>1, <1>2, <1>3

LEMMA PollFields ==
    ASSUME NEW q \in PollRec
    PROVE  /\ q.at \in {"idle", "found", "status", "code", "got"} /\ q.run \in 0..MaxRuns
           /\ q.code \in {None, 0, 1} /\ q.status \in {"running", "success", "failed"}
  BY DEF PollRec

LEMMA StreamFields ==
    ASSUME NEW t \in StreamRec
    PROVE  /\ t.at \in {"idle", "find", "gone", "snap", "status", "decide", "done", "timeout"}
           /\ t.run \in 0..MaxRuns /\ t.cursor \in 0..Cap /\ t.low \in 0..MaxLines
           /\ t.size \in 0..Cap /\ t.running \in BOOLEAN /\ t.sent \subseteq 1..MaxLines
  BY DEF StreamRec

LEMMA FreshRecords ==
    /\ NoPoll \in PollRec /\ NoPoll.at = "idle"
    /\ NoStream \in StreamRec /\ NoStream.at = "idle" /\ NoStream.low = 0
    /\ NoStream.cursor = 0 /\ NoStream.size = 0 /\ NoStream.sent = {}
    /\ Started \in RunRec /\ Started.status = "running"
  BY Constants DEF NoPoll, NoStream, Started, PollRec, StreamRec, RunRec

\* to_dict takes the run's lock, reads the run field by field, and lets go.
PollMoved(p) ==
    LET q == poll[p]
        n == poll'[p]
    IN  \/ n.at = "idle" /\ rlock' = rlock
        \/ n.at = "found" /\ n.run \in {current, last} \ {0} /\ rlock' = rlock
        \/ /\ n.at = "status" /\ q.at = "found" /\ n.run = q.run
           /\ rlock[q.run] = "free" /\ rlock' = [rlock EXCEPT ![q.run] = p]
        \/ /\ n.at = "code" /\ q.at = "status" /\ n.run = q.run
           /\ n.status = runs[q.run].status /\ rlock' = rlock
        \/ /\ n.at = "got" /\ q.at = "code" /\ n.run = q.run /\ n.status = q.status
           /\ n.code = runs[q.run].code /\ rlock' = [rlock EXCEPT ![q.run] = "free"]

LEMMA PollEffect ==
    ASSUME TypeOK, Threads, Polls, NEW p \in Pollers, PollStep(p)
    PROVE  /\ poll' \in [Pollers -> PollRec]
           /\ \A o \in Pollers \ {p} : poll'[o] = poll[o]
           /\ UNCHANGED <<worker, stream>>
           /\ PollMoved(p)
  <1> DEFINE q == poll[p]
             Set(row) == poll' = [poll EXCEPT ![p] = row]
  <1>0. poll \in [Pollers -> PollRec] /\ q \in PollRec /\ p \in Pollers
    BY Typed
  <1>1. ASSUME NEW row \in PollRec, Set(row)
        PROVE  /\ poll' \in [Pollers -> PollRec] /\ poll'[p] = row
               /\ \A o \in Pollers \ {p} : poll'[o] = poll[o]
    <2> HIDE DEF PollRec
    <2> QED
      BY <1>0, <1>1
  <1>2. CASE PollFind(p)
    <2>1. PICK r \in {current, last} \ {0} : Set(AsFound(NoPoll, r))
      BY <1>2, Zenon DEF PollFind, AsFound
    <2>2. r \in 0..MaxRuns
      BY Typed DEF Threads, RunIds
    <2>3. /\ AsFound(NoPoll, r) \in PollRec /\ AsFound(NoPoll, r).at = "found"
          /\ AsFound(NoPoll, r).run = r
      BY <2>2, FreshRecords, PollUpdates
    <2> QED
      BY <1>1, <1>2, <2>1, <2>3 DEF PollFind, PollMoved
  <1>3. CASE PollTime(p)
    <2>1. /\ Set(AsTimed(q, runs[q.run].done)) /\ q.at = "found"
          /\ rlock[q.run] = "free" /\ rlock' = [rlock EXCEPT ![q.run] = p]
      BY <1>0, <1>3, Zenon DEF PollTime, AsTimed, Lock
    <2>2. runs[q.run].done \in BOOLEAN
      BY <2>1, Typed DEF Polls
    <2> HIDE DEF q
    <2>3. /\ AsTimed(q, runs[q.run].done) \in PollRec
          /\ AsTimed(q, runs[q.run].done).at = "status"
          /\ AsTimed(q, runs[q.run].done).run = q.run
      BY <1>0, <2>2, PollUpdates
    <2> QED
      BY <1>1, <1>3, <2>1, <2>3 DEF q, PollTime, PollMoved
  <1>4. CASE PollStatus(p)
    <2>1. Set(AsStated(q, runs[q.run].status)) /\ q.at = "status"
      BY <1>0, <1>4, Zenon DEF PollStatus, AsStated
    <2>2. runs[q.run].status \in {"running", "success", "failed"}
      BY <2>1, Typed DEF Polls
    <2> HIDE DEF q
    <2>3. /\ AsStated(q, runs[q.run].status) \in PollRec
          /\ AsStated(q, runs[q.run].status).at = "code"
          /\ AsStated(q, runs[q.run].status).run = q.run
          /\ AsStated(q, runs[q.run].status).status = runs[q.run].status
      BY <1>0, <2>2, PollUpdates
    <2> QED
      BY <1>1, <1>4, <2>1, <2>3 DEF q, PollStatus, PollMoved
  <1>5. CASE PollCode(p)
    <2>1. /\ Set(AsCoded(q, runs[q.run].code)) /\ q.at = "code"
          /\ rlock' = [rlock EXCEPT ![q.run] = "free"]
      BY <1>0, <1>5, Zenon DEF PollCode, AsCoded, Unlock
    <2>2. runs[q.run].code \in {None, 0, 1}
      BY <2>1, Typed DEF Polls
    <2> HIDE DEF q
    <2>3. /\ AsCoded(q, runs[q.run].code) \in PollRec
          /\ AsCoded(q, runs[q.run].code).at = "got"
          /\ AsCoded(q, runs[q.run].code).run = q.run
          /\ AsCoded(q, runs[q.run].code).status = q.status
          /\ AsCoded(q, runs[q.run].code).code = runs[q.run].code
      BY <1>0, <2>2, PollUpdates
    <2> QED
      BY <1>1, <1>5, <2>1, <2>3 DEF q, PollCode, PollMoved
  <1>6. CASE PollReply(p)
    <2>1. Set(NoPoll)
      BY <1>6 DEF PollReply
    <2> QED
      BY <1>1, <1>6, <2>1, FreshRecords DEF PollReply, PollMoved
  <1> QED
    BY <1>2, <1>3, <1>4, <1>5, <1>6 DEF PollStep

\* _find_run and tail_stream: two lookups, a snapshot and a status under the
\* run's lock, and then what the stream decides by itself.
StreamMoved(s) ==
    LET t == stream[s]
        n == stream'[s]
        Sent == n.run = t.run /\ n.low = t.low /\ n.size = t.size
        Kept == Sent /\ n.cursor = t.cursor /\ n.running = t.running /\ n.sent = t.sent
    IN  \/ n = NoStream /\ rlock' = rlock
        \/ /\ n.at \in {"snap", "find"} /\ n.run \in DOMAIN runs
           /\ n.at = "find" => n.run # current
           /\ n.low = 0 /\ n.size = 0 /\ n.cursor = 0 /\ rlock' = rlock
        \/ /\ t.at = "find" /\ n.at \in {"snap", "gone"} /\ Kept
           /\ n.at = "gone" => n.run # last
           /\ rlock' = rlock
        \/ /\ t.at = "snap" /\ n.at = "status" /\ n.run = t.run
           /\ n.cursor = t.cursor /\ n.running = t.running /\ n.sent = t.sent
           /\ n.size = Least(log[t.run], Cap) /\ n.low = log[t.run] - n.size
           /\ rlock[t.run] = "free" /\ rlock' = [rlock EXCEPT ![t.run] = s]
        \/ /\ t.at = "status" /\ n.at = "decide" /\ Sent
           /\ n.cursor = t.cursor /\ n.sent = t.sent
           /\ n.running <=> runs[t.run].status = "running"
           /\ rlock' = [rlock EXCEPT ![t.run] = "free"]
        \/ /\ t.at = "decide" /\ n.at = "snap" /\ Sent
           /\ n.cursor = t.size /\ n.running = t.running
           /\ t.cursor < t.size
           /\ n.sent = t.sent \cup (t.low + t.cursor + 1)..(t.low + t.size)
           /\ rlock' = rlock
        \/ /\ t.at = "decide" /\ n.at \in {"done", "snap", "timeout"} /\ Kept
           /\ n.at = "done" => ~n.running /\ n.cursor >= n.size
           /\ rlock' = rlock

LEMMA SnapUpdate ==
    ASSUME NEW t \in StreamRec, NEW size \in 0..Cap, NEW low \in 0..MaxLines
    PROVE  /\ AsSnapped(t, size, low) \in StreamRec
           /\ AsSnapped(t, size, low).at = "status"
           /\ AsSnapped(t, size, low).run = t.run
           /\ AsSnapped(t, size, low).cursor = t.cursor
           /\ AsSnapped(t, size, low).low = low
           /\ AsSnapped(t, size, low).size = size
           /\ AsSnapped(t, size, low).running = t.running
           /\ AsSnapped(t, size, low).sent = t.sent
  BY DEF AsSnapped, StreamRec

LEMMA YieldUpdate ==
    ASSUME NEW t \in StreamRec, NEW more \in SUBSET (1..MaxLines)
    PROVE  /\ AsYielded(t, more) \in StreamRec /\ AsYielded(t, more).at = "snap"
           /\ AsYielded(t, more).run = t.run /\ AsYielded(t, more).cursor = t.size
           /\ AsYielded(t, more).low = t.low /\ AsYielded(t, more).size = t.size
           /\ AsYielded(t, more).running = t.running
           /\ AsYielded(t, more).sent = t.sent \cup more
  BY DEF AsYielded, StreamRec

LEMMA StreamEffect ==
    ASSUME TypeOK, Threads, Lookups, NEW s \in Streams, StreamStep(s)
    PROVE  /\ stream' \in [Streams -> StreamRec]
           /\ \A o \in Streams \ {s} : stream'[o] = stream[o]
           /\ UNCHANGED <<worker, poll>>
           /\ StreamMoved(s)
  <1> DEFINE t == stream[s]
             Set(row) == stream' = [stream EXCEPT ![s] = row]
  <1>0. stream \in [Streams -> StreamRec] /\ t \in StreamRec /\ s \in Streams
    BY Typed
  <1>1. ASSUME NEW row \in StreamRec, Set(row)
        PROVE  /\ stream' \in [Streams -> StreamRec] /\ stream'[s] = row
               /\ \A o \in Streams \ {s} : stream'[o] = stream[o]
    <2> HIDE DEF StreamRec
    <2> QED
      BY <1>0, <1>1
  <1>t. \A r \in DOMAIN runs : r \in 0..MaxRuns /\ r \in RunIds
    BY Typed DEF Threads, RunIds
  <1>2. ASSUME NEW r \in RunIds, FindFirst(s, r) PROVE StreamMoved(s)
                 /\ UNCHANGED <<worker, poll>> /\ stream' \in [Streams -> StreamRec]
                 /\ \A o \in Streams \ {s} : stream'[o] = stream[o]
    <2> DEFINE at == IF current = r THEN "snap" ELSE "find"
    <2>1. Set(AsLooked(NoStream, r, at)) /\ r \in DOMAIN runs
      BY <1>2, Zenon DEF FindFirst, AsLooked, Lookup
    <2>2. r \in 0..MaxRuns /\ at \in {"snap", "find"} /\ (at = "find" => r # current)
      BY <1>t, <2>1
    <2> HIDE DEF at
    <2>3. /\ AsLooked(NoStream, r, at) \in StreamRec /\ AsLooked(NoStream, r, at).at = at
          /\ AsLooked(NoStream, r, at).run = r /\ AsLooked(NoStream, r, at).cursor = 0
          /\ AsLooked(NoStream, r, at).low = 0 /\ AsLooked(NoStream, r, at).size = 0
      <3>1. /\ NoStream \in StreamRec
            /\ NoStream.cursor = 0 /\ NoStream.low = 0 /\ NoStream.size = 0
        BY FreshRecords
      <3>2. \A n \in 0..MaxRuns, a \in {"snap", "find"} :
               /\ AsLooked(NoStream, n, a) \in StreamRec /\ AsLooked(NoStream, n, a).at = a
               /\ AsLooked(NoStream, n, a).run = n
               /\ AsLooked(NoStream, n, a).cursor = NoStream.cursor
               /\ AsLooked(NoStream, n, a).low = NoStream.low
               /\ AsLooked(NoStream, n, a).size = NoStream.size
        BY <3>1, StreamUpdates
      <3> QED
        BY <2>2, <3>1, <3>2
    <2> QED
      BY <1>1, <1>2, <2>1, <2>2, <2>3, ZenonT(40) DEF FindFirst, StreamMoved
  <1>3. CASE FindSecond(s)
    <2> DEFINE at == IF last = t.run THEN "snap" ELSE "gone"
    <2>1. Set(AsAt(t, at)) /\ t.at = "find"
      BY <1>0, <1>3, Zenon DEF FindSecond, AsAt, Lookup
    <2>2. at \in {"snap", "gone"} /\ (at = "gone" => t.run # last)
      OBVIOUS
    <2> HIDE DEF at, t
    <2>3. /\ AsAt(t, at) \in StreamRec /\ AsAt(t, at).at = at
          /\ AsAt(t, at).run = t.run /\ AsAt(t, at).cursor = t.cursor
          /\ AsAt(t, at).low = t.low /\ AsAt(t, at).size = t.size
          /\ AsAt(t, at).running = t.running /\ AsAt(t, at).sent = t.sent
      BY <1>0, <2>2, StreamUpdates
    <2> QED
      BY <1>1, <1>3, <2>1, <2>2, <2>3 DEF t, FindSecond, StreamMoved
  <1>4. CASE Snap(s)
    <2> DEFINE size == Least(log[t.run], Cap)
               low == log[t.run] - Least(log[t.run], Cap)
    <2>1. /\ Set(AsSnapped(t, size, low)) /\ t.at = "snap"
          /\ rlock[t.run] = "free" /\ rlock' = [rlock EXCEPT ![t.run] = s]
      BY <1>0, <1>4, Zenon DEF Snap, AsSnapped, Lock
    <2>2. log[t.run] \in 0..MaxLines
      BY <1>t, <2>1, Typed DEF Lookups
    <2>3. size \in 0..Cap /\ low \in 0..MaxLines /\ low = log[t.run] - size
      BY <2>2, Constants DEF Least
    <2>q. size = Least(log[t.run], Cap)
      OBVIOUS
    <2> HIDE DEF t, size, low
    <2>4. /\ AsSnapped(t, size, low) \in StreamRec
          /\ AsSnapped(t, size, low).at = "status"
          /\ AsSnapped(t, size, low).run = t.run
          /\ AsSnapped(t, size, low).cursor = t.cursor
          /\ AsSnapped(t, size, low).low = low
          /\ AsSnapped(t, size, low).size = size
          /\ AsSnapped(t, size, low).running = t.running
          /\ AsSnapped(t, size, low).sent = t.sent
      BY <1>0, <2>3, SnapUpdate
    <2>5. /\ stream' \in [Streams -> StreamRec] /\ stream'[s] = AsSnapped(t, size, low)
          /\ \A o \in Streams \ {s} : stream'[o] = stream[o]
          /\ UNCHANGED <<worker, poll>>
      BY <1>1, <1>4, <2>1, <2>4 DEF Snap
    <2>6. /\ t.at = "snap" /\ stream'[s].at = "status" /\ stream'[s].run = t.run
          /\ stream'[s].cursor = t.cursor /\ stream'[s].running = t.running
          /\ stream'[s].sent = t.sent
          /\ stream'[s].size = Least(log[t.run], Cap)
          /\ stream'[s].low = log[t.run] - stream'[s].size
          /\ rlock[t.run] = "free" /\ rlock' = [rlock EXCEPT ![t.run] = s]
      BY <2>1, <2>3, <2>4, <2>5, <2>q
    <2>7. StreamMoved(s)
      BY <2>6, Zenon DEF t, StreamMoved
    <2> QED
      BY <2>5, <2>7
  <1>5. CASE Status(s)
    <2> DEFINE up == runs[t.run].status = "running"
    <2>1. /\ Set(AsRead(t, up)) /\ t.at = "status"
          /\ rlock' = [rlock EXCEPT ![t.run] = "free"]
      BY <1>0, <1>5, Zenon DEF Status, AsRead, Unlock
    <2>2. up \in BOOLEAN
      OBVIOUS
    <2>q. up <=> runs[t.run].status = "running"
      OBVIOUS
    <2> HIDE DEF up, t
    <2>3. /\ AsRead(t, up) \in StreamRec /\ AsRead(t, up).at = "decide"
          /\ AsRead(t, up).run = t.run /\ AsRead(t, up).cursor = t.cursor
          /\ AsRead(t, up).low = t.low /\ AsRead(t, up).size = t.size
          /\ AsRead(t, up).running = up /\ AsRead(t, up).sent = t.sent
      BY <1>0, <2>2, StreamUpdates
    <2> QED
      BY <1>1, <1>5, <2>1, <2>3, <2>q DEF t, Status, StreamMoved
  <1>6. CASE Yield(s)
    <2> DEFINE more == (t.low + t.cursor + 1)..(t.low + t.size)
    <2>1. Set(AsYielded(t, more)) /\ t.at = "decide" /\ t.cursor < t.size
      BY <1>0, <1>6, Zenon DEF Yield, AsYielded
    <2>2. more \in SUBSET (1..MaxLines)
      <3>1. t.low + t.size <= MaxLines
        BY <1>0, <2>1 DEF Lookups
      <3>2. t.low \in 0..MaxLines /\ t.cursor \in 0..Cap /\ t.size \in 0..Cap
        BY <1>0, StreamFields
      <3> QED
        BY <3>1, <3>2, Constants
    <2>q. more = (t.low + t.cursor + 1)..(t.low + t.size)
      OBVIOUS
    <2> HIDE DEF more, t
    <2>3. /\ AsYielded(t, more) \in StreamRec /\ AsYielded(t, more).at = "snap"
          /\ AsYielded(t, more).run = t.run /\ AsYielded(t, more).cursor = t.size
          /\ AsYielded(t, more).low = t.low /\ AsYielded(t, more).size = t.size
          /\ AsYielded(t, more).running = t.running
          /\ AsYielded(t, more).sent = t.sent \cup more
      BY <1>0, <2>2, YieldUpdate
    <2> QED
      BY <1>1, <1>6, <2>1, <2>3, <2>q DEF t, Yield, StreamMoved
  <1>7. ASSUME StreamDone(s) \/ Idle(s)
        PROVE  /\ t.at = "decide" /\ t.cursor >= t.size /\ UNCHANGED <<worker, rlock, poll>>
               /\ \E at \in {"done", "snap", "timeout"} :
                     Set(AsAt(t, at)) /\ (at = "done" => ~t.running)
    BY <1>7, Zenon DEF StreamDone, Idle, AsAt
  <1>8. CASE StreamDone(s) \/ Idle(s)
    <2>1. PICK at \in {"done", "snap", "timeout"} : Set(AsAt(t, at)) /\ (at = "done" => ~t.running)
      BY <1>7, <1>8
    <2>2. t.at = "decide" /\ t.cursor >= t.size /\ UNCHANGED <<worker, rlock, poll>>
      BY <1>7, <1>8
    <2> HIDE DEF t
    <2>3. /\ AsAt(t, at) \in StreamRec /\ AsAt(t, at).at = at
          /\ AsAt(t, at).run = t.run /\ AsAt(t, at).cursor = t.cursor
          /\ AsAt(t, at).low = t.low /\ AsAt(t, at).size = t.size
          /\ AsAt(t, at).running = t.running /\ AsAt(t, at).sent = t.sent
      BY <1>0, StreamUpdates
    <2> QED
      BY <1>1, <2>1, <2>2, <2>3 DEF t, StreamMoved
  <1>9. CASE StreamClosed(s)
    <2>1. Set(NoStream)
      BY <1>9 DEF StreamClosed
    <2> QED
      BY <1>1, <1>9, <2>1, FreshRecords DEF StreamClosed, StreamMoved
  <1>10. CASE \E r \in RunIds : FindFirst(s, r)
    BY <1>2, <1>10
  <1> QED
    BY <1>3, <1>4, <1>5, <1>6, <1>8, <1>9, <1>10 DEF StreamStep

\* A new action starts only when there is no current one, not even one that is
\* about to be dropped.
LEMMA StartEffect ==
    ASSUME TypeOK, Threads, Start
    PROVE  /\ current = 0 /\ ~wlock /\ current' = Len(runs) + 1
           /\ current' \in RunIds /\ current' \notin DOMAIN runs
           /\ runs' \in Seq(RunRec) /\ Len(runs') = Len(runs) + 1
           /\ DOMAIN runs' = DOMAIN runs \cup {current'}
           /\ \A r \in DOMAIN runs : runs'[r] = runs[r]
           /\ runs'[current'].status = "running"
           /\ UNCHANGED <<last, wlock, readers, runner, alive, code, log, faults>>
  <1>1. current = 0
    <2> SUFFICES ASSUME current # 0 PROVE FALSE
      OBVIOUS
    <2>1. current \in DOMAIN runs /\ runs[current].status # "running" /\ ~wlock
      BY Typed DEF Start, Busy
    <2>2. runner[current] = "finish_end"
      BY <2>1 DEF Threads, Final
    <2> QED
      BY <2>1, <2>2 DEF Threads, Finishing
  <1>2. /\ runs \in Seq(RunRec) /\ Len(runs) \in Nat /\ DOMAIN runs = 1..Len(runs)
        /\ Started \in RunRec
    BY Typed, FreshRecords
  <1>3. runs' = Append(runs, Started) /\ current' = Len(runs') /\ Len(runs) < MaxRuns
    BY DEF Start
  <1>4. /\ runs' \in Seq(RunRec) /\ Len(runs') = Len(runs) + 1
        /\ DOMAIN runs' = 1..(Len(runs) + 1)
        /\ \A r \in DOMAIN runs : runs'[r] = runs[r]
        /\ runs'[Len(runs) + 1] = Started
    <2> HIDE DEF RunRec, Started
    <2> QED
      BY <1>2, <1>3
  <1>5. current' = Len(runs) + 1 /\ current' \in RunIds /\ current' \notin DOMAIN runs
    BY <1>2, <1>3, <1>4, Constants DEF RunIds
  <1>6. DOMAIN runs' = DOMAIN runs \cup {current'}
    BY <1>2, <1>4, <1>5
  <1> QED
    BY <1>1, <1>4, <1>5, <1>6, FreshRecords DEF Start

\* The steps of a run's thread, and of its process, outside _finish.
Quiet(r) == \/ StartThread(r) \/ Begin(r) \/ Spawn(r) \/ WorkerError(r)
            \/ ProcessStep(r)

\* They print a line under the run's lock, as long as the process has one.
Printed(r) ==
    \/ log' = log
    \/ /\ rlock[r] = "free" /\ log' = [log EXCEPT ![r] = @ + 1]
       /\ runner[r] \in {"begin", "reading", "error"}
       /\ runner[r] = "reading" => log[r] < MaxLines - 1 /\ runner'[r] = "reading"

\* They move the thread on towards _finish.
QuietMoved(r) ==
    \/ runner' = runner /\ code' = code
    \/ \E b \in Labels :
          /\ r \in DOMAIN runs /\ runner' = [runner EXCEPT ![r] = b]
          /\ \/ runner[r] = "none" /\ b \in {"begin", "refused"} /\ code' = code /\ log' = log
             \/ runner[r] = "begin" /\ b \in {"finish", "spawn"} /\ code' = code
             \/ runner[r] = "spawn" /\ b \in {"reading", "error"} /\ code' = code
             \/ runner[r] = "reading" /\ b = "error" /\ code' = code
             \/ /\ runner[r] \in {"reading", "error"} /\ b = "finish"
                /\ \E c \in {0, 1} : code' = [code EXCEPT ![r] = c]

LEMMA QuietEffect ==
    ASSUME TypeOK, Threads, NEW r \in RunIds, Quiet(r)
    PROVE  /\ UNCHANGED <<runs, current, last, wlock, readers>>
           /\ Printed(r) /\ QuietMoved(r)
           /\ alive' \subseteq alive \cup {r} /\ faults' \in 0..MaxFaults
           /\ \A o \in alive' : o \notin alive => runner'[o] = "reading"
  <1>0. /\ runner \in [RunIds -> Labels] /\ faults \in 0..MaxFaults /\ MaxFaults \in Nat
        /\ runner[r] # "none" => r \in DOMAIN runs
    BY Typed, Constants DEF Threads
  <1> USE DEF readers
  <1>1. CASE StartThread(r)
    <2>1. PICK b \in {"begin", "refused"} : runner' = [runner EXCEPT ![r] = b]
      BY <1>1, Zenon DEF StartThread
    <2>2. b \in Labels
      BY DEF Labels
    <2>3. /\ UNCHANGED <<runs, current, last, wlock, readers, alive, code, log>>
          /\ r \in DOMAIN runs /\ runner[r] = "none"
          /\ faults' = faults \/ (faults < MaxFaults /\ faults' = faults + 1)
      BY <1>1, Zenon DEF StartThread
    <2>4. faults' \in 0..MaxFaults
      BY <1>0, <2>3
    <2>5. QuietMoved(r) /\ Printed(r)
      BY <2>1, <2>2, <2>3 DEF QuietMoved, Printed
    <2> QED
      BY <2>3, <2>4, <2>5
  <1>2. CASE Begin(r)
    <2>1. PICK b \in {"finish", "spawn"} : runner' = [runner EXCEPT ![r] = b]
      BY <1>2, Zenon DEF Begin
    <2>2. b \in Labels
      BY DEF Labels
    <2> QED
      BY <1>0, <1>2, <2>1, <2>2 DEF Begin, AppendLog, Printed, QuietMoved
  <1>3. CASE Spawn(r)
    <2>1. PICK b \in {"reading", "error"} : /\ runner' = [runner EXCEPT ![r] = b]
                                            /\ \/ b = "reading" /\ alive' = alive \cup {r}
                                               \/ b = "error" /\ alive' = alive
      BY <1>3, Zenon DEF Spawn
    <2>2. b \in Labels /\ runner'[r] = b
      BY <1>0, <2>1 DEF Labels
    <2>3. /\ UNCHANGED <<runs, current, last, wlock, readers, code, log, faults>>
          /\ runner[r] = "spawn"
      BY <1>3, Zenon DEF Spawn
    <2>5. QuietMoved(r) /\ Printed(r)
      BY <1>0, <2>1, <2>2, <2>3 DEF QuietMoved, Printed
    <2> QED
      BY <1>0, <2>1, <2>2, <2>3, <2>5
  <1>4. CASE WorkerError(r)
    <2>1. "finish" \in Labels
      BY DEF Labels
    <2> QED
      BY <1>0, <1>4, <2>1 DEF WorkerError, AppendLog, Printed, QuietMoved
  <1>5. CASE Output(r)
    BY <1>0, <1>5 DEF Output, AppendLog, Printed, QuietMoved
  <1>6. CASE OutputRaises(r)
    <2>1. "error" \in Labels
      BY DEF Labels
    <2> QED
      BY <1>0, <1>6, <2>1 DEF OutputRaises, Printed, QuietMoved
  <1>7. CASE Exit(r)
    <2>1. "finish" \in Labels
      BY DEF Labels
    <2> QED
      BY <1>0, <1>7, <2>1 DEF Exit, Printed, QuietMoved
  <1>8. CASE OrphanEnds(r)
    BY <1>0, <1>8 DEF OrphanEnds, Printed, QuietMoved
  <1> QED
    BY <1>1, <1>2, <1>3, <1>4, <1>5, <1>6, <1>7, <1>8 DEF Quiet, ProcessStep

\* _finish, which belongs to the current run.
Finish(r) == FinishTime(r) \/ FinishCode(r) \/ FinishStatus(r) \/ FinishEnd(r)

\* It completes the record, field by field, and drops the run.
Finished(r) ==
    \/ /\ runner[r] = "finish" /\ runner' = [runner EXCEPT ![r] = "finish_code"]
       /\ ~wlock /\ wlock' /\ UNCHANGED <<current, last>>
       /\ runs'[r].status = runs[r].status
    \/ /\ runner[r] = "finish_code" /\ runner' = [runner EXCEPT ![r] = "finish_status"]
       /\ UNCHANGED <<current, last, wlock>>
       /\ runs'[r].status = runs[r].status /\ runs'[r].code = code[r]
    \/ /\ runner[r] = "finish_status" /\ runner' = [runner EXCEPT ![r] = "finish_end"]
       /\ UNCHANGED <<current, last, wlock>>
       /\ runs'[r].status \in {"success", "failed"} /\ runs'[r].code = runs[r].code
       /\ (code[r] = 0) = (runs'[r].status = "success")
    \/ /\ runner[r] = "finish_end" /\ runner' = [runner EXCEPT ![r] = "over"]
       /\ wlock' = FALSE /\ last' = r /\ current' = 0 /\ runs' = runs

LEMMA FinishEffect ==
    ASSUME TypeOK, Threads, NEW r \in RunIds, Finish(r)
    PROVE  /\ UNCHANGED <<readers, alive, code, log, faults>>
           /\ r \in DOMAIN runs /\ current = r
           /\ runs' \in Seq(RunRec) /\ Len(runs') = Len(runs) /\ DOMAIN runs' = DOMAIN runs
           /\ \A o \in DOMAIN runs \ {r} : runs'[o] = runs[o]
           /\ Finished(r)
  <1>0. /\ runner[r] \in {"finish", "finish_code", "finish_status", "finish_end"}
        /\ UNCHANGED <<readers, alive, code, log, faults>>
    BY DEF Finish, FinishTime, FinishCode, FinishStatus, FinishEnd
  <1>1. /\ r \in DOMAIN runs /\ current = r /\ runs \in Seq(RunRec) /\ runs[r] \in RunRec
        /\ DOMAIN runs = 1..Len(runs) /\ code[r] \in {0, 1}
    BY <1>0, Typed DEF Threads
  <1>2. ASSUME NEW row \in RunRec, runs' = [runs EXCEPT ![r] = row]
        PROVE  /\ runs' \in Seq(RunRec) /\ Len(runs') = Len(runs)
               /\ DOMAIN runs' = DOMAIN runs /\ runs'[r] = row
               /\ \A o \in DOMAIN runs \ {r} : runs'[o] = runs[o]
    <2> HIDE DEF RunRec
    <2> QED
      BY <1>1, <1>2
  <1>3. CASE FinishTime(r)
    <2>1. runs' = [runs EXCEPT ![r] = Completed(runs[r])]
      BY <1>1, <1>3, Zenon DEF FinishTime, Completed
    <2>2. Completed(runs[r]) \in RunRec /\ Completed(runs[r]).status = runs[r].status
      BY <1>1, RunUpdates
    <2> QED
      BY <1>0, <1>1, <1>2, <1>3, <2>1, <2>2 DEF FinishTime, Finished
  <1>4. CASE FinishCode(r)
    <2>1. runs' = [runs EXCEPT ![r] = Coded(runs[r], code[r])]
      BY <1>1, <1>4, Zenon DEF FinishCode, CodeThenStatus, Coded
    <2>2. /\ Coded(runs[r], code[r]) \in RunRec /\ Coded(runs[r], code[r]).status = runs[r].status
          /\ Coded(runs[r], code[r]).code = code[r]
      BY <1>1, RunUpdates
    <2> QED
      BY <1>0, <1>1, <1>2, <1>4, <2>1, <2>2 DEF FinishCode, Finished
  <1>5. CASE FinishStatus(r)
    <2>1. runs' = [runs EXCEPT ![r] = Stated(runs[r], FinalStatus(r))]
      BY <1>1, <1>5, Zenon DEF FinishStatus, CodeThenStatus, Stated
    <2>2. FinalStatus(r) \in {"success", "failed"} /\ ((code[r] = 0) = (FinalStatus(r) = "success"))
      BY DEF FinalStatus
    <2>3. /\ Stated(runs[r], FinalStatus(r)) \in RunRec
          /\ Stated(runs[r], FinalStatus(r)).status = FinalStatus(r)
          /\ Stated(runs[r], FinalStatus(r)).code = runs[r].code
      BY <1>1, <2>2, RunUpdates
    <2> QED
      BY <1>0, <1>1, <1>2, <1>5, <2>1, <2>2, <2>3 DEF FinishStatus, Finished
  <1>6. CASE FinishEnd(r)
    BY <1>0, <1>1, <1>6 DEF FinishEnd, Finished
  <1> QED
    BY <1>3, <1>4, <1>5, <1>6 DEF Finish

LEMMA StepCases ==
    ASSUME Next
    PROVE  \/ Start
           \/ \E r \in RunIds : Quiet(r) \/ Finish(r)
           \/ \E p \in Pollers : PollStep(p)
           \/ \E s \in Streams : StreamStep(s)
  BY DEF Next, RunnerStep, Quiet, Finish
-----------------------------------------------------------------------------
(* WorkerInv is inductive *)

LEMMA TypeFromParts ==
    ASSUME runs' \in Seq(RunRec), current' \in 0..Len(runs'), last' \in 0..Len(runs'),
           wlock' \in BOOLEAN, rlock' \in [RunIds -> Pollers \cup Streams \cup {"free"}],
           runner' \in [RunIds -> Labels], alive' \subseteq RunIds,
           code' \in [RunIds -> {None, 0, 1}], log' \in [RunIds -> 0..MaxLines],
           poll' \in [Pollers -> PollRec], stream' \in [Streams -> StreamRec],
           faults' \in 0..MaxFaults
    PROVE  TypeOK'
  BY Zenon DEF TypeOK, RunRec, PollRec, StreamRec, Labels

\* A label the thread can move to is a label.
LEMMA QuietTypes ==
    ASSUME WorkerInv, NEW r \in RunIds, Quiet(r)
    PROVE  /\ runner' \in [RunIds -> Labels] /\ code' \in [RunIds -> {None, 0, 1}]
           /\ log' \in [RunIds -> 0..MaxLines]
  <1>0. TypeOK /\ Threads
    BY DEF WorkerInv
  <1>1. /\ runner \in [RunIds -> Labels] /\ code \in [RunIds -> {None, 0, 1}]
        /\ log \in [RunIds -> 0..MaxLines] /\ MaxLines \in Nat /\ MaxLines > 1
    BY <1>0, Typed, Constants
  <1>2. QuietMoved(r) /\ Printed(r)
    BY <1>0, QuietEffect
  <1>3. runner' \in [RunIds -> Labels] /\ code' \in [RunIds -> {None, 0, 1}]
    BY <1>1, <1>2 DEF QuietMoved
  <1>4. CASE log' = log
    BY <1>1, <1>3, <1>4
  <1>5. CASE log' # log
    <2>1. log[r] < MaxLines /\ log' = [log EXCEPT ![r] = @ + 1]
      BY <1>1, <1>2, <1>5 DEF Printed, WorkerInv, Lines
    <2> QED
      BY <1>1, <1>3, <2>1
  <1> QED
    BY <1>4, <1>5

LEMMA TypeStep ==
    ASSUME WorkerInv, Next
    PROVE  TypeOK'
  <1> USE DEF worker, readers
  <1>0. TypeOK /\ Threads /\ Polls /\ Lookups
    BY DEF WorkerInv
  <1>1. /\ runs \in Seq(RunRec) /\ current \in 0..Len(runs) /\ last \in 0..Len(runs)
        /\ wlock \in BOOLEAN /\ rlock \in [RunIds -> Pollers \cup Streams \cup {"free"}]
        /\ runner \in [RunIds -> Labels] /\ alive \subseteq RunIds
        /\ code \in [RunIds -> {None, 0, 1}] /\ log \in [RunIds -> 0..MaxLines]
        /\ poll \in [Pollers -> PollRec] /\ stream \in [Streams -> StreamRec]
        /\ faults \in 0..MaxFaults /\ Len(runs) \in Nat
    BY <1>0, Typed
  <1>2. CASE Start
    BY <1>0, <1>1, <1>2, StartEffect, TypeFromParts
  <1>3. ASSUME NEW r \in RunIds, Quiet(r) PROVE TypeOK'
    <2>1. /\ UNCHANGED <<runs, current, last, wlock, readers>>
          /\ alive' \subseteq alive \cup {r} /\ faults' \in 0..MaxFaults
      BY <1>0, <1>3, QuietEffect
    <2> QED
      BY <1>1, <1>3, <2>1, QuietTypes, TypeFromParts
  <1>4. ASSUME NEW r \in RunIds, Finish(r) PROVE TypeOK'
    <2>1. /\ UNCHANGED <<readers, alive, code, log, faults>> /\ r \in DOMAIN runs
          /\ runs' \in Seq(RunRec) /\ Len(runs') = Len(runs) /\ Finished(r)
      BY <1>0, <1>4, FinishEffect
    <2>2. r \in 1..Len(runs)
      BY <1>0, <2>1, Typed
    <2>3. runner' \in [RunIds -> Labels]
      BY <1>1, <2>1 DEF Finished, Labels
    <2>4. current' \in 0..Len(runs') /\ last' \in 0..Len(runs') /\ wlock' \in BOOLEAN
      <3>1. /\ current' = current \/ current' = 0
            /\ last' = last \/ last' = r
        BY <2>1, Zenon DEF Finished
      <3>2. Len(runs') = Len(runs)
        BY <2>1
      <3>3. wlock' \in BOOLEAN
        BY <1>1, <1>4, <2>1 DEF Finish, FinishTime, FinishCode, FinishStatus, FinishEnd
      <3> QED
        BY <1>1, <2>2, <3>1, <3>2, <3>3
    <2> QED
      BY <1>1, <2>1, <2>3, <2>4, TypeFromParts
  <1>5. ASSUME NEW p \in Pollers, PollStep(p) PROVE TypeOK'
    <2>1. /\ poll' \in [Pollers -> PollRec] /\ UNCHANGED <<worker, stream>> /\ PollMoved(p)
      BY <1>0, <1>5, PollEffect
    <2>2. rlock' \in [RunIds -> Pollers \cup Streams \cup {"free"}]
      BY <1>1, <2>1 DEF PollMoved
    <2> QED
      BY <1>1, <2>1, <2>2, TypeFromParts
  <1>6. ASSUME NEW s \in Streams, StreamStep(s) PROVE TypeOK'
    <2>1. /\ stream' \in [Streams -> StreamRec] /\ UNCHANGED <<worker, poll>> /\ StreamMoved(s)
      BY <1>0, <1>6, StreamEffect
    <2>2. rlock' \in [RunIds -> Pollers \cup Streams \cup {"free"}]
      <3>1. \/ rlock' = rlock \/ \E r : rlock' = [rlock EXCEPT ![r] = s]
            \/ \E r : rlock' = [rlock EXCEPT ![r] = "free"]
        BY <2>1, Zenon DEF StreamMoved
      <3> QED
        BY <1>1, <3>1
    <2> QED
      BY <1>1, <2>1, <2>2, TypeFromParts
  <1> QED
    BY <1>2, <1>3, <1>4, <1>5, <1>6, StepCases

\* A final status and its exit code are never written again.
LEMMA RunsStay ==
    ASSUME TypeOK, Threads, Polls, Lookups, Next
    PROVE  /\ DOMAIN runs \subseteq DOMAIN runs'
           /\ \A r \in DOMAIN runs : runs[r].status # "running" =>
                 /\ runs'[r].status = runs[r].status /\ runs'[r].code = runs[r].code
  <1>2. CASE Start
    BY <1>2, StartEffect
  <1>3. ASSUME NEW r \in RunIds, Quiet(r) PROVE runs' = runs
    BY <1>3, QuietEffect
  <1>4. ASSUME NEW r \in RunIds, Finish(r), NEW o \in DOMAIN runs, runs[o].status # "running"
        PROVE  runs'[o].status = runs[o].status /\ runs'[o].code = runs[o].code
    <2>1. o # r => runs'[o] = runs[o]
      BY <1>4, FinishEffect
    <2>2. o = r => runner[r] \in Final /\ Finished(r)
      BY <1>4, FinishEffect DEF Threads
    <2>3. o = r => runs' = runs
      BY <2>2 DEF Final, Finished
    <2> QED
      BY <2>1, <2>3
  <1>5. ASSUME NEW p \in Pollers, PollStep(p) PROVE runs' = runs
    BY <1>5, PollEffect DEF worker
  <1>6. ASSUME NEW s \in Streams, StreamStep(s) PROVE runs' = runs
    BY <1>6, StreamEffect DEF worker
  <1>7. \A r \in RunIds : Finish(r) => DOMAIN runs' = DOMAIN runs
    BY FinishEffect
  <1> QED
    BY <1>2, <1>3, <1>4, <1>5, <1>6, <1>7, StepCases

\* A thread that is not over belongs to the current run: a new run is accepted
\* when there is none, and _finish drops the run with its last step.
LEMMA ThreadsStep ==
    ASSUME WorkerInv, Next
    PROVE  Threads'
  <1> USE DEF worker, readers
  <1>0. TypeOK /\ Threads /\ Polls /\ Lookups
    BY DEF WorkerInv
  <1>1. /\ runner \in [RunIds -> Labels] /\ code \in [RunIds -> {None, 0, 1}]
        /\ DOMAIN runs = 1..Len(runs) /\ Len(runs) \in Nat /\ current \in 0..Len(runs)
        /\ 0 \notin DOMAIN runs
    BY <1>0, Typed
  <1>2. CASE Start
    <2>1. \A r \in DOMAIN runs : runner[r] = "over"
      BY <1>0, <1>2, <1>1, StartEffect DEF Threads
    <2>2. /\ current' \in RunIds /\ current' \notin DOMAIN runs
          /\ DOMAIN runs' = DOMAIN runs \cup {current'}
          /\ \A r \in DOMAIN runs : runs'[r] = runs[r]
          /\ runs'[current'].status = "running"
          /\ runner' = runner /\ code' = code
      BY <1>0, <1>2, StartEffect
    <2>3. runner[current'] = "none"
      BY <1>0, <2>2 DEF Threads
    <2> QED
      BY <1>0, <2>1, <2>2, <2>3 DEF Threads, Finishing, Final
  <1>3. ASSUME NEW r \in RunIds, Quiet(r) PROVE Threads'
    <2>1. UNCHANGED <<runs, current, wlock>> /\ QuietMoved(r)
      BY <1>0, <1>3, QuietEffect
    <2>2. CASE runner' = runner /\ code' = code
      BY <1>0, <2>1, <2>2 DEF Threads
    <2>3. CASE ~(runner' = runner /\ code' = code)
      <3>1. /\ r \in DOMAIN runs
            /\ runner[r] \in {"none", "begin", "spawn", "reading", "error"}
            /\ runner'[r] \in {"begin", "refused", "finish", "spawn", "reading", "error"}
            /\ \A o \in RunIds \ {r} : runner'[o] = runner[o] /\ code'[o] = code[o]
            /\ code'[r] # None
        BY <1>0, <1>1, <2>1, <2>3 DEF QuietMoved, Threads, None
      <3> QED
        BY <1>0, <2>1, <3>1 DEF Threads, Finishing, Final
    <2> QED
      BY <2>2, <2>3
  <1>4. ASSUME NEW r \in RunIds, Finish(r) PROVE Threads'
    <2>1. /\ code' = code /\ r \in DOMAIN runs /\ current = r /\ DOMAIN runs' = DOMAIN runs
          /\ \A o \in DOMAIN runs \ {r} : runs'[o] = runs[o]
          /\ Finished(r)
      BY <1>0, <1>4, FinishEffect
    <2>2. \A o \in RunIds \ {r} : runner'[o] = runner[o]
      BY <1>1, <2>1 DEF Finished
    <2>3. \A o \in DOMAIN runs \ {r} : runner[o] = "over"
      BY <1>0, <2>1 DEF Threads
    <2>4. /\ r \in RunIds
          /\ runner'[r] # "over" <=> current' = r
          /\ runner'[r] \in Finishing => wlock'
          /\ runs'[r].status = "running" <=> runner'[r] \notin Final
          /\ runner'[r] = "finish_status" \/ runner'[r] \in Final => runs'[r].code = code[r]
          /\ runner'[r] \in Final => (code[r] = 0) = (runs'[r].status = "success")
      <3>1. /\ runner[r] \in Finishing => wlock
            /\ runs[r].status = "running" <=> runner[r] \notin Final
            /\ runner[r] = "finish_status" \/ runner[r] \in Final => runs[r].code = code[r]
            /\ runner[r] \in Final => (code[r] = 0) = (runs[r].status = "success")
        BY <1>0, <2>1 DEF Threads
      <3>2. r # 0
        BY <1>1, <2>1
      <3> QED
        BY <1>1, <2>1, <3>1, <3>2 DEF Finished, Finishing, Final
    <2>5. \A o \in DOMAIN runs \ {r} : current' # o
      BY <1>1, <2>1 DEF Finished
    <2> QED
      BY <1>0, <2>1, <2>2, <2>3, <2>4, <2>5 DEF Threads, Finishing, Final
  <1>5. ASSUME NEW p \in Pollers, PollStep(p) PROVE Threads'
    BY <1>0, <1>5, PollEffect DEF Threads
  <1>6. ASSUME NEW s \in Streams, StreamStep(s) PROVE Threads'
    BY <1>0, <1>6, StreamEffect DEF Threads
  <1> QED
    BY <1>2, <1>3, <1>4, <1>5, <1>6, StepCases

\* Every line that the thread itself has to print finds room.
LEMMA LinesStep ==
    ASSUME WorkerInv, Next
    PROVE  Lines'
  <1> USE DEF worker, readers
  <1>0. TypeOK /\ Threads /\ Polls /\ Lookups /\ Lines
    BY DEF WorkerInv
  <1>1. /\ runner \in [RunIds -> Labels] /\ log \in [RunIds -> 0..MaxLines]
        /\ MaxLines \in Nat /\ MaxLines > 1
    BY <1>0, Typed, Constants
  <1>2. CASE Start
    BY <1>0, <1>2, StartEffect DEF Lines
  <1>3. ASSUME NEW r \in RunIds, Quiet(r) PROVE Lines'
    <2>1. QuietMoved(r) /\ Printed(r)
      BY <1>0, <1>3, QuietEffect
    <2>2. \A o \in RunIds \ {r} : runner'[o] = runner[o] /\ log'[o] = log[o]
      BY <1>1, <2>1 DEF QuietMoved, Printed
    <2>3. CASE runner' = runner /\ log' = log
      BY <1>0, <2>3 DEF Lines
    <2>4. CASE runner' = runner /\ log' # log
      <3>1. log[r] < MaxLines - 1 \/ runner[r] \in {"begin", "error"}
        BY <2>1, <2>4 DEF Printed
      <3>2. runner[r] \notin {"begin", "error"}
        BY <1>0, <1>1, <1>3, <2>4, Zenon DEF Quiet, ProcessStep, StartThread, Begin, Spawn,
             WorkerError, Output, OutputRaises, Exit, OrphanEnds
      <3> QED
        BY <1>0, <1>1, <2>1, <2>2, <2>4, <3>1, <3>2 DEF Lines, Printed
    <2>5. CASE runner' # runner
      BY <1>0, <1>1, <2>1, <2>2, <2>5 DEF Lines, QuietMoved, Printed
    <2> QED
      BY <2>3, <2>4, <2>5
  <1>4. ASSUME NEW r \in RunIds, Finish(r) PROVE Lines'
    <2>1. Finished(r) /\ log' = log
      BY <1>0, <1>4, FinishEffect
    <2> QED
      BY <1>0, <1>1, <2>1 DEF Lines, Finished
  <1>5. ASSUME NEW p \in Pollers, PollStep(p) PROVE Lines'
    BY <1>0, <1>5, PollEffect DEF Lines
  <1>6. ASSUME NEW s \in Streams, StreamStep(s) PROVE Lines'
    BY <1>0, <1>6, StreamEffect DEF Lines
  <1> QED
    BY <1>2, <1>3, <1>4, <1>5, <1>6, StepCases

\* What to_dict has read of a run stays true of it, and the lock it reads under
\* is its own until it lets go.
LEMMA PollsStep ==
    ASSUME WorkerInv, Next
    PROVE  Polls'
  <1> USE DEF worker, readers
  <1>0. TypeOK /\ Threads /\ Polls /\ Lookups
    BY DEF WorkerInv
  <1>1. /\ DOMAIN runs \subseteq DOMAIN runs'
        /\ \A r \in DOMAIN runs : runs[r].status # "running" =>
              /\ runs'[r].status = runs[r].status /\ runs'[r].code = runs[r].code
    BY <1>0, RunsStay
  <1>2. ASSUME poll' = poll, rlock' = rlock PROVE Polls'
    BY <1>0, <1>1, <1>2 DEF Polls
  <1>3. CASE Start
    BY <1>0, <1>2, <1>3, StartEffect
  <1>4. ASSUME NEW r \in RunIds, Quiet(r) \/ Finish(r) PROVE Polls'
    BY <1>0, <1>2, <1>4, QuietEffect, FinishEffect
  <1>5. ASSUME NEW p \in Pollers, PollStep(p) PROVE Polls'
    <2>1. /\ poll' \in [Pollers -> PollRec] /\ runs' = runs /\ PollMoved(p)
          /\ \A o \in Pollers \ {p} : poll'[o] = poll[o]
      BY <1>0, <1>5, PollEffect
    <2>2. rlock \in [RunIds -> Pollers \cup Streams \cup {"free"}] /\ "free" \notin Pollers
      BY <1>0, Typed, Constants
    <2>3. \A r \in {current, last} \ {0} : r \in DOMAIN runs
      BY <1>0, Typed
    <2>4. \A r \in DOMAIN runs : r \in RunIds
      BY <1>0 DEF Threads
    <2>5. ASSUME NEW o \in Pollers \ {p}, poll[o].at \in {"status", "code"}
          PROVE  rlock'[poll[o].run] = o
      <3>1. rlock[poll[o].run] = o /\ poll[o].run \in RunIds
        BY <1>0, <2>4, <2>5 DEF Polls
      <3>2. poll[p].at = "code" => rlock[poll[p].run] = p
        BY <1>0 DEF Polls
      <3> QED
        BY <2>1, <2>2, <3>1, <3>2 DEF PollMoved
    <2>6. poll'[p].at # "idle" =>
              /\ poll'[p].run \in DOMAIN runs
              /\ poll'[p].at \in {"status", "code"} => rlock'[poll'[p].run] = p
              /\ poll'[p].at \in {"code", "got"} /\ poll'[p].status # "running" =>
                    runs[poll'[p].run].status = poll'[p].status
              /\ poll'[p].at = "got" /\ poll'[p].status # "running" =>
                    poll'[p].code = runs[poll'[p].run].code
      <3>1. poll[p].at # "idle" =>
              /\ poll[p].run \in DOMAIN runs /\ poll[p].run \in RunIds
              /\ poll[p].at \in {"status", "code"} => rlock[poll[p].run] = p
              /\ poll[p].at \in {"code", "got"} /\ poll[p].status # "running" =>
                    runs[poll[p].run].status = poll[p].status
        BY <1>0, <2>4 DEF Polls
      <3> QED
        BY <2>1, <2>2, <2>3, <3>1 DEF PollMoved
    <2> QED
      BY <1>0, <2>1, <2>5, <2>6 DEF Polls
  <1>6. ASSUME NEW s \in Streams, StreamStep(s) PROVE Polls'
    <2>1. poll' = poll /\ runs' = runs /\ StreamMoved(s)
      BY <1>0, <1>6, StreamEffect
    <2>2. /\ rlock \in [RunIds -> Pollers \cup Streams \cup {"free"}]
          /\ "free" \notin Pollers /\ s \notin Pollers
      BY <1>0, Typed, Constants
    <2>3. ASSUME NEW o \in Pollers, poll[o].at \in {"status", "code"}
          PROVE  rlock'[poll[o].run] = o
      <3>1. rlock[poll[o].run] = o /\ poll[o].run \in RunIds
        BY <1>0, <2>3 DEF Polls, Threads
      <3>2. stream[s].at = "status" => rlock[stream[s].run] = s
        BY <1>0 DEF Lookups
      <3>3. \/ rlock' = rlock
            \/ \E r : rlock[r] = "free" /\ rlock' = [rlock EXCEPT ![r] = s]
            \/ \E r : rlock[r] = s /\ rlock' = [rlock EXCEPT ![r] = "free"]
        BY <2>1, <3>2, Zenon DEF StreamMoved
      <3> QED
        BY <2>2, <3>1, <3>3
    <2> QED
      BY <1>0, <2>1, <2>3 DEF Polls
  <1> QED
    BY <1>3, <1>4, <1>5, <1>6, StepCases

\* A run that is neither current nor last does not become so between the two
\* lookups of a log request: the next to be either is a new one.
LEMMA LookupsStep ==
    ASSUME WorkerInv, Next
    PROVE  Lookups'
  <1> USE DEF worker, readers
  <1>0. TypeOK /\ Threads /\ Polls /\ Lookups
    BY DEF WorkerInv
  <1>1. /\ DOMAIN runs = 1..Len(runs) /\ Len(runs) \in Nat /\ current \in 0..Len(runs)
        /\ last \in 0..Len(runs) /\ stream \in [Streams -> StreamRec]
        /\ log \in [RunIds -> 0..MaxLines] /\ MaxLines \in Nat /\ Cap \in Nat \ {0}
        /\ \A r \in DOMAIN runs : r \in RunIds /\ r # 0
        /\ "free" \notin Streams
        /\ rlock \in [RunIds -> Pollers \cup Streams \cup {"free"}]
    BY <1>0, Typed, Constants DEF Threads
  <1>2. DOMAIN runs \subseteq DOMAIN runs'
    BY <1>0, RunsStay
  <1>3. CASE Start
    <2>1. stream' = stream /\ rlock' = rlock /\ last' = last /\ current' \notin DOMAIN runs
      BY <1>0, <1>3, StartEffect
    <2> QED
      BY <1>0, <1>2, <2>1 DEF Lookups
  <1>4. ASSUME NEW r \in RunIds, Quiet(r) PROVE Lookups'
    <2>1. stream' = stream /\ rlock' = rlock /\ last' = last /\ current' = current
      BY <1>0, <1>4, QuietEffect
    <2> QED
      BY <1>0, <1>2, <2>1 DEF Lookups
  <1>5. ASSUME NEW r \in RunIds, Finish(r) PROVE Lookups'
    <2>1. stream' = stream /\ rlock' = rlock /\ current = r /\ Finished(r)
      BY <1>0, <1>5, FinishEffect
    <2>2. \/ current' = current /\ last' = last
          \/ current' = 0 /\ last' = r
      BY <2>1, Zenon DEF Finished
    <2> QED
      BY <1>0, <1>1, <1>2, <2>1, <2>2 DEF Lookups
  <1>6. ASSUME NEW p \in Pollers, PollStep(p) PROVE Lookups'
    <2>1. stream' = stream /\ runs' = runs /\ current' = current /\ last' = last /\ PollMoved(p)
      BY <1>0, <1>6, PollEffect
    <2>2. p \notin Streams
      BY Constants
    <2>3. ASSUME NEW o \in Streams, stream[o].at = "status"
          PROVE  rlock'[stream[o].run] = o
      <3>1. rlock[stream[o].run] = o /\ stream[o].run \in RunIds
        BY <1>0, <1>1, <2>3 DEF Lookups
      <3>2. poll[p].at = "code" => rlock[poll[p].run] = p
        BY <1>0 DEF Polls
      <3>3. \/ rlock' = rlock
            \/ \E r : rlock[r] = "free" /\ rlock' = [rlock EXCEPT ![r] = p]
            \/ \E r : rlock[r] = p /\ rlock' = [rlock EXCEPT ![r] = "free"]
        BY <2>1, <3>2, Zenon DEF PollMoved
      <3> QED
        BY <1>1, <2>2, <3>1, <3>3
    <2> QED
      BY <1>0, <2>1, <2>3 DEF Lookups
  <1>7. ASSUME NEW s \in Streams, StreamStep(s) PROVE Lookups'
    <2>1. /\ stream' \in [Streams -> StreamRec] /\ runs' = runs /\ current' = current
          /\ last' = last /\ StreamMoved(s)
          /\ \A o \in Streams \ {s} : stream'[o] = stream[o]
      BY <1>0, <1>7, StreamEffect
    <2>2. stream[s].at # "idle" =>
              /\ stream[s].run \in RunIds /\ stream[s].run \in DOMAIN runs
              /\ stream[s].at \in {"find", "gone"} => stream[s].run # current
              /\ stream[s].at = "gone" => stream[s].run # last
              /\ stream[s].at = "status" => rlock[stream[s].run] = s
              /\ stream[s].low + stream[s].size <= MaxLines
      BY <1>0, <1>1 DEF Lookups
    <2>3. ASSUME NEW o \in Streams \ {s}, stream[o].at = "status"
          PROVE  rlock'[stream[o].run] = o
      <3>1. rlock[stream[o].run] = o /\ stream[o].run \in RunIds
        BY <1>0, <1>1, <2>3 DEF Lookups
      <3>3. \/ rlock' = rlock
            \/ \E r : rlock[r] = "free" /\ rlock' = [rlock EXCEPT ![r] = s]
            \/ \E r : rlock[r] = s /\ rlock' = [rlock EXCEPT ![r] = "free"]
        BY <2>1, <2>2, Zenon DEF StreamMoved
      <3> QED
        BY <1>1, <3>1, <3>3
    <2>4. stream'[s].at # "idle" =>
              /\ stream'[s].run \in DOMAIN runs
              /\ stream'[s].at \in {"find", "gone"} => stream'[s].run # current
              /\ stream'[s].at = "gone" => stream'[s].run # last
      BY <2>1, <2>2, FreshRecords DEF StreamMoved
    <2>5. stream'[s].at = "status" => rlock'[stream'[s].run] = s
      BY <1>1, <2>1, <2>2, FreshRecords DEF StreamMoved
    <2>6. stream'[s].at # "idle" => stream'[s].low + stream'[s].size <= MaxLines
      <3>1. stream[s].at = "snap" => log[stream[s].run] \in 0..MaxLines
        BY <1>1, <2>2
      <3> QED
        BY <1>1, <2>1, <2>2, <3>1, FreshRecords DEF StreamMoved, Least
    <2> QED
      BY <1>0, <2>1, <2>3, <2>4, <2>5, <2>6 DEF Lookups
  <1> QED
    BY <1>3, <1>4, <1>5, <1>6, <1>7, StepCases

LEMMA WorkerInit ==
    ASSUME Init
    PROVE  WorkerInv
  <1>1. runs = << >> /\ runs \in Seq(RunRec) /\ Len(runs) = 0 /\ DOMAIN runs = {}
    <2> HIDE DEF RunRec
    <2> QED
      BY DEF Init
  <1>2. TypeOK
    <2>1. /\ runner \in [RunIds -> Labels] /\ code \in [RunIds -> {None, 0, 1}]
          /\ log \in [RunIds -> 0..MaxLines] /\ faults \in 0..MaxFaults
          /\ rlock \in [RunIds -> Pollers \cup Streams \cup {"free"}]
      BY Constants DEF Init, Labels
    <2>2. poll \in [Pollers -> PollRec] /\ stream \in [Streams -> StreamRec]
      <3> HIDE DEF PollRec, StreamRec, NoPoll, NoStream
      <3> QED
        BY FreshRecords DEF Init
    <2>3. /\ {current, last} \subseteq 0..Len(runs) /\ wlock \in BOOLEAN
          /\ alive \subseteq RunIds
      <3>1. current = 0 /\ last = 0 /\ wlock = FALSE /\ alive = {}
        BY DEF Init
      <3>2. 0 \in 0..Len(runs)
        BY <1>1
      <3> QED
        BY <3>1, <3>2
    <2> QED
      BY <1>1, <2>1, <2>2, <2>3, Zenon DEF TypeOK, RunRec, PollRec, StreamRec, Labels
  <1>3. Threads
    BY <1>1 DEF Init, Threads, None
  <1>4. Lines
    BY Constants DEF Init, Lines
  <1>5. Polls /\ Lookups
    BY FreshRecords DEF Init, Polls, Lookups
  <1> QED
    BY <1>2, <1>3, <1>4, <1>5 DEF WorkerInv

LEMMA WorkerStep ==
    ASSUME WorkerInv, [Next]_vars
    PROVE  WorkerInv'
  <1>1. CASE Next
    BY <1>1, TypeStep, ThreadsStep, LinesStep, PollsStep, LookupsStep DEF WorkerInv
  <1>2. CASE UNCHANGED vars
    BY <1>2, Zenon DEF vars, WorkerInv, TypeOK, Threads, Lines, Polls, Lookups
  <1> QED
    BY <1>1, <1>2
-----------------------------------------------------------------------------
(* A deque that drops no line *)

\* No line is printed while a stream reads the run, and none after the final
\* status: what a stream has seen with a final status is all there is.
LEMMA SentStep ==
    ASSUME MaxLines <= Cap, WorkerInv, LinesSent, Next
    PROVE  LinesSent'
  <1> USE DEF worker, readers
  <1>0. TypeOK /\ Threads /\ Polls /\ Lookups
    BY DEF WorkerInv
  <1>1. /\ stream \in [Streams -> StreamRec] /\ log \in [RunIds -> 0..MaxLines]
        /\ MaxLines \in Nat /\ Cap \in Nat \ {0} /\ "free" \notin Streams
        /\ \A r \in DOMAIN runs : r \in RunIds
    BY <1>0, Typed, Constants DEF Threads
  <1>2. /\ DOMAIN runs \subseteq DOMAIN runs'
        /\ \A r \in DOMAIN runs : runs[r].status # "running" =>
              runs'[r].status = runs[r].status
    BY <1>0, RunsStay
  <1>3. ASSUME stream' = stream, log' = log PROVE LinesSent'
    BY <1>0, <1>2, <1>3 DEF LinesSent, Lookups
  <1>4. CASE Start
    BY <1>0, <1>3, <1>4, StartEffect
  <1>5. ASSUME NEW r \in RunIds, Finish(r) PROVE LinesSent'
    BY <1>0, <1>3, <1>5, FinishEffect
  <1>6. ASSUME NEW p \in Pollers, PollStep(p) PROVE LinesSent'
    BY <1>0, <1>3, <1>6, PollEffect
  <1>7. ASSUME NEW r \in RunIds, Quiet(r) PROVE LinesSent'
    <2>1. stream' = stream /\ runs' = runs /\ Printed(r)
      BY <1>0, <1>7, QuietEffect
    <2>2. CASE log' = log
      BY <1>3, <2>1, <2>2
    <2>3. CASE log' # log
      <3>1. /\ rlock[r] = "free" /\ log' = [log EXCEPT ![r] = @ + 1]
            /\ runner[r] \in {"begin", "reading", "error"}
        BY <2>1, <2>3 DEF Printed
      <3>2. ASSUME NEW s \in Streams, stream[s].at = "status"
            PROVE  log'[stream[s].run] = log[stream[s].run]
        <4>1. rlock[stream[s].run] # "free" /\ stream[s].run \in RunIds
          BY <1>0, <1>1, <3>2 DEF Lookups
        <4> QED
          BY <1>1, <3>1, <4>1
      <3>3. ASSUME NEW s \in Streams, stream[s].at \in {"decide", "done"}, ~stream[s].running
            PROVE  log'[stream[s].run] = log[stream[s].run]
        <4>1. stream[s].run \in DOMAIN runs /\ runs[stream[s].run].status # "running"
          BY <1>0, <3>3 DEF Lookups, LinesSent
        <4>2. stream[s].run # r
          BY <1>0, <3>1, <4>1 DEF Threads, Final
        <4> QED
          BY <1>1, <3>1, <4>1, <4>2
      <3> QED
        BY <1>0, <2>1, <3>2, <3>3 DEF LinesSent
    <2> QED
      BY <2>2, <2>3
  <1>8. ASSUME NEW s \in Streams, StreamStep(s) PROVE LinesSent'
    <2>1. /\ stream' \in [Streams -> StreamRec] /\ runs' = runs /\ log' = log
          /\ StreamMoved(s) /\ \A o \in Streams \ {s} : stream'[o] = stream[o]
      BY <1>0, <1>8, StreamEffect
    <2>2. /\ stream[s].low = 0 /\ 1..stream[s].cursor \subseteq stream[s].sent
          /\ stream[s].at = "status" => stream[s].size = log[stream[s].run]
          /\ stream[s].at \in {"decide", "done"} /\ ~stream[s].running =>
                /\ runs[stream[s].run].status # "running"
                /\ stream[s].size = log[stream[s].run]
          /\ stream[s].at = "done" => ~stream[s].running /\ stream[s].cursor >= stream[s].size
      BY DEF LinesSent
    <2>3. /\ stream[s].cursor \in Nat /\ stream[s].size \in Nat /\ stream[s].low \in Nat
          /\ stream'[s].cursor \in Nat /\ stream'[s].size \in Nat /\ stream'[s].low \in Nat
      <3>1. stream[s] \in StreamRec /\ stream'[s] \in StreamRec
        BY <1>1, <2>1
      <3> QED
        BY <1>1, <3>1, StreamFields
    <2>4. stream[s].at = "snap" => Least(log[stream[s].run], Cap) = log[stream[s].run]
                                   /\ log[stream[s].run] \in Nat
      BY <1>0, <1>1 DEF Lookups, Least
    <2>5. stream'[s].low = 0 /\ 1..stream'[s].cursor \subseteq stream'[s].sent
      BY <2>1, <2>2, <2>3, <2>4, FreshRecords DEF StreamMoved
    <2>6. /\ stream'[s].at = "status" => stream'[s].size = log[stream'[s].run]
          /\ stream'[s].at \in {"decide", "done"} /\ ~stream'[s].running =>
                /\ runs[stream'[s].run].status # "running"
                /\ stream'[s].size = log[stream'[s].run]
          /\ stream'[s].at = "done" => ~stream'[s].running /\ stream'[s].cursor >= stream'[s].size
      BY <2>1, <2>2, <2>4, FreshRecords DEF StreamMoved
    <2> QED
      BY <2>1, <2>5, <2>6 DEF LinesSent
  <1> QED
    BY <1>4, <1>5, <1>6, <1>7, <1>8, StepCases
-----------------------------------------------------------------------------
(* The theorems *)

\* What WorkerInv means to those who use the dashboard.
LEMMA WorkerInvMeans ==
    ASSUME WorkerInv
    PROVE  OneAtATime /\ SnapshotHasCode /\ GoneIsGone
  <1>0. TypeOK /\ Threads /\ Polls /\ Lookups
    BY DEF WorkerInv
  <1>1. OneAtATime
    <2> DEFINE R == {r \in alive : runner[r] = "reading"}
    <2>1. R \subseteq {current}
      BY <1>0, Typed DEF Threads
    <2>2. IsFiniteSet({current}) /\ Cardinality({current}) = 1
      BY FS_Singleton
    <2>3. Cardinality(R) <= Cardinality({current})
      BY <2>1, <2>2, FS_Subset
    <2> QED
      BY <2>2, <2>3 DEF OneAtATime
  <1>2. SnapshotHasCode
    <2> SUFFICES ASSUME NEW p \in Pollers, poll[p].at = "got", poll[p].status # "running"
                 PROVE  poll[p].code # None /\ ((poll[p].code = 0) = (poll[p].status = "success"))
      BY DEF SnapshotHasCode
    <2> DEFINE r == poll[p].run
    <2>1. /\ r \in DOMAIN runs /\ runs[r].status = poll[p].status /\ poll[p].code = runs[r].code
      BY <1>0 DEF Polls
    <2>2. /\ r \in RunIds /\ runner[r] \in Final /\ runs[r].code = code[r] /\ code[r] # None
          /\ (code[r] = 0) = (runs[r].status = "success")
      BY <1>0, <2>1 DEF Threads
    <2> QED
      BY <2>1, <2>2
  <1>3. GoneIsGone
    BY <1>0 DEF GoneIsGone, Lookups
  <1> QED
    BY <1>1, <1>2, <1>3

\* ActionWorker runs one action at a time (actions.py:303), a poll that shows a
\* final status shows the exit code that goes with it although to_dict and
\* _finish hold different locks, and a log request answered 404 asked for a run
\* that is neither the current nor the last: for any number of threads, runs and
\* lines, whatever the deque drops.
THEOREM WorkerIsHonest == Spec => [](WorkerInv /\ OneAtATime /\ SnapshotHasCode /\ GoneIsGone)
  <1>1. Spec => []WorkerInv
    BY WorkerInit, WorkerStep, PTL DEF Spec
  <1> QED
    BY <1>1, WorkerInvMeans, PTL

\* As long as an action prints no more lines than the deque holds, everything a
\* reader is told is true; in particular a stream that ends because the action
\* completed has sent every line (tail_stream, actions.py:402-450).  The
\* hypothesis is needed: once the deque drops lines, a cursor that counts
\* positions in it no longer counts the lines sent.
THEOREM ReadersAreTold ==
    ASSUME MaxLines <= Cap
    PROVE  Spec => []ReadersSeeTheTruth
  <1>1. Init => LinesSent
    <2> SUFFICES ASSUME Init PROVE LinesSent
      OBVIOUS
    <2> QED
      BY FreshRecords DEF Init, LinesSent
  <1>2. WorkerInv /\ LinesSent /\ [Next]_vars => LinesSent'
    <2>1. ASSUME WorkerInv, LinesSent, UNCHANGED vars PROVE LinesSent'
      BY <2>1 DEF vars, LinesSent
    <2> QED
      BY <2>1, SentStep
  <1>3. WorkerInv /\ LinesSent => ReadersSeeTheTruth
    <2> SUFFICES ASSUME WorkerInv, LinesSent PROVE ReadersSeeTheTruth
      OBVIOUS
    <2>1. StreamComplete
      <3> SUFFICES ASSUME NEW s \in Streams, stream[s].at = "done", NEW n, n = log[stream[s].run]
                   PROVE  (n - Least(n, Cap) + 1)..n \subseteq stream[s].sent
        BY DEF StreamComplete
      <3>1. n \in 0..MaxLines
        BY Typed DEF WorkerInv, Lookups, Threads
      <3>2. stream[s].cursor \in Nat /\ stream[s].cursor >= n /\ 1..stream[s].cursor \subseteq stream[s].sent
        <4>1. stream[s] \in StreamRec
          BY Typed DEF WorkerInv
        <4> QED
          BY <4>1, StreamFields, Constants DEF LinesSent
      <3>3. n - Least(n, Cap) + 1 = 1
        BY <3>1, Constants DEF Least
      <3> QED
        BY <3>1, <3>2, <3>3
    <2> QED
      BY <2>1, WorkerInvMeans DEF ReadersSeeTheTruth, WorkerInv
  <1> QED
    BY <1>1, <1>2, <1>3, WorkerInit, WorkerStep, PTL DEF Spec

-----------------------------------------------------------------------------
(* The corpus of maps.                                                     *)

Failures == {"failed_transient", "failed_permanent"}

\* What a worker fetched is still so when it comes to it.  The shards keep
\* workers apart; ingestion changes no status.
Current(w, r) ==
    /\ InShard(r.id, w)
    /\ rows[r.id].status # "absent"
    /\ r.full <=> rows[r.id].status # "success"
    /\ ~r.full => r.id \in Legacy
Lists ==
    \A w \in Workers :
        /\ wpc[w] = "idle" <=> todo[w] = {}
        /\ \A r \in todo[w] : Current(w, r)
        /\ \A r, s \in todo[w] : r.id = s.id => r = s
        /\ wpc[w] = "write" => First(w).full
        /\ wpc[w] = "fail" => verdict[w] \in Failures

\* The ingestor has a map in hand, and has stored the file it will record.
InHand ==
    /\ ingest.at # "idle" => ingest.map \in Maps
    /\ ingest.at = "record" => ingest.art # 0 /\ <<ingest.map, ingest.art>> \in disk

\* Only maps parsed before the scenery columns lack their scenery.
Scenery ==
    \A m \in Maps \ Legacy : rows[m].status = "success" => rows[m].deco = "success"

CorpusInv == TableSound /\ Lists /\ InHand /\ Scenery

-----------------------------------------------------------------------------
(* What the statements make of a row. *)

Relisted(row) == IF row.status = "absent" THEN NewRow ELSE [row EXCEPT !.items = "tmx"]
Recorded(row, art) == [row EXCEPT !.art = art]
Parsed(row, art) == [row EXCEPT !.status = "success", !.deco = "success", !.items = "parsed",
                                !.blocks = art, !.src = art]
Furnished(row) == [row EXCEPT !.deco = "success"]

\* The upsert and the recording of a file leave status and blocks alone; a new
\* row has neither.
LEMMA IngestUpdates ==
    ASSUME NEW row \in Row, NEW art \in 1..MaxArt
    PROVE  /\ Relisted(row) \in Row /\ Recorded(row, art) \in Row
           /\ Recorded(row, art).art = art /\ Recorded(row, art).status = row.status
           /\ Recorded(row, art).deco = row.deco /\ Recorded(row, art).blocks = row.blocks
           /\ Recorded(row, art).src = row.src
           /\ row.status # "absent" =>
                /\ Relisted(row).status = row.status /\ Relisted(row).deco = row.deco
                /\ Relisted(row).blocks = row.blocks /\ Relisted(row).src = row.src
                /\ Relisted(row).art = row.art
           /\ row.status = "absent" =>
                /\ Relisted(row).status = "unparsed" /\ Relisted(row).blocks = 0
                /\ Relisted(row).src = 0 /\ Relisted(row).art = 0
  BY CorpusAssumption DEF Row, ParseStatus, Relisted, Recorded, NewRow

LEMMA ParseUpdates ==
    ASSUME NEW row \in Row, NEW art \in 1..MaxArt
    PROVE  /\ Parsed(row, art) \in Row /\ Parsed(row, art).status = "success"
           /\ Parsed(row, art).deco = "success" /\ Parsed(row, art).art = row.art
           /\ Parsed(row, art).blocks = art /\ Parsed(row, art).src = art
           /\ Furnished(row) \in Row /\ Furnished(row).status = row.status
           /\ Furnished(row).deco = "success" /\ Furnished(row).art = row.art
           /\ Furnished(row).blocks = row.blocks /\ Furnished(row).src = row.src
  <1>1. /\ Parsed(row, art) \in Row /\ Parsed(row, art).status = "success"
        /\ Parsed(row, art).deco = "success" /\ Parsed(row, art).art = row.art
        /\ Parsed(row, art).blocks = art /\ Parsed(row, art).src = art
    <2>1. art \in 0..MaxArt
      BY CorpusAssumption
    <2>2. Parsed(row, art) \in Row
      BY <2>1 DEF Row, ParseStatus, Parsed
    <2>3. /\ Parsed(row, art).status = "success" /\ Parsed(row, art).deco = "success"
          /\ Parsed(row, art).art = row.art
          /\ Parsed(row, art).blocks = art /\ Parsed(row, art).src = art
      BY DEF Row, Parsed
    <2> QED
      BY <2>2, <2>3
  <1>2. /\ Furnished(row) \in Row /\ Furnished(row).status = row.status
        /\ Furnished(row).deco = "success" /\ Furnished(row).art = row.art
        /\ Furnished(row).blocks = row.blocks /\ Furnished(row).src = row.src
    BY DEF Row, ParseStatus, Furnished
  <1> QED
    BY <1>1, <1>2

LEMMA FailureUpdates ==
    ASSUME NEW row \in Row, NEW status \in Failures
    PROVE  /\ Failed(row, status) \in Row /\ Failed(row, status).status = status
           /\ Failed(row, status).art = row.art
           /\ Failed(row, status).blocks = row.blocks /\ Failed(row, status).src = row.src
  <1>1. PICK deco : deco = (IF row.deco = "success" THEN "success" ELSE "failed")
    OBVIOUS
  <1>2. Failed(row, status) = [row EXCEPT !.status = status, !.deco = deco]
    BY <1>1 DEF Failed
  <1>3. deco \in {"unparsed", "success", "failed"}
    BY <1>1 DEF Row
  <1> QED
    BY <1>2, <1>3 DEF Row, ParseStatus, Failures

\* A write of one row.
LEMMA RowWrites ==
    ASSUME rows \in [Maps -> Row], NEW m \in Maps, NEW row \in Row,
           rows' = [rows EXCEPT ![m] = row]
    PROVE  /\ rows' \in [Maps -> Row] /\ rows'[m] = row
           /\ \A k \in Maps \ {m} : rows'[k] = rows[k]
  OBVIOUS

-----------------------------------------------------------------------------
(* The first row of a list. *)

LEMMA FirstIsListed ==
    ASSUME CorpusTypeOK, NEW w \in Workers, todo[w] # {}
    PROVE  /\ First(w) \in todo[w] /\ First(w).id \in Maps /\ First(w).art \in 1..MaxArt
           /\ First(w) \in Fetched
  <1>1. todo[w] \subseteq Fetched
    BY DEF CorpusTypeOK
  <1>2. PICK n \in {r.id : r \in todo[w]} : \A k \in {r.id : r \in todo[w]} : n <= k
    <2>1. {r.id : r \in todo[w]} \subseteq Nat /\ {r.id : r \in todo[w]} # {}
      BY <1>1, CorpusAssumption DEF Fetched
    <2> QED
      BY <2>1, LeastNat
  <1>3. \E r \in todo[w] : \A s \in todo[w] : r.id <= s.id
    BY <1>2
  <1>4. First(w) \in todo[w]
    BY <1>3 DEF First
  <1> QED
    BY <1>1, <1>4 DEF Fetched

\* It is a matter of the list alone.
LEMMA FirstDepends ==
    ASSUME NEW w \in Workers, todo'[w] = todo[w]
    PROVE  First(w)' = First(w)
  BY DEF First

LEMMA OneWorkerPerMap ==
    ASSUME NEW v \in Workers, NEW w \in Workers, NEW m, InShard(m, v), InShard(m, w)
    PROVE  v = w
  BY DEF InShard

-----------------------------------------------------------------------------
(* Ingestion. *)

\* A write that keeps the status of listed rows keeps every list.
LEMMA ListsKeep ==
    ASSUME CorpusTypeOK, Lists, UNCHANGED workerVars,
           \A k \in Maps : rows[k].status # "absent" => rows'[k].status = rows[k].status
    PROVE  Lists'
  <1>1. ASSUME NEW w \in Workers, NEW r \in todo[w]
        PROVE  r.id \in Maps
    BY DEF CorpusTypeOK, Fetched
  <1>2. ASSUME NEW w \in Workers, NEW r \in todo'[w]
        PROVE  Current(w, r)'
    <2>1. r \in todo[w] /\ Current(w, r)
      BY <1>2 DEF workerVars, Lists
    <2> QED
      BY <1>1, <2>1 DEF Current
  <1>3. \A w \in Workers : First(w)' = First(w)
    BY FirstDepends DEF workerVars
  <1> QED
    BY <1>2, <1>3 DEF workerVars, Lists

LEMMA Editing ==
    ASSUME CorpusInv, NEW m \in Maps, Edit(m)
    PROVE  CorpusInv'
  <1>1. UNCHANGED <<rows, disk, ingest, todo, wpc, tries, verdict, mishaps>>
    BY DEF Edit, workerVars
  <1>2. site' \in [Maps -> 1..MaxArt]
    BY CorpusAssumption DEF Edit, CorpusInv, TableSound, CorpusTypeOK
  <1>3. TableSound'
    BY <1>1, <1>2 DEF CorpusInv, TableSound, CorpusTypeOK, BlocksWithStatus,
       RecordedIsStored, Provenance
  <1>4. Lists'
    BY <1>1, ListsKeep DEF workerVars, CorpusInv, TableSound
  <1> QED
    BY <1>1, <1>3, <1>4 DEF CorpusInv, InHand, Scenery

LEMMA Upserting ==
    ASSUME CorpusInv, NEW m \in Maps, Upsert(m)
    PROVE  CorpusInv'
  <1>1. PICK row : row = Relisted(rows[m])
    OBVIOUS
  <1>2. /\ rows' = [rows EXCEPT ![m] = row]
        /\ ingest' = [at |-> "download", map |-> m, art |-> 0]
        /\ UNCHANGED <<site, disk, todo, wpc, tries, verdict, mishaps>>
    BY <1>1, Zenon DEF Upsert, Relisted, workerVars
  <1>3. rows \in [Maps -> Row] /\ rows[m] \in Row /\ 1 \in 1..MaxArt
    BY CorpusAssumption DEF CorpusInv, TableSound, CorpusTypeOK
  <1>4. /\ row \in Row
        /\ rows[m].status # "absent" =>
             /\ row.status = rows[m].status /\ row.deco = rows[m].deco
             /\ row.blocks = rows[m].blocks /\ row.src = rows[m].src /\ row.art = rows[m].art
        /\ rows[m].status = "absent" =>
             /\ row.status = "unparsed" /\ row.blocks = 0 /\ row.src = 0 /\ row.art = 0
    BY <1>1, <1>3, IngestUpdates
  <1>5. rows' \in [Maps -> Row] /\ rows'[m] = row /\ \A k \in Maps \ {m} : rows'[k] = rows[k]
    BY <1>2, <1>3, <1>4, RowWrites
  <1>6. CorpusTypeOK'
    BY <1>2, <1>5, CorpusAssumption DEF CorpusInv, TableSound, CorpusTypeOK
  <1>7. BlocksWithStatus' /\ RecordedIsStored' /\ Provenance' /\ Scenery'
    BY <1>2, <1>4, <1>5 DEF CorpusInv, TableSound, BlocksWithStatus, RecordedIsStored,
       Provenance, Scenery
  <1>8. Lists'
    BY <1>2, <1>4, <1>5, ListsKeep DEF CorpusInv, TableSound, workerVars
  <1>9. InHand'
    BY <1>2 DEF InHand
  <1> QED
    BY <1>6, <1>7, <1>8, <1>9 DEF CorpusInv, TableSound

LEMMA Downloading ==
    ASSUME CorpusInv, DownloadArtifact
    PROVE  CorpusInv'
  <1>1. PICK a : a = site[ingest.map]
    OBVIOUS
  <1>2. /\ ingest.at = "download" /\ disk' = disk \cup {<<ingest.map, a>>}
        /\ ingest' = [ingest EXCEPT !.at = "record", !.art = a]
        /\ UNCHANGED <<site, rows, todo, wpc, tries, verdict, mishaps>>
    BY <1>1 DEF DownloadArtifact, workerVars
  <1>3. ingest.map \in Maps /\ a \in 1..MaxArt
    BY <1>1, <1>2 DEF CorpusInv, InHand, TableSound, CorpusTypeOK
  <1>4. /\ ingest' \in [at : {"idle", "download", "record"}, map : Maps \cup {0}, art : 0..MaxArt]
        /\ ingest'.at = "record" /\ ingest'.map = ingest.map /\ ingest'.art = a
    <2>1. ingest \in [at : {"idle", "download", "record"}, map : Maps \cup {0}, art : 0..MaxArt]
      BY DEF CorpusInv, TableSound, CorpusTypeOK
    <2>2. a \in 0..MaxArt
      BY <1>3, CorpusAssumption
    <2> QED
      BY <1>2, <2>1, <2>2
  <1>5. CorpusTypeOK'
    BY <1>2, <1>3, <1>4 DEF CorpusInv, TableSound, CorpusTypeOK
  <1>6. BlocksWithStatus' /\ RecordedIsStored' /\ Provenance' /\ Scenery'
    BY <1>2 DEF CorpusInv, TableSound, BlocksWithStatus, RecordedIsStored, Provenance, Scenery
  <1>7. Lists'
    BY <1>2, ListsKeep DEF CorpusInv, TableSound, workerVars
  <1>8. InHand'
    BY <1>2, <1>3, <1>4 DEF InHand
  <1> QED
    BY <1>5, <1>6, <1>7, <1>8 DEF CorpusInv, TableSound

LEMMA Recording ==
    ASSUME CorpusInv, Record
    PROVE  CorpusInv'
  <1>1. PICK m : m = ingest.map
    OBVIOUS
  <1>2. PICK a : a = ingest.art
    OBVIOUS
  <1>3. PICK row : row = Recorded(rows[m], a)
    OBVIOUS
  <1>4. /\ ingest.at = "record" /\ rows' = [rows EXCEPT ![m] = row]
        /\ ingest' = [at |-> "idle", map |-> 0, art |-> 0]
        /\ UNCHANGED <<site, disk, todo, wpc, tries, verdict, mishaps>>
    BY <1>1, <1>2, <1>3, Zenon DEF Record, Recorded, workerVars
  <1>5. /\ m \in Maps /\ a \in 1..MaxArt /\ <<m, a>> \in disk
        /\ rows \in [Maps -> Row] /\ rows[m] \in Row
    BY <1>1, <1>2, <1>4 DEF CorpusInv, InHand, TableSound, CorpusTypeOK
  <1>6. /\ row \in Row /\ row.art = a /\ row.status = rows[m].status
        /\ row.deco = rows[m].deco /\ row.blocks = rows[m].blocks /\ row.src = rows[m].src
    BY <1>3, <1>5, IngestUpdates
  <1>7. rows' \in [Maps -> Row] /\ rows'[m] = row /\ \A k \in Maps \ {m} : rows'[k] = rows[k]
    BY <1>4, <1>5, <1>6, RowWrites
  <1>8. CorpusTypeOK'
    BY <1>4, <1>7, CorpusAssumption DEF CorpusInv, TableSound, CorpusTypeOK
  <1>9. BlocksWithStatus' /\ RecordedIsStored' /\ Provenance' /\ Scenery'
    BY <1>4, <1>5, <1>6, <1>7 DEF CorpusInv, TableSound, BlocksWithStatus, RecordedIsStored,
       Provenance, Scenery
  <1>10. Lists'
    BY <1>4, <1>6, <1>7, ListsKeep DEF CorpusInv, TableSound, workerVars
  <1>11. InHand'
    BY <1>4 DEF InHand
  <1> QED
    BY <1>8, <1>9, <1>10, <1>11 DEF CorpusInv, TableSound

LEMMA Stopping ==
    ASSUME CorpusInv, IngestStops
    PROVE  CorpusInv'
  <1>1. /\ ingest' = [at |-> "idle", map |-> 0, art |-> 0]
        /\ UNCHANGED <<site, rows, disk, todo, wpc, tries, verdict, mishaps>>
    BY DEF IngestStops, workerVars
  <1>2. TableSound'
    BY <1>1, CorpusAssumption DEF CorpusInv, TableSound, CorpusTypeOK, BlocksWithStatus,
       RecordedIsStored, Provenance
  <1>3. Lists'
    BY <1>1, ListsKeep DEF CorpusInv, TableSound, workerVars
  <1> QED
    BY <1>1, <1>2, <1>3 DEF CorpusInv, InHand, Scenery

-----------------------------------------------------------------------------
(* Parsing. *)

\* A new list is read from the table.
LEMMA Fetching ==
    ASSUME CorpusInv, NEW w \in Workers, NEW retry \in BOOLEAN, Fetch(w, retry)
    PROVE  CorpusInv'
  <1> DEFINE Mine == {m \in Maps : InShard(m, w) /\ Wanted(rows[m], retry)}
             List == {[id |-> m, full |-> rows[m].status # "success",
                       art |-> rows[m].art] : m \in Mine}
  <1>1. /\ wpc[w] = "idle" /\ Mine # {}
        /\ todo' = [todo EXCEPT ![w] = List] /\ wpc' = [wpc EXCEPT ![w] = "parse"]
        /\ UNCHANGED <<site, rows, disk, ingest, tries, verdict, mishaps>>
    BY Zenon DEF Fetch
  <1>2. CorpusTypeOK
    BY DEF CorpusInv, TableSound
  <1>3. ASSUME NEW m \in Mine
        PROVE  /\ rows[m] \in Row /\ rows[m].art \in 1..MaxArt
               /\ rows[m].status \in {"unparsed", "success", "failed_transient"}
               /\ rows[m].status = "success" => rows[m].deco = "unparsed"
    BY <1>2, CorpusAssumption DEF CorpusTypeOK, Wanted, Row
  <1>4. ASSUME NEW r \in List
        PROVE  /\ r.id \in Mine /\ r.full = (rows[r.id].status # "success")
               /\ r \in Fetched /\ r.art = rows[r.id].art
    <2>1. PICK m \in Mine : r = [id |-> m, full |-> rows[m].status # "success", art |-> rows[m].art]
      OBVIOUS
    <2>2. m \in Maps /\ rows[m].art \in 1..MaxArt
      BY <1>3
    <2> QED
      BY <2>1, <2>2 DEF Fetched
  <1>5. List \subseteq Fetched /\ List # {} /\ \A r, s \in List : r.id = s.id => r = s
    <2>1. \A r, s \in List : r.id = s.id => r.full = s.full /\ r.art = s.art
      BY <1>4
    <2>2. List # {}
      BY <1>1
    <2>3. List \subseteq Fetched
      BY <1>4
    <2> HIDE DEF List
    <2> QED
      BY <2>1, <2>2, <2>3 DEF Fetched
  <1>6. ASSUME NEW r \in List
        PROVE  Current(w, r)
    <2>1. /\ InShard(r.id, w) /\ r.id \in Maps /\ rows[r.id].status # "absent"
          /\ rows[r.id].status = "success" => rows[r.id].deco = "unparsed"
          /\ r.full = (rows[r.id].status # "success")
      BY <1>3, <1>4
    <2>2. r.id \notin Legacy => ~(rows[r.id].status = "success")
      BY <2>1 DEF CorpusInv, Scenery
    <2> QED
      BY <2>1, <2>2 DEF Current
  <1>7. /\ todo' \in [Workers -> SUBSET Fetched] /\ todo'[w] = List
        /\ wpc' \in [Workers -> {"idle", "parse", "write", "scenery", "fail"}]
        /\ wpc'[w] = "parse"
        /\ \A v \in Workers \ {w} : todo'[v] = todo[v] /\ wpc'[v] = wpc[v]
    <2> HIDE DEF List
    <2> QED
      BY <1>1, <1>2, <1>5 DEF CorpusTypeOK
  <1>8. CorpusTypeOK'
    BY <1>1, <1>2, <1>7 DEF CorpusTypeOK
  <1>9. Lists'
    <2>1. ASSUME NEW v \in Workers, NEW r \in todo'[v]
          PROVE  Current(v, r)'
      <3>1. Current(v, r)
        <4> HIDE DEF List
        <4> QED
          BY <1>6, <1>7 DEF CorpusInv, Lists
      <3> QED
        BY <1>1, <3>1 DEF Current
    <2>2. \A v \in Workers \ {w} : First(v)' = First(v)
      BY <1>7, FirstDepends
    <2> HIDE DEF List
    <2> QED
      BY <1>1, <1>5, <1>7, <2>1, <2>2 DEF CorpusInv, Lists
  <1> QED
    BY <1>1, <1>8, <1>9 DEF CorpusInv, TableSound, BlocksWithStatus, RecordedIsStored,
       Provenance, InHand, Scenery

\* A step inside the work on one row: the table and the lists stay as they are.
\* Only a row to be parsed in full comes to be written.
Inside(w, label) ==
    /\ UNCHANGED <<site, rows, disk, ingest, todo>>
    /\ wpc' = [wpc EXCEPT ![w] = label]
    /\ label \in {"write", "scenery", "fail"}
    /\ label = "write" => First(w).full
    /\ label = "fail" => verdict'[w] \in Failures
    /\ verdict' \in [Workers -> ParseStatus]
    /\ \A v \in Workers \ {w} : verdict'[v] = verdict[v]
    /\ tries' \in [Workers -> 0..(MaxAttempts - 1)]
    /\ mishaps' \in 0..MaxMishaps

LEMMA InsideKeeps ==
    ASSUME CorpusInv, NEW w \in Workers, NEW label, Inside(w, label), todo[w] # {}
    PROVE  CorpusInv'
  <1>1. \A v \in Workers : First(v)' = First(v)
    BY FirstDepends DEF Inside
  <1>2. CorpusTypeOK'
    BY DEF CorpusInv, TableSound, CorpusTypeOK, Inside
  <1>3. Lists'
    <2>1. \A v \in Workers : \A r \in todo[v] : Current(v, r)'
      BY DEF CorpusInv, Lists, Current, Inside
    <2>2. /\ wpc'[w] = label /\ \A v \in Workers \ {w} : wpc'[v] = wpc[v]
          /\ todo' = todo
      BY DEF Inside, CorpusInv, TableSound, CorpusTypeOK
    <2> QED
      BY <1>1, <2>1, <2>2 DEF CorpusInv, Lists, Inside
  <1> QED
    BY <1>2, <1>3 DEF CorpusInv, TableSound, BlocksWithStatus, RecordedIsStored, Provenance,
       InHand, Scenery, Inside

\* What Fail does.
LEMMA Failing ==
    ASSUME CorpusInv, NEW w \in Workers, NEW status \in Failures, Fail(w, status),
           UNCHANGED <<site, rows, disk, ingest>>, mishaps' \in 0..MaxMishaps
    PROVE  Inside(w, "fail")
  <1>1. /\ verdict' = [verdict EXCEPT ![w] = status] /\ tries' = [tries EXCEPT ![w] = 0]
        /\ wpc' = [wpc EXCEPT ![w] = "fail"] /\ todo' = todo
    BY DEF Fail, Goto
  <1>2. status \in ParseStatus /\ 0 \in 0..(MaxAttempts - 1)
    BY CorpusAssumption DEF Failures, ParseStatus
  <1> QED
    BY <1>1, <1>2 DEF Inside, CorpusInv, TableSound, CorpusTypeOK

LEMMA MishapTypes ==
    ASSUME CorpusTypeOK, Mishap \/ UNCHANGED mishaps
    PROVE  mishaps' \in 0..MaxMishaps
  BY CorpusAssumption DEF CorpusTypeOK, Mishap

LEMMA Working ==
    ASSUME CorpusInv, NEW w \in Workers, wpc[w] # "idle"
    PROVE  /\ todo[w] # {} /\ First(w) \in todo[w] /\ First(w).id \in Maps
           /\ First(w).art \in 1..MaxArt /\ Current(w, First(w)) /\ First(w) \in Fetched
  <1>1. todo[w] # {}
    BY DEF CorpusInv, Lists
  <1> QED
    BY <1>1, FirstIsListed DEF CorpusInv, TableSound, Lists

\* The wrapper's result, or the failure to get one.
LEMMA Parsing ==
    ASSUME CorpusInv, NEW w \in Workers, Parse(w)
    PROVE  CorpusInv'
  <1>1. wpc[w] = "parse" /\ UNCHANGED <<site, rows, disk, ingest>>
    BY DEF Parse
  <1>2. todo[w] # {}
    BY <1>1, Working
  <1>3. PICK out \in Usual(First(w).id) \cup Flaky :
          /\ IF out \in Flaky THEN Mishap ELSE UNCHANGED mishaps
          /\ IF ResultStatus(out) = "success"
             THEN /\ Goto(w, IF First(w).full THEN "write" ELSE "scenery")
                  /\ UNCHANGED <<tries, verdict>>
             ELSE Fail(w, ResultStatus(out))
    BY DEF Parse
  <1>4. mishaps' \in 0..MaxMishaps
    BY <1>3, MishapTypes DEF CorpusInv, TableSound
  <1>5. CASE ResultStatus(out) = "success"
    <2> DEFINE label == IF First(w).full THEN "write" ELSE "scenery"
    <2>1. Inside(w, label)
      BY <1>1, <1>3, <1>4, <1>5 DEF Goto, Inside, CorpusInv, TableSound, CorpusTypeOK
    <2> QED
      BY <1>2, <2>1, InsideKeeps
  <1>6. CASE ResultStatus(out) # "success"
    <2>1. ResultStatus(out) \in Failures
      BY <1>6 DEF ResultStatus, Failures
    <2>2. Inside(w, "fail")
      BY <1>1, <1>3, <1>4, <1>6, <2>1, Failing
    <2> QED
      BY <1>2, <2>2, InsideKeeps
  <1> QED
    BY <1>5, <1>6

\* A transaction that is not committed.
LEMMA NotCommitted ==
    ASSUME CorpusInv, NEW w \in Workers, DuplicateKey(w) \/ Deadlock(w) \/ WriteError(w)
    PROVE  CorpusInv'
  <1>1. wpc[w] = "write" /\ UNCHANGED <<site, rows, disk, ingest>>
    BY DEF DuplicateKey, Deadlock, WriteError
  <1>2. todo[w] # {} /\ First(w).full
    BY <1>1, Working DEF CorpusInv, Lists
  <1>3. mishaps' \in 0..MaxMishaps
    BY MishapTypes DEF CorpusInv, TableSound, DuplicateKey, Deadlock, WriteError
  <1>4. "failed_transient" \in Failures
    BY DEF Failures
  <1>5. CASE Fail(w, "failed_transient")
    BY <1>1, <1>2, <1>3, <1>4, <1>5, Failing, InsideKeeps
  <1>6. CASE /\ tries[w] < MaxAttempts - 1 /\ Goto(w, "write")
             /\ tries' = [tries EXCEPT ![w] = @ + 1] /\ UNCHANGED verdict
    <2>1. tries' \in [Workers -> 0..(MaxAttempts - 1)]
      BY <1>6, CorpusAssumption DEF CorpusInv, TableSound, CorpusTypeOK
    <2>2. Inside(w, "write")
      BY <1>1, <1>2, <1>3, <1>6, <2>1 DEF Goto, Inside, CorpusInv, TableSound, CorpusTypeOK
    <2> QED
      BY <1>2, <2>2, InsideKeeps
  <1> QED
    BY <1>5, <1>6 DEF DuplicateKey, Deadlock, WriteError

\* The end of the work on a row: the row is written and leaves the list.
Ends(w, row) ==
    /\ rows' = [rows EXCEPT ![First(w).id] = row]
    /\ Done(w)
    /\ UNCHANGED <<site, disk, ingest, verdict>>
    /\ tries' \in [Workers -> 0..(MaxAttempts - 1)]
    /\ mishaps' \in 0..MaxMishaps

\* A row may be written so if it keeps its file, and its blocks go with its status.
LEMMA EndsKeeps ==
    ASSUME CorpusInv, NEW w \in Workers, wpc[w] # "idle",
           NEW row \in Row, Ends(w, row),
           row.art = rows[First(w).id].art, row.src = row.blocks,
           row.status # "absent",
           First(w).id \notin Legacy =>
               /\ row.blocks # 0 <=> row.status = "success"
               /\ row.status = "success" => row.deco = "success"
    PROVE  CorpusInv'
  <1>1. PICK f : f = First(w)
    OBVIOUS
  <1>2. /\ f \in todo[w] /\ f.id \in Maps /\ InShard(f.id, w)
    BY <1>1, Working DEF Current
  <1>3. /\ rows \in [Maps -> Row] /\ todo \in [Workers -> SUBSET Fetched]
        /\ wpc \in [Workers -> {"idle", "parse", "write", "scenery", "fail"}]
    BY DEF CorpusInv, TableSound, CorpusTypeOK
  <1>4. rows' \in [Maps -> Row] /\ rows'[f.id] = row /\ \A k \in Maps \ {f.id} : rows'[k] = rows[k]
    BY <1>1, <1>2, <1>3, RowWrites DEF Ends
  <1>5. /\ todo' \in [Workers -> SUBSET Fetched] /\ todo'[w] = todo[w] \ {f}
        /\ wpc' \in [Workers -> {"idle", "parse", "write", "scenery", "fail"}]
        /\ wpc'[w] = IF todo[w] = {f} THEN "idle" ELSE "parse"
        /\ \A v \in Workers \ {w} : todo'[v] = todo[v] /\ wpc'[v] = wpc[v]
    BY <1>1, <1>3 DEF Ends, Done
  <1>6. CorpusTypeOK'
    BY <1>4, <1>5 DEF Ends, CorpusInv, TableSound, CorpusTypeOK
  <1>7. BlocksWithStatus' /\ RecordedIsStored' /\ Provenance' /\ Scenery'
    BY <1>1, <1>2, <1>4 DEF Ends, CorpusInv, TableSound, BlocksWithStatus, RecordedIsStored,
       Provenance, Scenery
  <1>8. Lists'
    <2>1. ASSUME NEW v \in Workers, NEW r \in todo'[v]
          PROVE  Current(v, r)'
      <3>1. r \in todo[v] /\ Current(v, r) /\ r.id \in Maps
        BY <1>3, <1>5 DEF CorpusInv, Lists, Fetched
      <3>2. r.id # f.id
        <4>1. CASE v = w
          BY <1>2, <1>5, <2>1, <3>1, <4>1 DEF CorpusInv, Lists
        <4>2. CASE v # w
          BY <1>2, <3>1, <4>2, OneWorkerPerMap DEF Current
        <4> QED
          BY <4>1, <4>2
      <3> QED
        BY <1>4, <3>1, <3>2 DEF Current
    <2>2. \A v \in Workers \ {w} : First(v)' = First(v)
      BY <1>5, FirstDepends
    <2>3. wpc'[w] = "idle" <=> todo'[w] = {}
      BY <1>2, <1>5
    <2>4. verdict' = verdict
      BY DEF Ends
    <2> QED
      BY <1>5, <2>1, <2>2, <2>3, <2>4 DEF CorpusInv, Lists
  <1> QED
    BY <1>6, <1>7, <1>8 DEF CorpusInv, TableSound, InHand, Ends

LEMMA Committing ==
    ASSUME CorpusInv, NEW w \in Workers, Commit(w)
    PROVE  CorpusInv'
  <1>1. PICK f : f = First(w)
    OBVIOUS
  <1>2. PICK row : row = Parsed(rows[f.id], f.art)
    OBVIOUS
  <1>3. /\ wpc[w] = "write" /\ rows' = [rows EXCEPT ![First(w).id] = row] /\ Done(w)
        /\ tries' = [tries EXCEPT ![w] = 0]
        /\ UNCHANGED <<site, disk, ingest, verdict, mishaps>>
    BY <1>1, <1>2, Zenon DEF Commit, Parsed
  <1>4. f.id \in Maps /\ f.art \in 1..MaxArt /\ rows[f.id] \in Row
    BY <1>1, <1>3, Working DEF CorpusInv, TableSound, CorpusTypeOK
  <1>5. /\ row \in Row /\ row.art = rows[f.id].art /\ row.status = "success"
        /\ row.deco = "success" /\ row.blocks = f.art /\ row.src = f.art
    BY <1>2, <1>4, ParseUpdates
  <1>6. Ends(w, row)
    BY <1>3, CorpusAssumption DEF Ends, CorpusInv, TableSound, CorpusTypeOK
  <1>7. f.art # 0
    BY <1>4
  <1> QED
    BY <1>1, <1>3, <1>5, <1>6, <1>7, EndsKeeps

LEMMA Furnishing ==
    ASSUME CorpusInv, NEW w \in Workers, SceneryOnly(w)
    PROVE  CorpusInv'
  <1>1. PICK f : f = First(w)
    OBVIOUS
  <1>2. /\ wpc[w] = "scenery" /\ Done(w) /\ UNCHANGED <<site, disk, ingest, tries, verdict>>
        /\ Mishap \/ UNCHANGED mishaps
    BY DEF SceneryOnly
  <1>3. /\ f.id \in Maps /\ f.art \in 1..MaxArt /\ rows[f.id] \in Row /\ Current(w, f)
        /\ rows \in [Maps -> Row]
    BY <1>1, <1>2, Working DEF CorpusInv, TableSound, CorpusTypeOK
  <1>4. mishaps' \in 0..MaxMishaps /\ tries' \in [Workers -> 0..(MaxAttempts - 1)]
    BY <1>2, MishapTypes DEF CorpusInv, TableSound, CorpusTypeOK
  <1>5. /\ rows[f.id].src = rows[f.id].blocks /\ rows[f.id].status # "absent"
        /\ f.id \notin Legacy =>
             /\ rows[f.id].blocks # 0 <=> rows[f.id].status = "success"
             /\ rows[f.id].status = "success" => rows[f.id].deco = "success"
    BY <1>3 DEF CorpusInv, TableSound, BlocksWithStatus, Provenance, Scenery, Current
  <1>6. CASE UNCHANGED rows
    <2>1. rows' = [rows EXCEPT ![First(w).id] = rows[f.id]]
      BY <1>1, <1>3, <1>6
    <2>2. Ends(w, rows[f.id])
      BY <1>2, <1>4, <2>1 DEF Ends
    <2> QED
      BY <1>1, <1>2, <1>3, <1>5, <2>2, EndsKeeps
  <1>7. CASE rows' = [rows EXCEPT ![First(w).id].deco = "success"]
    <2>1. PICK row : row = Furnished(rows[f.id])
      OBVIOUS
    <2>2. rows' = [rows EXCEPT ![First(w).id] = row]
      BY <1>1, <1>7, <2>1, Zenon DEF Furnished
    <2>3. /\ row \in Row /\ row.art = rows[f.id].art /\ row.status = rows[f.id].status
          /\ row.deco = "success" /\ row.blocks = rows[f.id].blocks /\ row.src = rows[f.id].src
      BY <1>3, <2>1, ParseUpdates
    <2>4. Ends(w, row)
      BY <1>2, <1>4, <2>2 DEF Ends
    <2> QED
      BY <1>1, <1>2, <1>5, <2>3, <2>4, EndsKeeps
  <1> QED
    BY <1>6, <1>7 DEF SceneryOnly

\* A full parse that failed leaves no blocks: there were none before it.
LEMMA WritingFailure ==
    ASSUME CorpusInv, NEW w \in Workers, WriteFailure(w)
    PROVE  CorpusInv'
  <1>1. PICK f : f = First(w)
    OBVIOUS
  <1>2. PICK row : row = Failed(rows[f.id], verdict[w])
    OBVIOUS
  <1>3. /\ wpc[w] = "fail" /\ rows' = [rows EXCEPT ![First(w).id] = row] /\ Done(w)
        /\ UNCHANGED <<site, disk, ingest, tries, verdict, mishaps>>
    BY <1>1, <1>2, Zenon DEF WriteFailure
  <1>4. f.id \in Maps /\ f.art \in 1..MaxArt /\ rows[f.id] \in Row /\ Current(w, f)
    BY <1>1, <1>3, Working DEF CorpusInv, TableSound, CorpusTypeOK
  <1>5. verdict[w] \in Failures
    BY <1>3 DEF CorpusInv, Lists
  <1>6. /\ row \in Row /\ row.art = rows[f.id].art /\ row.status = verdict[w]
        /\ row.blocks = rows[f.id].blocks /\ row.src = rows[f.id].src
    BY <1>2, <1>4, <1>5, FailureUpdates
  <1>7. row.src = row.blocks /\ row.status # "absent" /\ row.status # "success"
    BY <1>4, <1>5, <1>6 DEF CorpusInv, TableSound, Provenance, Failures
  <1>8. f.id \notin Legacy => row.blocks = 0
    BY <1>4, <1>6 DEF CorpusInv, TableSound, BlocksWithStatus, Current
  <1>9. Ends(w, row)
    BY <1>3 DEF Ends, CorpusInv, TableSound, CorpusTypeOK
  <1> QED
    BY <1>1, <1>3, <1>6, <1>7, <1>8, <1>9, EndsKeeps

\* A process that dies leaves the rows as they are and its list behind.
LEMMA Ending ==
    ASSUME CorpusInv, NEW w \in Workers, RunEnds(w)
    PROVE  CorpusInv'
  <1>1. /\ todo' = [todo EXCEPT ![w] = {}] /\ wpc' = [wpc EXCEPT ![w] = "idle"]
        /\ tries' = [tries EXCEPT ![w] = 0] /\ UNCHANGED <<site, rows, disk, ingest, verdict>>
    BY DEF RunEnds
  <1>2. mishaps' \in 0..MaxMishaps
    BY MishapTypes DEF RunEnds, CorpusInv, TableSound
  <1>3. CorpusTypeOK'
    BY <1>1, <1>2, CorpusAssumption DEF CorpusInv, TableSound, CorpusTypeOK
  <1>4. /\ todo'[w] = {} /\ wpc'[w] = "idle"
        /\ \A v \in Workers \ {w} : todo'[v] = todo[v] /\ wpc'[v] = wpc[v]
    BY <1>1 DEF CorpusInv, TableSound, CorpusTypeOK
  <1>5. \A v \in Workers \ {w} : First(v)' = First(v)
    BY <1>4, FirstDepends
  <1>6. Lists'
    BY <1>1, <1>4, <1>5 DEF CorpusInv, Lists, Current
  <1> QED
    BY <1>1, <1>3, <1>6 DEF CorpusInv, TableSound, BlocksWithStatus, RecordedIsStored,
       Provenance, InHand, Scenery

-----------------------------------------------------------------------------
LEMMA CorpusStart ==
    ASSUME CorpusInit
    PROVE  CorpusInv
  <1>0. 0 \in 0..MaxArt /\ 1 \in 0..MaxArt
    BY CorpusAssumption
  <1>1. Absent \in Row /\ ParsedBeforeScenery \in Row
    <2>1. NewRow \in Row
      BY <1>0 DEF NewRow, Row, ParseStatus
    <2>2. Absent \in Row
      BY <2>1 DEF Absent, Row
    <2>3. ParsedBeforeScenery \in Row
      BY <1>0, <2>1 DEF ParsedBeforeScenery, Row, ParseStatus
    <2> QED
      BY <2>2, <2>3
  <1>2. /\ Absent.status = "absent" /\ Absent.art = 0 /\ Absent.blocks = 0 /\ Absent.src = 0
        /\ ParsedBeforeScenery.art = 1 /\ ParsedBeforeScenery.blocks = 1
        /\ ParsedBeforeScenery.src = 1
    BY DEF NewRow, Absent, ParsedBeforeScenery
  <1>3. rows \in [Maps -> Row]
    <2> HIDE DEF Row, Absent, ParsedBeforeScenery
    <2> QED
      BY <1>1 DEF CorpusInit
  <1>4. CorpusTypeOK
    BY <1>3, CorpusAssumption DEF CorpusInit, CorpusTypeOK, ParseStatus
  <1>5. BlocksWithStatus /\ RecordedIsStored /\ Provenance /\ Scenery
    BY <1>2 DEF CorpusInit, BlocksWithStatus, RecordedIsStored, Provenance, Scenery
  <1>6. Lists /\ InHand
    BY DEF CorpusInit, Lists, InHand
  <1> QED
    BY <1>4, <1>5, <1>6 DEF CorpusInv, TableSound

LEMMA CorpusStep ==
    ASSUME CorpusInv, [CorpusNext]_corpusVars
    PROVE  CorpusInv'
  <1>1. CASE UNCHANGED corpusVars
    <2>1. UNCHANGED <<site, rows, disk, ingest, todo, wpc, tries, verdict, mishaps>>
      BY <1>1 DEF corpusVars
    <2>2. Lists'
      BY <2>1, ListsKeep DEF CorpusInv, TableSound, workerVars
    <2> QED
      BY <2>1, <2>2 DEF CorpusInv, TableSound, CorpusTypeOK, BlocksWithStatus, RecordedIsStored,
         Provenance, InHand, Scenery
  <1>2. CASE IngestStep
    BY <1>2, Editing, Upserting, Downloading, Recording, Stopping DEF IngestStep
  <1>3. CASE \E w \in Workers : Fetch(w, TRUE) \/ Fetch(w, FALSE)
    BY <1>3, Fetching
  <1>4. CASE \E w \in Workers : RowStep(w) \/ RunEnds(w)
    BY <1>4, Parsing, NotCommitted, Committing, Furnishing, WritingFailure, Ending DEF RowStep
  <1> QED
    BY <1>1, <1>2, <1>3, <1>4 DEF CorpusNext

\* The table of maps is sound at every moment ("Blocks + status update land
\* together or not at all", pipeline.py:7), whatever is edited, re-ingested,
\* killed or rolled back, for any number of maps and shards.
THEOREM TableIsSound == CorpusSpec => [](CorpusInv /\ TableSound)
  <1>1. CorpusInv => TableSound
    BY DEF CorpusInv
  <1> QED
    BY <1>1, CorpusStart, CorpusStep, PTL DEF CorpusSpec

\* A map that is parsed stays parsed, unless it was parsed before the scenery
\* columns existed: neither a worker with an old list, nor a re-ingestion, nor a
\* failure takes its blocks or its status back (the safety part of MapsGetParsed).
StaysParsed ==
    \A m \in Maps \ Legacy : rows[m].status = "success" =>
        /\ rows'[m].status = "success"
        /\ rows'[m].blocks = rows[m].blocks

LEMMA ParsedStep ==
    ASSUME CorpusInv, [CorpusNext]_corpusVars
    PROVE  StaysParsed
  <1> SUFFICES ASSUME NEW m \in Maps \ Legacy, rows[m].status = "success"
               PROVE  rows'[m].status = "success" /\ rows'[m].blocks = rows[m].blocks
    BY DEF StaysParsed
  <1>0. rows \in [Maps -> Row] /\ rows[m] \in Row
    BY DEF CorpusInv, TableSound, CorpusTypeOK
  <1>1. CASE UNCHANGED rows
    BY <1>1
  <1>2. ASSUME NEW k \in Maps, Upsert(k)
        PROVE  rows'[m].status = "success" /\ rows'[m].blocks = rows[m].blocks
    <2>1. rows' = [rows EXCEPT ![k] = Relisted(rows[k])]
      BY <1>2, Zenon DEF Upsert, Relisted
    <2>2. 1 \in 1..MaxArt
      BY CorpusAssumption
    <2> QED
      BY <1>0, <2>1, <2>2, IngestUpdates
  <1>3. CASE Record
    <2>1. rows' = [rows EXCEPT ![ingest.map] = Recorded(rows[ingest.map], ingest.art)]
      BY <1>3, Zenon DEF Record, Recorded
    <2>2. ingest.art \in 1..MaxArt
      BY <1>3 DEF Record, CorpusInv, InHand, TableSound, CorpusTypeOK
    <2> QED
      BY <1>0, <2>1, <2>2, IngestUpdates
  <1>4. ASSUME NEW w \in Workers, Commit(w)
        PROVE  rows'[m].status = "success" /\ rows'[m].blocks = rows[m].blocks
    <2>1. First(w).id # m
      BY <1>4 DEF Commit, CorpusInv, TableSound, BlocksWithStatus
    <2> QED
      BY <1>0, <1>4, <2>1 DEF Commit
  <1>5. ASSUME NEW w \in Workers, SceneryOnly(w)
        PROVE  rows'[m].status = "success" /\ rows'[m].blocks = rows[m].blocks
    <2>1. CASE rows' = [rows EXCEPT ![First(w).id].deco = "success"]
      <3>1. rows' = [rows EXCEPT ![First(w).id] = Furnished(rows[First(w).id])]
        BY <2>1, Zenon DEF Furnished
      <3>2. 1 \in 1..MaxArt
        BY CorpusAssumption
      <3> QED
        BY <1>0, <3>1, <3>2, ParseUpdates
    <2> QED
      BY <1>1, <1>5, <2>1 DEF SceneryOnly
  <1>6. ASSUME NEW w \in Workers, WriteFailure(w)
        PROVE  rows'[m].status = "success" /\ rows'[m].blocks = rows[m].blocks
    <2>1. Current(w, First(w))
      BY <1>6, Working DEF WriteFailure
    <2>2. First(w).id # m
      BY <2>1 DEF Current, CorpusInv, Lists
    <2> QED
      BY <1>0, <1>6, <2>2 DEF WriteFailure
  <1>7. CorpusNext \/ UNCHANGED corpusVars
    OBVIOUS
  <1> QED
    BY <1>1, <1>2, <1>3, <1>4, <1>5, <1>6, <1>7
       DEF CorpusNext, corpusVars, IngestStep, Edit, DownloadArtifact, IngestStops, Fetch, RowStep,
           Parse, DuplicateKey, Deadlock, WriteError, RunEnds

\* The same, of every behaviour.
THEOREM ParsedIsKept == CorpusSpec => [][StaysParsed]_corpusVars
  <1>1. CorpusInv /\ CorpusInv' /\ [CorpusNext]_corpusVars => [StaysParsed]_corpusVars
    BY ParsedStep
  <1>2. CorpusSpec => []CorpusInv
    BY CorpusStart, CorpusStep, PTL DEF CorpusSpec
  <1> QED
    BY <1>1, <1>2, PTL DEF CorpusSpec

-----------------------------------------------------------------------------
(* Route extraction.                                                       *)

\* Positions sorted by their keys.
ByKeys(n, ds) == Ordered(1 .. n, Stable(1 .. n, ds))

LEMMA SortedKeys ==
    ASSUME NEW n \in Nat, NEW ds \in [1 .. n -> Int]
    PROVE  \E o : /\ o = ByKeys(n, ds)
                  /\ \A p \in 1 .. n : o[p] \in 1 .. n
                  /\ \A p, q \in 1 .. n : p <= q => ds[o[p]] <= ds[o[q]]
                  /\ \A i \in 1 .. n : \E p \in 1 .. n : o[p] = i
  <1>9. PICK o : o = ByKeys(n, ds)
    OBVIOUS
  <1>1. IsFiniteSet(1 .. n) /\ Cardinality(1 .. n) = n /\ 1 .. n \subseteq Int
    BY FS_Interval
  <1>2. IsOrder(Stable(1 .. n, ds), 1 .. n)
    BY <1>1, StableOrders
  <1>0. PICK D, R : D = 1 .. n /\ R = Stable(1 .. n, ds)
    OBVIOUS
  <1>6. IsFiniteSet(D) /\ Cardinality(D) = n /\ IsOrder(R, D) /\ o = Ordered(D, R)
    BY <1>0, <1>1, <1>2, <1>9 DEF ByKeys
  <1>7. /\ Ordered(D, R) \in Seq(D) /\ Len(Ordered(D, R)) = Cardinality(D)
        /\ \A p, q \in 1 .. Cardinality(D) : p < q <=> <<Ordered(D, R)[p], Ordered(D, R)[q]>> \in R
        /\ \A x \in D : \E p \in 1 .. Cardinality(D) : Ordered(D, R)[p] = x
    BY <1>6, OrderedSorts
  <1>3. /\ o \in Seq(D) /\ Len(o) = n
        /\ \A p, q \in 1 .. n : p < q <=> <<o[p], o[q]>> \in R
        /\ \A x \in D : \E p \in 1 .. n : o[p] = x
    BY <1>6, <1>7
  <1>8. \A p \in 1 .. n : o[p] \in D
    BY <1>3
  <1>4. \A p \in 1 .. n : o[p] \in 1 .. n
    BY <1>0, <1>8
  <1>5. ASSUME NEW p \in 1 .. n, NEW q \in 1 .. n, p <= q PROVE ds[o[p]] <= ds[o[q]]
    <2>1. ds[o[p]] \in Int /\ ds[o[q]] \in Int
      BY <1>4
    <2>2. CASE p = q
      BY <2>1, <2>2
    <2>3. CASE p < q
      <3>1. <<o[p], o[q]>> \in Stable(1 .. n, ds)
        BY <1>0, <1>3, <2>3
      <3>2. ds[o[p]] < ds[o[q]] \/ ds[o[p]] = ds[o[q]]
        BY <3>1 DEF Stable
      <3> QED
        BY <2>1, <3>2
    <2> QED
      BY <1>5, <2>2, <2>3
  <1> QED
    BY <1>0, <1>3, <1>4, <1>5, <1>9

\* The position whose key is least, the earliest one of them.
LEMMA FirstKey ==
    ASSUME NEW n \in Nat \ {0}, NEW ds \in [1 .. n -> Int]
    PROVE  /\ ByKeys(n, ds)[1] \in 1 .. n
           /\ \A i \in 1 .. n : ds[ByKeys(n, ds)[1]] <= ds[i]
  <1>1. PICK o : /\ o = ByKeys(n, ds)
                 /\ \A p \in 1 .. n : o[p] \in 1 .. n
                 /\ \A p, q \in 1 .. n : p <= q => ds[o[p]] <= ds[o[q]]
                 /\ \A i \in 1 .. n : \E p \in 1 .. n : o[p] = i
    BY SortedKeys
  <1>3. 1 \in 1 .. n /\ \A p \in 1 .. n : 1 <= p
    OBVIOUS
  <1>4. ASSUME NEW i \in 1 .. n PROVE ds[o[1]] <= ds[i]
    <2>1. PICK p \in 1 .. n : o[p] = i
      BY <1>1
    <2> QED
      BY <1>1, <1>3, <2>1
  <1> QED
    BY <1>1, <1>3, <1>4

\* What lies no farther from the median than any duration does lies between the two
\* durations in the middle.
LEMMA NearMedian ==
    ASSUME NEW n \in Nat \ {0}, NEW ds \in [1 .. n -> Int], NEW j \in 1 .. n,
           \A i \in 1 .. n : FromMedian(ds)[j] <= FromMedian(ds)[i],
           NEW o, o = ByKeys(n, ds)
    PROVE  /\ (n + 1) \div 2 \in 1 .. n /\ n \div 2 + 1 \in 1 .. n
           /\ ds[o[(n + 1) \div 2]] <= ds[j] /\ ds[j] <= ds[o[n \div 2 + 1]]
  <1>1. PICK h \in Int, g \in Int : h = (n + 1) \div 2 /\ g = n \div 2 + 1
    OBVIOUS
  <1>2. h \in 1 .. n /\ g \in 1 .. n /\ h <= g
    BY <1>1
  <1>3. PICK lo, hi : lo = ds[o[h]] /\ hi = ds[o[g]]
    OBVIOUS
  <1>0. /\ \A p \in 1 .. n : o[p] \in 1 .. n
        /\ \A p, q \in 1 .. n : p <= q => ds[o[p]] <= ds[o[q]]
    BY SortedKeys
  <1>4. /\ o[h] \in 1 .. n /\ o[g] \in 1 .. n /\ ds[o[h]] <= ds[o[g]]
    BY <1>0, <1>2
  <1>5. lo \in Int /\ hi \in Int /\ lo <= hi
    BY <1>3, <1>4
  <1>6. DOMAIN ds = 1 .. n /\ ds \in Seq(Int) /\ Len(ds) = n
    OBVIOUS
  <1>7. TwiceMedian(ds) = lo + hi
    BY <1>1, <1>3, <1>6 DEF TwiceMedian, ByKeys
  <1>8. \A i \in 1 .. n : FromMedian(ds)[i] = Apart(2 * ds[i], lo + hi)
    BY <1>6, <1>7 DEF FromMedian
  <1>9. Apart(2 * ds[j], lo + hi) <= Apart(2 * lo, lo + hi)
    BY <1>3, <1>4, <1>8
  <1>10. ds[j] \in Int
    OBVIOUS
  <1>11. lo <= ds[j] /\ ds[j] <= hi
    BY <1>5, <1>9, <1>10 DEF Apart
  <1> QED
    BY <1>1, <1>2, <1>3, <1>11

\* No more than half of the durations are on either side of it.
LEMMA MedianHalves ==
    ASSUME NEW n \in Nat \ {0}, NEW ds \in [1 .. n -> Int], NEW j \in 1 .. n,
           \A i \in 1 .. n : FromMedian(ds)[j] <= FromMedian(ds)[i]
    PROVE  /\ IsFiniteSet({i \in 1 .. n : ds[i] > ds[j]})
           /\ 2 * Cardinality({i \in 1 .. n : ds[i] > ds[j]}) <= n
           /\ IsFiniteSet({i \in 1 .. n : ds[i] < ds[j]})
           /\ 2 * Cardinality({i \in 1 .. n : ds[i] < ds[j]}) <= n
  <1>1. PICK o : /\ o = ByKeys(n, ds)
                 /\ \A p \in 1 .. n : o[p] \in 1 .. n
                 /\ \A p, q \in 1 .. n : p <= q => ds[o[p]] <= ds[o[q]]
                 /\ \A i \in 1 .. n : \E p \in 1 .. n : o[p] = i
    BY SortedKeys
  <1>2. PICK h \in Int, g \in Int : h = (n + 1) \div 2 /\ g = n \div 2 + 1
    OBVIOUS
  <1>3. /\ h \in 1 .. n /\ g \in 1 .. n
        /\ ds[o[h]] <= ds[j] /\ ds[j] <= ds[o[g]]
    BY <1>1, <1>2, NearMedian
  <1> DEFINE above == {i \in 1 .. n : ds[i] > ds[j]}
             below == {i \in 1 .. n : ds[i] < ds[j]}
  <1>5. above \subseteq {o[p] : p \in h + 1 .. n}
    <2> SUFFICES ASSUME NEW i \in 1 .. n, ds[i] > ds[j] PROVE \E p \in h + 1 .. n : o[p] = i
      OBVIOUS
    <2>1. PICK p \in 1 .. n : o[p] = i
      BY <1>1
    <2>2. ds[i] \in Int /\ ds[j] \in Int /\ ds[o[h]] \in Int
      BY <1>3, <1>1
    <2>3. p <= h => ds[i] <= ds[o[h]]
      BY <1>3, <1>1, <2>1
    <2>4. p > h /\ p \in Int /\ h \in Int /\ p <= n
      BY <1>3, <2>2, <2>3
    <2>5. p \in h + 1 .. n
      BY <2>4
    <2> QED
      BY <2>1, <2>5
  <1>6. below \subseteq {o[p] : p \in 1 .. g - 1}
    <2> SUFFICES ASSUME NEW i \in 1 .. n, ds[i] < ds[j] PROVE \E p \in 1 .. g - 1 : o[p] = i
      OBVIOUS
    <2>1. PICK p \in 1 .. n : o[p] = i
      BY <1>1
    <2>2. ds[i] \in Int /\ ds[j] \in Int /\ ds[o[g]] \in Int
      BY <1>3, <1>1
    <2>3. g <= p => ds[o[g]] <= ds[i]
      BY <1>3, <1>1, <2>1
    <2>4. p < g /\ p \in Int /\ g \in Int /\ 1 <= p
      BY <1>3, <2>2, <2>3
    <2>5. p \in 1 .. g - 1
      BY <2>4
    <2> QED
      BY <2>1, <2>5
  <1>7. /\ IsFiniteSet(h + 1 .. n) /\ Cardinality(h + 1 .. n) <= n \div 2
        /\ IsFiniteSet(1 .. g - 1) /\ Cardinality(1 .. g - 1) <= n \div 2
        /\ Cardinality(h + 1 .. n) \in Int /\ Cardinality(1 .. g - 1) \in Int
    <2>1. /\ IsFiniteSet(h + 1 .. n)
          /\ Cardinality(h + 1 .. n) = IF h + 1 > n THEN 0 ELSE n - (h + 1) + 1
      BY FS_Interval
    <2>2. /\ IsFiniteSet(1 .. g - 1)
          /\ Cardinality(1 .. g - 1) = IF 1 > g - 1 THEN 0 ELSE g - 1 - 1 + 1
      BY FS_Interval
    <2> QED
      BY <1>2, <2>1, <2>2
  <1>8. ASSUME NEW A, NEW P, IsFiniteSet(P), Cardinality(P) \in Int, Cardinality(P) <= n \div 2,
               A \subseteq {o[p] : p \in P}
        PROVE  IsFiniteSet(A) /\ 2 * Cardinality(A) <= n
    <2>1. /\ IsFiniteSet({o[p] : p \in P}) /\ Cardinality({o[p] : p \in P}) \in Nat
          /\ Cardinality({o[p] : p \in P}) <= Cardinality(P)
      BY <1>8, ValuesFinite
    <2>2. IsFiniteSet(A) /\ Cardinality(A) <= Cardinality({o[p] : p \in P}) /\ Cardinality(A) \in Nat
      BY <1>8, <2>1, FS_Subset, FS_CardinalityType
    <2> QED
      BY <1>8, <2>1, <2>2
  <1> HIDE DEF above, below
  <1>9. IsFiniteSet(above) /\ 2 * Cardinality(above) <= n
    BY <1>5, <1>7, <1>8
  <1>10. IsFiniteSet(below) /\ 2 * Cardinality(below) <= n
    BY <1>6, <1>7, <1>8
  <1> QED
    BY <1>9, <1>10 DEF above, below

\* The seed is one of the replays, and has no more than half of them on either side.
LEMMA SeedIsMedian ==
    ASSUME NEW S \in SUBSET DOMAIN Library, S # {}
    PROVE  LET seed == PickSeed(Ascending(S))
           IN  /\ seed \in S /\ Cardinality(S) \in Nat
               /\ 2 * Cardinality({r \in S : Library[r].duration > Library[seed].duration})
                      <= Cardinality(S)
               /\ 2 * Cardinality({r \in S : Library[r].duration < Library[seed].duration})
                      <= Cardinality(S)
  <1>1. /\ S \subseteq Int /\ IsFiniteSet(S)
        /\ \A r \in S : Library[r].duration \in Int
    BY ExtractionAssumption, FS_Subset
  <1>2. PICK n \in Nat \ {0} : n = Cardinality(S)
    BY <1>1, FS_EmptySet, FS_CardinalityType
  <1>3. PICK rs : rs = Ascending(S)
    OBVIOUS
  <1>4. /\ DOMAIN rs = 1 .. n
        /\ \A i \in 1 .. n : rs[i] \in S
        /\ \A r \in S : \E i \in 1 .. n : rs[i] = r
    BY <1>1, <1>2, <1>3, AscendingSorts
  <1>5. PICK ds : ds = Durations(rs)
    OBVIOUS
  <1>6. ds \in [1 .. n -> Int] /\ \A i \in 1 .. n : ds[i] = Library[rs[i]].duration
    BY <1>1, <1>4, <1>5 DEF Durations
  <1>7. FromMedian(ds) \in [1 .. n -> Int]
    <2>1. DOMAIN ds = 1 .. n /\ Len(ds) = n
      BY <1>6
    <2>2. PICK o : o = ByKeys(n, ds) /\ \A p \in 1 .. n : o[p] \in 1 .. n
      BY <1>6, SortedKeys
    <2>3. (n + 1) \div 2 \in 1 .. n /\ n \div 2 + 1 \in 1 .. n
      OBVIOUS
    <2>4. TwiceMedian(ds) = ds[o[(n + 1) \div 2]] + ds[o[n \div 2 + 1]]
      BY <2>1, <2>2 DEF TwiceMedian, ByKeys
    <2>5. TwiceMedian(ds) \in Int
      <3>1. PICK h \in 1 .. n, g \in 1 .. n : h = (n + 1) \div 2 /\ g = n \div 2 + 1
        BY <2>3
      <3>2. ds[o[h]] \in Int /\ ds[o[g]] \in Int
        BY <1>6, <2>2
      <3> QED
        BY <2>4, <3>1, <3>2
    <2>6. \A i \in 1 .. n : Apart(2 * ds[i], TwiceMedian(ds)) \in Int
      BY <1>6, <2>5 DEF Apart
    <2> QED
      BY <2>1, <2>6 DEF FromMedian
  <1>8. PICK j : j = ByKeys(n, FromMedian(ds))[1]
    OBVIOUS
  <1>9. /\ j \in 1 .. n
        /\ \A i \in 1 .. n : FromMedian(ds)[j] <= FromMedian(ds)[i]
    BY <1>7, <1>8, FirstKey
  <1>10. PickSeed(rs) = rs[j]
    BY <1>4, <1>5, <1>8 DEF PickSeed, ByKeys
  <1> DEFINE above == {i \in 1 .. n : ds[i] > ds[j]}
             below == {i \in 1 .. n : ds[i] < ds[j]}
             slower == {r \in S : Library[r].duration > Library[rs[j]].duration}
             faster == {r \in S : Library[r].duration < Library[rs[j]].duration}
  <1>11. /\ IsFiniteSet(above) /\ 2 * Cardinality(above) <= n
         /\ IsFiniteSet(below) /\ 2 * Cardinality(below) <= n
    BY <1>6, <1>9, MedianHalves
  <1>12. slower \subseteq {rs[i] : i \in above} /\ faster \subseteq {rs[i] : i \in below}
    BY <1>4, <1>6, <1>9
  <1>13. ASSUME NEW A, NEW P, IsFiniteSet(P), 2 * Cardinality(P) <= n, A \subseteq {rs[p] : p \in P}
         PROVE  2 * Cardinality(A) <= n
    <2>1. /\ IsFiniteSet({rs[p] : p \in P}) /\ Cardinality({rs[p] : p \in P}) \in Nat
          /\ Cardinality({rs[p] : p \in P}) <= Cardinality(P) /\ Cardinality(P) \in Nat
      BY <1>13, ValuesFinite
    <2>2. IsFiniteSet(A) /\ Cardinality(A) <= Cardinality({rs[p] : p \in P}) /\ Cardinality(A) \in Nat
      BY <1>13, <2>1, FS_Subset, FS_CardinalityType
    <2> QED
      BY <1>13, <2>1, <2>2
  <1> HIDE DEF above, below, slower, faster
  <1>14. 2 * Cardinality(slower) <= n /\ 2 * Cardinality(faster) <= n
    BY <1>11, <1>12, <1>13
  <1>15. rs[j] \in S
    BY <1>4, <1>9
  <1> QED
    BY <1>2, <1>3, <1>10, <1>14, <1>15 DEF slower, faster

\* Whole bins: which one a distance lies in, and how many there are.
LEMMA WhichBin ==
    ASSUME NEW a \in Nat, NEW n \in Nat \ {0}, NEW k \in Nat
    PROVE  a \div n = k <=> k * n <= a /\ a < (k + 1) * n
  OBVIOUS

LEMMA FullBins ==
    ASSUME NEW a \in Nat \ {0}, NEW n \in Nat \ {0}
    PROVE  (a + n - 1) \div n = (a - 1) \div n + 1 /\ (a - 1) \div n \in Nat
  OBVIOUS

LEMMA NoBins ==
    ASSUME NEW a \in Int, NEW n \in Nat \ {0}, NEW k \in 0 .. a \div n
    PROVE  a \in Nat
  OBVIOUS

LEMMA BinsApart ==
    ASSUME NEW b \in Int, NEW k \in Int, NEW n \in Nat \ {0}, b * n = k * n
    PROVE  b = k
  OBVIOUS

\* The counting of the bins is right: the clusters it finds in a bin are the ones that
\* run side by side there.
LEMMA BinsRight ==
    ASSUME NEW samples \in Seq([s : Int, lab : Nat \cup {-1}]), samples # << >>
    PROVE  /\ PathLength(samples) \in Nat /\ Smallest(Arcs(samples)) \in Int
           /\ \A k \in Nat : Significant(samples, k) = SideBySide(samples, k)
           /\ \A k : IsFiniteSet(Significant(samples, k))
  <1>1. /\ IsFiniteSet(DOMAIN samples) /\ DOMAIN samples # {}
        /\ \A i \in DOMAIN samples : samples[i] \in [s : Int, lab : Nat \cup {-1}]
    <2>1. PICK X : X = [s : Int, lab : Nat \cup {-1}]
      OBVIOUS
    <2>2. samples \in Seq(X)
      BY <2>1
    <2>3. /\ Len(samples) \in Nat \ {0} /\ DOMAIN samples = 1 .. Len(samples)
          /\ \A i \in DOMAIN samples : samples[i] \in X
      BY <2>2
    <2>4. IsFiniteSet(1 .. Len(samples)) /\ 1 \in 1 .. Len(samples)
      BY <2>3, FS_Interval
    <2> QED
      BY <2>1, <2>3, <2>4
  <1>2. \A i \in DOMAIN samples : samples[i].s \in Int /\ samples[i].lab \in Nat \cup {-1}
    BY <1>1
  <1>3. PICK ss, labs : /\ ss = [i \in DOMAIN samples |-> samples[i].s]
                        /\ labs = [i \in DOMAIN samples |-> samples[i].lab]
    OBVIOUS
  <1>4. /\ Arcs(samples) = {ss[i] : i \in DOMAIN samples}
        /\ {samples[i].lab : i \in DOMAIN samples} = {labs[i] : i \in DOMAIN samples}
    BY <1>3 DEF Arcs
  <1>5. IsFiniteSet(Arcs(samples)) /\ IsFiniteSet({samples[i].lab : i \in DOMAIN samples})
    <2>1. PICK D : D = DOMAIN samples /\ IsFiniteSet(D)
      BY <1>1
    <2>2. IsFiniteSet({ss[i] : i \in D})
      BY <2>1, ValuesFinite
    <2>3. IsFiniteSet({labs[i] : i \in D})
      BY <2>1, ValuesFinite
    <2> QED
      BY <1>4, <2>1, <2>2, <2>3
  <1>6. Arcs(samples) \subseteq Int /\ Arcs(samples) # {}
    BY <1>1, <1>2 DEF Arcs
  <1>7. PICK from, to : from = Smallest(Arcs(samples)) /\ to = Largest(Arcs(samples))
    OBVIOUS
  <1>8. /\ from \in Int /\ to \in Int /\ from <= to
        /\ \A i \in DOMAIN samples : from <= samples[i].s
    <2>1. /\ from \in Arcs(samples) /\ \A y \in Arcs(samples) : from <= y
          /\ to \in Arcs(samples) /\ \A y \in Arcs(samples) : to >= y
      BY <1>5, <1>6, <1>7, SmallestIs, LargestIs
    <2>2. \A i \in DOMAIN samples : samples[i].s \in Arcs(samples)
      BY DEF Arcs
    <2> QED
      BY <1>6, <2>1, <2>2
  <1>9. PathLength(samples) = to - from
    BY <1>7 DEF PathLength
  <1>10. \A k : IsFiniteSet(Significant(samples, k))
    BY <1>5, FS_Subset DEF Significant
  <1>11. ASSUME NEW k \in Nat PROVE Significant(samples, k) = SideBySide(samples, k)
    <2>1. ASSUME NEW i \in DOMAIN samples
          PROVE  (samples[i].s - from) \div BinSize = k
                    <=> samples[i].s >= from + k * BinSize /\ samples[i].s < from + (k + 1) * BinSize
      <3>0. PICK a : a = samples[i].s - from
        OBVIOUS
      <3>1. PICK low, high : low = k * BinSize /\ high = (k + 1) * BinSize
        OBVIOUS
      <3>2. a \in Nat /\ low \in Int /\ high \in Int /\ samples[i].s \in Int
        BY <1>2, <1>8, <3>0, <3>1, ExtractionAssumption
      <3>3. a \div BinSize = k <=> low <= a /\ a < high
        BY <3>1, <3>2, WhichBin, ExtractionAssumption
      <3>4. low <= a /\ a < high <=> samples[i].s >= from + low /\ samples[i].s < from + high
        BY <1>8, <3>0, <3>2
      <3> QED
        BY <3>0, <3>1, <3>3, <3>4
    <2>2. ASSUME NEW lab
          PROVE  {i \in DOMAIN samples : /\ samples[i].s >= from + k * BinSize
                                         /\ samples[i].s < from + (k + 1) * BinSize
                                         /\ samples[i].lab = lab}
                   = {i \in DOMAIN samples : /\ (samples[i].s - from) \div BinSize = k
                                             /\ samples[i].lab = lab}
      BY <2>1
    <2>3. ASSUME NEW lab \in {samples[i].lab : i \in DOMAIN samples}
          PROVE  lab # -1 <=> lab >= 0
      BY <1>2
    <2>4. ASSUME NEW lab
          PROVE  InBin(samples, k, lab)
                   = Cardinality({i \in DOMAIN samples :
                                    /\ (samples[i].s - from) \div BinSize = k
                                    /\ samples[i].lab = lab})
      BY <1>7, <2>2 DEF InBin
    <2> QED
      BY <1>7, <2>3, <2>4 DEF Significant, SideBySide
  <1> QED
    BY <1>7, <1>8, <1>9, <1>10, <1>11

\* A branch's primary cluster, and the others together, have enough samples each.
LEMMA BranchSizes ==
    ASSUME NEW samples \in Seq([s : Int, lab : Nat \cup {-1}]), NEW k \in Nat,
           Cardinality(Significant(samples, k)) > 1, IsFiniteSet(Significant(samples, k))
    PROVE  Branch(samples, k).primary >= MinSamples /\ Branch(samples, k).alternates >= MinSamples
  <1>1. PICK labs, sizes : /\ labs = Significant(samples, k)
                           /\ sizes = [lab \in labs |-> InBin(samples, k, lab)]
    OBVIOUS
  <1>2. \A lab \in labs : sizes[lab] \in Nat /\ sizes[lab] >= MinSamples
    <2> SUFFICES ASSUME NEW lab \in labs PROVE sizes[lab] \in Nat /\ sizes[lab] >= MinSamples
      OBVIOUS
    <2>1. sizes[lab] = InBin(samples, k, lab) /\ InBin(samples, k, lab) >= MinSamples
      BY <1>1 DEF Significant
    <2>2. InBin(samples, k, lab) \in Nat
      <3>1. IsFiniteSet(DOMAIN samples)
        BY FS_Interval
      <3> QED
        BY <3>1, FS_Subset, FS_CardinalityType DEF InBin
    <2> QED
      BY <2>1, <2>2
  <1>3. IsFiniteSet(labs) /\ Cardinality(labs) > 1
    BY <1>1
  <1>4. labs # {}
    BY <1>3, FS_EmptySet
  <1>5. PICK primary : primary = Largest({sizes[lab] : lab \in labs})
    OBVIOUS
  <1>6. IsFiniteSet({sizes[lab] : lab \in labs})
    BY <1>3, ValuesFinite
  <1>7. {sizes[lab] : lab \in labs} \subseteq Int /\ {sizes[lab] : lab \in labs} # {}
    BY <1>2, <1>4
  <1>8. primary \in {sizes[lab] : lab \in labs}
    BY <1>5, <1>6, <1>7, LargestIs
  <1>9. PICK x \in labs : primary = sizes[x]
    BY <1>8
  <1>10. PICK y \in labs : y # x
    <2> SUFFICES ASSUME labs = {x} PROVE FALSE
      OBVIOUS
    <2>1. Cardinality({x}) = 1
      BY FS_Singleton
    <2> QED
      BY <1>3, <2>1
  <1>11. /\ SumOver(sizes, labs) \in Nat /\ SumOver(sizes, labs) >= sizes[x] + sizes[y]
    BY <1>2, <1>3, <1>10, SumOverNat
  <1>12. /\ Branch(samples, k).primary = primary
         /\ Branch(samples, k).alternates = SumOver(sizes, labs) - primary
    BY <1>1, <1>5 DEF Branch
  <1> QED
    BY <1>2, <1>9, <1>11, <1>12, ExtractionAssumption

\* The branches are the bins in which several clusters run side by side.
LEMMA BranchesRight ==
    ASSUME NEW samples \in Seq([s : Int, lab : Nat \cup {-1}])
    PROVE  /\ \A k \in 0 .. (PathLength(samples) - 1) \div BinSize :
                 Cardinality(SideBySide(samples, k)) > 1
                    <=> \E b \in DetectBranches(samples) :
                           b.lo = Smallest(Arcs(samples)) + k * BinSize
           /\ \A b \in DetectBranches(samples) :
                 b.primary >= MinSamples /\ b.alternates >= MinSamples
  <1>1. CASE samples = << >>
    <2>1. {samples[i].lab : i \in DOMAIN samples} = {}
      BY <1>1
    <2>2. \A k : Significant(samples, k) = {} /\ SideBySide(samples, k) = {}
      BY <2>1 DEF Significant, SideBySide
    <2>3. Cardinality({}) = 0
      BY FS_EmptySet
    <2>4. DetectBranches(samples) = {}
      BY <2>2, <2>3 DEF DetectBranches
    <2>5. ASSUME NEW k PROVE ~(Cardinality(SideBySide(samples, k)) > 1)
      <3>1. Cardinality(SideBySide(samples, k)) = 0
        BY <2>2, <2>3
      <3> QED
        BY <3>1
    <2>6. ASSUME NEW k
          PROVE  Cardinality(SideBySide(samples, k)) > 1
                    <=> \E b \in DetectBranches(samples) :
                           b.lo = Smallest(Arcs(samples)) + k * BinSize
      BY <2>4, <2>5
    <2>7. \A b \in DetectBranches(samples) :
             b.primary >= MinSamples /\ b.alternates >= MinSamples
      BY <2>4
    <2> QED
      BY <2>6, <2>7
  <1>2. CASE samples # << >>
    <2>1. PICK from, len : from = Smallest(Arcs(samples)) /\ len = PathLength(samples)
      OBVIOUS
    <2>2. /\ from \in Int /\ len \in Nat
          /\ \A k \in Nat : Significant(samples, k) = SideBySide(samples, k)
          /\ \A k : IsFiniteSet(Significant(samples, k))
      BY <1>2, <2>1, BinsRight
    <2>3. Bins(samples) \subseteq Nat
      <3>1. PICK full : full = (Largest(Arcs(samples)) - Smallest(Arcs(samples)) + BinSize - 1) \div BinSize
        OBVIOUS
      <3>2. full \in Int
        <4>1. full = (len + BinSize - 1) \div BinSize
          BY <2>1, <3>1 DEF PathLength
        <4> QED
          BY <2>2, <4>1, ExtractionAssumption
      <3>3. Bins(samples) = 0 .. (IF full < 1 THEN 1 ELSE full) - 1
        BY <3>1 DEF Bins
      <3> QED
        BY <3>2, <3>3
    <2>4. ASSUME NEW k \in 0 .. (len - 1) \div BinSize
          PROVE  k \in Bins(samples)
      <3>0. PICK a \in Int : a = len - 1
        BY <2>2
      <3>1. len \in Nat \ {0}
        <4>1. k \in 0 .. a \div BinSize
          BY <3>0
        <4>2. a \in Nat
          BY <4>1, NoBins, ExtractionAssumption
        <4> QED
          BY <2>2, <3>0, <4>2
      <3>2. (len + BinSize - 1) \div BinSize = (len - 1) \div BinSize + 1 /\ (len - 1) \div BinSize \in Nat
        <4>1. BinSize \in Nat \ {0}
          BY ExtractionAssumption
        <4> QED
          BY <3>1, <4>1, FullBins
      <3>3. Bins(samples) = 0 .. (IF (len + BinSize - 1) \div BinSize < 1 THEN 1
                                    ELSE (len + BinSize - 1) \div BinSize) - 1
        BY <2>1 DEF Bins, PathLength
      <3>4. Bins(samples) = 0 .. (len - 1) \div BinSize
        BY <3>2, <3>3
      <3> QED
        BY <3>4
    <2>5. \A b : Branch(samples, b).lo = from + b * BinSize
      BY <2>1 DEF Branch
    <2>6. ASSUME NEW k \in 0 .. (len - 1) \div BinSize
          PROVE  Cardinality(SideBySide(samples, k)) > 1
                    <=> \E b \in DetectBranches(samples) : b.lo = from + k * BinSize
      <3>1. k \in Nat /\ k \in Bins(samples)
        BY <2>3, <2>4
      <3>2. Significant(samples, k) = SideBySide(samples, k)
        BY <2>2, <3>1
      <3>3. ASSUME Cardinality(SideBySide(samples, k)) > 1
            PROVE  \E b \in DetectBranches(samples) : b.lo = from + k * BinSize
        BY <2>5, <3>1, <3>2, <3>3 DEF DetectBranches
      <3>4. ASSUME NEW b \in DetectBranches(samples), b.lo = from + k * BinSize
            PROVE  Cardinality(SideBySide(samples, k)) > 1
        <4>1. PICK c \in Bins(samples) : /\ Cardinality(Significant(samples, c)) > 1
                                         /\ b = Branch(samples, c)
          BY DEF DetectBranches
        <4>2. c \in Nat
          BY <2>3
        <4>3. from + c * BinSize = from + k * BinSize
          BY <2>5, <3>4, <4>1
        <4>4. c * BinSize \in Int /\ k * BinSize \in Int
          BY <3>1, <4>2, ExtractionAssumption
        <4>5. c * BinSize = k * BinSize
          BY <2>2, <4>3, <4>4
        <4>6. c = k
          BY <3>1, <4>2, <4>5, BinsApart, ExtractionAssumption
        <4> QED
          BY <3>2, <4>1, <4>6
      <3> QED
        BY <3>3, <3>4
    <2>7. ASSUME NEW b \in DetectBranches(samples)
          PROVE  b.primary >= MinSamples /\ b.alternates >= MinSamples
      <3>1. PICK c \in Bins(samples) : /\ Cardinality(Significant(samples, c)) > 1
                                       /\ b = Branch(samples, c)
        BY DEF DetectBranches
      <3>2. c \in Nat /\ IsFiniteSet(Significant(samples, c))
        BY <2>2, <2>3
      <3> QED
        BY <3>1, <3>2, BranchSizes
    <2> QED
      BY <2>1, <2>6, <2>7
  <1> QED
    BY <1>1, <1>2

\* What a route made from the replays in S says of them.
LEMMA ExtractedRight ==
    ASSUME NEW S \in SUBSET DOMAIN Library, S # {}
    PROVE  LET rs == Ascending(S)
               all == AllSamples(rs)
               file == Extract(rs)
           IN  /\ file.seed \in S /\ Len(rs) = Cardinality(S)
               /\ 2 * Cardinality({r \in S : Library[r].duration > Library[file.seed].duration})
                      <= Len(rs)
               /\ 2 * Cardinality({r \in S : Library[r].duration < Library[file.seed].duration})
                      <= Len(rs)
               /\ \A k \in 0 .. (PathLength(all) - 1) \div BinSize :
                      Cardinality(SideBySide(all, k)) > 1
                        <=> \E b \in file.branches : b.lo = Smallest(Arcs(all)) + k * BinSize
               /\ \A b \in file.branches : b.primary >= MinSamples /\ b.alternates >= MinSamples
  <1>1. S \subseteq Int /\ IsFiniteSet(S)
    BY ExtractionAssumption, FS_Subset
  <1>2. PICK rs : rs = Ascending(S)
    OBVIOUS
  <1>3. /\ DOMAIN rs = 1 .. Cardinality(S) /\ Len(rs) = Cardinality(S) /\ Cardinality(S) \in Nat
        /\ \A i \in DOMAIN rs : rs[i] \in S
    BY <1>1, <1>2, AscendingSorts
  <1>4. PICK X : X = [s : Int, lab : Nat \cup {-1}]
    OBVIOUS
  <1>5. [i \in DOMAIN rs |-> Library[rs[i]].samples] \in Seq(Seq(X))
    <2>1. \A i \in DOMAIN rs : Library[rs[i]].samples \in Seq(X)
      BY <1>3, <1>4, ExtractionAssumption
    <2>2. PICK Y : Y = Seq(X)
      OBVIOUS
    <2>3. [i \in DOMAIN rs |-> Library[rs[i]].samples] \in [1 .. Cardinality(S) -> Y]
      BY <1>3, <2>1, <2>2
    <2> QED
      BY <1>3, <2>2, <2>3
  <1>6. PICK all : all = AllSamples(rs)
    OBVIOUS
  <1>7. all \in Seq(X)
    BY <1>5, <1>6, JoinedMembers DEF AllSamples
  <1>8. PICK seed : seed = PickSeed(rs)
    OBVIOUS
  <1>9. /\ seed \in S
        /\ 2 * Cardinality({r \in S : Library[r].duration > Library[seed].duration}) <= Cardinality(S)
        /\ 2 * Cardinality({r \in S : Library[r].duration < Library[seed].duration}) <= Cardinality(S)
    BY <1>2, <1>8, SeedIsMedian
  <1>10. /\ \A k \in 0 .. (PathLength(all) - 1) \div BinSize :
               Cardinality(SideBySide(all, k)) > 1
                  <=> \E b \in DetectBranches(all) : b.lo = Smallest(Arcs(all)) + k * BinSize
         /\ \A b \in DetectBranches(all) : b.primary >= MinSamples /\ b.alternates >= MinSamples
    BY <1>4, <1>7, BranchesRight
  <1>11. Extract(rs).seed = seed /\ Extract(rs).branches = DetectBranches(all)
    BY <1>6, <1>8 DEF Extract
  <1> QED
    BY <1>2, <1>3, <1>6, <1>9, <1>10, <1>11

\* The replays a route of the map m may be made from, and what it then is.
Made(m, S, file) ==
    /\ S \in SUBSET DOMAIN Library /\ Cardinality(S) >= MinReplays
    /\ \A r \in S : Library[r].map = m /\ Library[r].samples # << >>
    /\ file = Extract(Ascending(S))

Extracting == [at : {"idle", "map", "temp", "replace", "insert"}, todo : SUBSET RMaps,
               map : RMaps \cup {0}, version : RouteVersions \cup {""},
               sources : SUBSET DOMAIN Library,
               result : {Extract(Ascending(S)) : S \in SUBSET DOMAIN Library} \cup {<< >>}]
Underway(x, files) ==
    /\ x \in Extracting
    /\ x.at \in {"temp", "replace", "insert"} => Made(x.map, x.sources, x.result)
    /\ x.at = "insert" => x.result \in files
Loadable(side) ==
    /\ side \in [DOMAIN Library -> {"missing", "malformed", "ok"}]
    /\ \A r \in DOMAIN Library : side[r] = "ok" => Library[r].samples # << >>
RowsMade(held, files) ==
    /\ \A row \in held : Made(row.map, row.sources, row.file) /\ row.file \in files
    /\ \A row, other \in held : other.map = row.map /\ other.version = row.version => other = row
ExtractInv ==
    Underway(extracting, routeFiles) /\ Loadable(sidecar) /\ RowsMade(routes, routeFiles)

LEMMA ExtractStarts == ExtractInit => ExtractInv
  <1> SUFFICES ASSUME ExtractInit PROVE ExtractInv
    OBVIOUS
  <1>1. NotExtracting \in Extracting /\ NotExtracting.at = "idle"
    BY DEF NotExtracting, Extracting
  <1>2. Underway(extracting, routeFiles)
    BY <1>1 DEF ExtractInit, Underway
  <1>3. Loadable(sidecar)
    BY DEF ExtractInit, Loadable
  <1>4. RowsMade(routes, routeFiles)
    BY DEF ExtractInit, RowsMade
  <1> QED
    BY <1>2, <1>3, <1>4 DEF ExtractInv

LEMMA ExtractKeeps == ExtractInv /\ [ExtractNext]_extractVars => ExtractInv'
  <1> SUFFICES ASSUME ExtractInv, [ExtractNext]_extractVars PROVE ExtractInv'
    OBVIOUS
  <1>1. Underway(extracting, routeFiles) /\ Loadable(sidecar) /\ RowsMade(routes, routeFiles)
    BY DEF ExtractInv
  <1>2. extracting \in Extracting
    BY <1>1 DEF Underway
  <1>3. NotExtracting \in Extracting /\ NotExtracting.at = "idle"
    BY DEF NotExtracting, Extracting
  <1>4. CASE StartExtract
    <2>1. PICK v \in RouteVersions, asked \in {RMaps} \cup {{m} : m \in RMaps} :
             extracting' = [NotExtracting EXCEPT !.at = "map", !.version = v,
                                                 !.todo = asked \cap FetchCandidateMapIds]
      BY <1>4 DEF StartExtract
    <2>2. FetchCandidateMapIds \subseteq RMaps
      BY DEF FetchCandidateMapIds, RMaps
    <2>3. extracting' \in Extracting /\ extracting'.at = "map"
      BY <2>1, <2>2 DEF NotExtracting, Extracting
    <2> QED
      BY <1>1, <1>4, <2>3 DEF StartExtract, ExtractInv, Underway
  <1>5. CASE ProcessMap
    <2>1. PICK m, loaded :
             /\ m \in extracting.todo /\ loaded = LoadedSources(FetchReplaysInCohort(m))
             /\ \/ extracting' = [extracting EXCEPT !.todo = @ \ {m}]
                \/ /\ ~(Cardinality(loaded) < MinReplays)
                   /\ extracting' = [extracting EXCEPT !.at = "temp", !.todo = @ \ {m}, !.map = m,
                                                       !.sources = loaded,
                                                       !.result = Extract(Ascending(loaded))]
      BY <1>5 DEF ProcessMap
    <2>2. extracting.at = "map" /\ extracting.todo \subseteq RMaps /\ m \in RMaps
      BY <1>2, <1>5, <2>1 DEF ProcessMap, Extracting
    <2>3. /\ loaded \in SUBSET DOMAIN Library
          /\ \A r \in loaded : Library[r].map = m /\ Library[r].samples # << >>
      BY <1>1, <2>1 DEF LoadedSources, FetchReplaysInCohort, Loadable
    <2>4. CASE extracting' = [extracting EXCEPT !.todo = @ \ {m}]
      <3>1. extracting' \in Extracting /\ extracting'.at = "map"
        BY <1>2, <2>2, <2>4 DEF Extracting
      <3> QED
        BY <1>1, <1>5, <3>1 DEF ProcessMap, ExtractInv, Underway
    <2>5. CASE /\ ~(Cardinality(loaded) < MinReplays)
               /\ extracting' = [extracting EXCEPT !.at = "temp", !.todo = @ \ {m}, !.map = m,
                                                   !.sources = loaded,
                                                   !.result = Extract(Ascending(loaded))]
      <3>1. Cardinality(loaded) >= MinReplays
        <4>1. Cardinality(loaded) \in Nat
          BY <2>3, FS_Subset, FS_CardinalityType, ExtractionAssumption
        <4> QED
          BY <2>5, <4>1, ExtractionAssumption
      <3>2. PICK file : file = Extract(Ascending(loaded))
        OBVIOUS
      <3>3. /\ extracting' = [extracting EXCEPT !.at = "temp", !.todo = @ \ {m}, !.map = m,
                                                !.sources = loaded, !.result = file]
            /\ file \in {Extract(Ascending(S)) : S \in SUBSET DOMAIN Library}
        BY <2>3, <2>5, <3>2
      <3>4. /\ extracting' \in Extracting /\ extracting'.at = "temp" /\ extracting'.map = m
            /\ extracting'.sources = loaded /\ extracting'.result = file
        BY <1>2, <2>2, <2>3, <3>3 DEF Extracting
      <3>5. Made(m, loaded, file)
        BY <2>3, <3>1, <3>2 DEF Made
      <3> QED
        BY <1>1, <1>5, <3>4, <3>5 DEF ProcessMap, ExtractInv, Underway
    <2> QED
      BY <2>1, <2>4, <2>5
  <1>6. CASE WriteTemp
    <2>1. /\ extracting.at = "temp"
          /\ extracting' = [extracting EXCEPT !.at = "replace"]
      BY <1>6 DEF WriteTemp
    <2>2. /\ extracting' \in Extracting /\ extracting'.at = "replace"
          /\ extracting'.map = extracting.map /\ extracting'.sources = extracting.sources
          /\ extracting'.result = extracting.result
      BY <1>2, <2>1 DEF Extracting
    <2> QED
      BY <1>1, <1>6, <2>1, <2>2 DEF WriteTemp, ExtractInv, Underway
  <1>7. CASE ReplaceTemp
    <2>1. /\ extracting.at = "replace"
          /\ extracting' = [extracting EXCEPT !.at = "insert"]
          /\ routeFiles' = routeFiles \cup {extracting.result}
      BY <1>7 DEF ReplaceTemp
    <2>2. /\ extracting' \in Extracting /\ extracting'.at = "insert"
          /\ extracting'.map = extracting.map /\ extracting'.sources = extracting.sources
          /\ extracting'.result = extracting.result
      BY <1>2, <2>1 DEF Extracting
    <2>3. Underway(extracting', routeFiles')
      BY <1>1, <2>1, <2>2 DEF Underway
    <2>4. RowsMade(routes, routeFiles')
      BY <1>1, <2>1 DEF RowsMade
    <2> QED
      BY <1>1, <1>7, <2>3, <2>4 DEF ReplaceTemp, ExtractInv
  <1>8. CASE InsertRouteArtifact
    <2>1. /\ extracting.at = "insert"
          /\ extracting' = [extracting EXCEPT !.at = "map"]
      BY <1>8 DEF InsertRouteArtifact
    <2>2. extracting' \in Extracting /\ extracting'.at = "map"
      BY <1>2, <2>1 DEF Extracting
    <2>3. PICK new : new = [map |-> extracting.map, version |-> extracting.version,
                            sources |-> extracting.sources, file |-> extracting.result]
      OBVIOUS
    <2>4. /\ new.map = extracting.map /\ new.version = extracting.version
          /\ Made(new.map, new.sources, new.file) /\ new.file \in routeFiles
      BY <1>1, <2>1, <2>3 DEF Underway
    <2>5. \/ routes' = routes
          \/ /\ ~ \E row \in routes : row.map = new.map /\ row.version = new.version
             /\ routes' = routes \cup {new}
      BY <1>8, <2>3, <2>4 DEF InsertRouteArtifact
    <2>6. RowsMade(routes', routeFiles)
      BY <1>1, <2>4, <2>5 DEF RowsMade
    <2> QED
      BY <1>1, <1>8, <2>2, <2>6 DEF InsertRouteArtifact, ExtractInv, Underway
  <1>9. CASE InsertRaises
    <2>1. extracting' = [extracting EXCEPT !.at = "map"]
      BY <1>9 DEF InsertRaises
    <2>2. extracting' \in Extracting /\ extracting'.at = "map"
      BY <1>2, <2>1 DEF Extracting
    <2> QED
      BY <1>1, <1>9, <2>2 DEF InsertRaises, ExtractInv, Underway
  <1>10. CASE EndExtract \/ KillExtract
    BY <1>1, <1>3, <1>10 DEF EndExtract, KillExtract, ExtractInv, Underway
  <1>11. CASE Recohort
    BY <1>1, <1>11 DEF Recohort, ExtractInv
  <1>12. CASE SidecarChanges
    <2>1. Loadable(sidecar')
      BY <1>1, <1>12 DEF SidecarChanges, Loadable
    <2> QED
      BY <1>1, <1>12, <2>1 DEF SidecarChanges, ExtractInv
  <1>13. CASE UNCHANGED extractVars
    BY <1>1, <1>13 DEF extractVars, ExtractInv
  <1> QED
    BY <1>4, <1>5, <1>6, <1>7, <1>8, <1>9, <1>10, <1>11, <1>12, <1>13 DEF ExtractNext

LEMMA RowsCanBeTrusted == ExtractInv => RoutesTrue
  <1> SUFFICES ASSUME RowsMade(routes, routeFiles) PROVE RoutesTrue
    BY DEF ExtractInv
  <1> SUFFICES ASSUME NEW row \in routes
               PROVE
        LET rs == Ascending(row.sources)
            all == AllSamples(rs)
            from == Smallest(Arcs(all))
            slower == {r \in row.sources : Library[r].duration > Library[row.file.seed].duration}
            faster == {r \in row.sources : Library[r].duration < Library[row.file.seed].duration}
        IN  /\ row.file \in routeFiles
            /\ \A other \in routes :
                   other.map = row.map /\ other.version = row.version => other = row
            /\ Len(rs) >= MinReplays
            /\ \A r \in row.sources : Library[r].map = row.map /\ Library[r].samples # <<>>
            /\ row.file.seed \in row.sources
            /\ 2 * Cardinality(slower) <= Len(rs) /\ 2 * Cardinality(faster) <= Len(rs)
            /\ \A k \in 0 .. (PathLength(all) - 1) \div BinSize :
                   Cardinality(SideBySide(all, k)) > 1
                       <=> \E b \in row.file.branches : b.lo = from + k * BinSize
            /\ \A b \in row.file.branches : b.primary >= MinSamples /\ b.alternates >= MinSamples
    BY DEF RoutesTrue
  <1>1. PICK S, file : S = row.sources /\ file = row.file
    OBVIOUS
  <1>2. Made(row.map, S, file) /\ file \in routeFiles
    BY <1>1 DEF RowsMade
  <1>3. \A other \in routes : other.map = row.map /\ other.version = row.version => other = row
    BY DEF RowsMade
  <1>0. /\ S \in SUBSET DOMAIN Library /\ Cardinality(S) >= MinReplays
        /\ \A r \in S : Library[r].map = row.map /\ Library[r].samples # << >>
        /\ file = Extract(Ascending(S))
    BY <1>2 DEF Made
  <1>4. S # {}
    <2> SUFFICES ASSUME S = {} PROVE FALSE
      OBVIOUS
    <2>1. Cardinality(S) = 0
      BY FS_EmptySet
    <2> QED
      BY <1>0, <2>1, ExtractionAssumption
  <1>5. PICK rs, all, from :
            rs = Ascending(S) /\ all = AllSamples(rs) /\ from = Smallest(Arcs(all))
    OBVIOUS
  <1>6. /\ file.seed \in S /\ Len(rs) = Cardinality(S)
        /\ 2 * Cardinality({r \in S : Library[r].duration > Library[file.seed].duration}) <= Len(rs)
        /\ 2 * Cardinality({r \in S : Library[r].duration < Library[file.seed].duration}) <= Len(rs)
        /\ \A k \in 0 .. (PathLength(all) - 1) \div BinSize :
               Cardinality(SideBySide(all, k)) > 1
                  <=> \E b \in file.branches : b.lo = from + k * BinSize
        /\ \A b \in file.branches : b.primary >= MinSamples /\ b.alternates >= MinSamples
    BY <1>0, <1>4, <1>5, ExtractedRight
  <1> QED
    BY <1>0, <1>1, <1>2, <1>3, <1>5, <1>6

(* A row of route_artifacts can be trusted, whatever is killed, fails or   *)
(* changes between the runs (RoutePipeline._process_map).                  *)
THEOREM RoutesAreTrue ==
    ExtractInit /\ [][ExtractNext]_extractVars => []RoutesTrue
  <1>1. ExtractInv /\ [ExtractNext]_extractVars => ExtractInv'
    BY ExtractKeeps
  <1> QED
    BY <1>1, ExtractStarts, RowsCanBeTrusted, PTL
=============================================================================
