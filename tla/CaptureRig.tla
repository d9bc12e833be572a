----------------------------- MODULE CaptureRig -----------------------------
(***************************************************************************)
(* Driving a batch of maps past the AIReplayTelemetry plugin: the driver   *)
(* tools/capture_replay_telemetry.py (submit, _attempt, capture_one, main) *)
(* and the plugin's ProcessJob (openplanet-plugin/AIReplayTelemetry/       *)
(* Main.as), which loads the map, adds the ghosts and samples them until   *)
(* all are over or a ceiling is reached.  Time is counted in samples.      *)
(* Telemetry is what src/replay/openplanet_adapter.py makes of the frames. *)
(***************************************************************************)
EXTENDS Integers, Sequences, FiniteSets, SequencesExt

CONSTANTS
    Jobs,          \* number of jobs in the manifest
    Ghosts,        \* number of ghosts a job plays (1: the author's)
    Retries,       \* retries of capture_one
    FailureLimit,  \* max_consecutive_failures
    MaxFrames,     \* MAX_FRAMES, and the playback ceiling
    SpawnWait      \* GHOST_SPAWN_WAIT_MS

ASSUME CaptureAssumption ==
    /\ Jobs \in Nat /\ Ghosts \in Nat \ {0} /\ Retries \in Nat
    /\ FailureLimit \in Nat \ {0} /\ SpawnWait \in Nat /\ MaxFrames > SpawnWait

G == 1..Ghosts

VARIABLES
    driver,     \* [at, job, attempt, streak]
    ticket,     \* number of the submission whose in-file was written last (0: none yet)
    answer,     \* the out-file of that submission: NoDoc, or the document
    rig,        \* the plugin: [at, ticket, frames, appeared, seen, over]
    artifacts,  \* telemetry files of the job settled last: [job, ghost, tele]
    tally       \* job -> "ok", "skipped", "failed" or "none"

captureVars == <<driver, ticket, answer, rig, artifacts, tally>>

NoDoc == [state |-> "none"]
Never == [g \in G |-> -1]
\* appeared is what the game shows; seen, over are what the plugin's arrays hold
Waiting == [at |-> "scan", ticket |-> 0, frames |-> 0, appeared |-> Never, seen |-> Never, over |-> {}]

CaptureInit ==
    /\ driver = [at |-> "next", job |-> 0, attempt |-> 0, streak |-> 0]
    /\ ticket = 0 /\ answer = NoDoc
    /\ rig = Waiting /\ artifacts = {}
    /\ tally = [j \in 1..Jobs |-> "none"]

-----------------------------------------------------------------------------
(* telemetry_from_rig_output (src/replay/openplanet_adapter.py): one ghost's frames, as    *)
(* the plugin sampled them, become telemetry.  A frame is [t, x]: game clock and position  *)
(* along one axis (the three are treated alike); x = Origin until the ghost is in the scene. *)

Origin == 0
Unusable == [usable |-> FALSE]

\* anchored: the plugin saw the ghost appear, at an index inside the frames (0-based)
Anchored(frames, start) == start >= 0 /\ start < Len(frames)
Trimmed(frames, start) ==
    IF Anchored(frames, start) THEN SubSeq(frames, start + 1, Len(frames)) ELSE frames
Rebased(frames, start) ==
    LET kept == Trimmed(frames, start) IN
    IF Anchored(frames, start)
    THEN SubSeq([i \in DOMAIN kept |-> [kept[i] EXCEPT !.t = @ - kept[1].t]], 1, Len(kept))
    ELSE kept

\* _velocities: central difference, one-sided at the ends, 0 where the clock stood still;
\* a velocity is the pair <<distance, time>> it is the quotient of
Velocity(frames, i) ==
    LET lo == IF i > 1 THEN i - 1 ELSE i
        hi == IF i < Len(frames) THEN i + 1 ELSE i IN
    IF frames[hi].t - frames[lo].t <= 0 THEN <<0, 1>>
    ELSE <<frames[hi].x - frames[lo].x, frames[hi].t - frames[lo].t>>
Velocities(frames) == [i \in DOMAIN frames |-> Velocity(frames, i)]

\* _checkpoint_indices: the sample nearest in time to each split, the earlier of two
Abs(n) == IF n < 0 THEN -n ELSE n
Nearest(frames, split) ==
    CHOOSE i \in DOMAIN frames : \A j \in DOMAIN frames :
        \/ Abs(frames[i].t - split) < Abs(frames[j].t - split)
        \/ Abs(frames[i].t - split) = Abs(frames[j].t - split) /\ i <= j
CheckpointIndices(frames, splits, anchored) ==
    IF ~anchored THEN <<>> ELSE [k \in DOMAIN splits |-> Nearest(frames, splits[k])]

\* telemetry_from_rig_output of one ghost's record
Adapted(frames, start, splits, finished) ==
    LET kept == Rebased(frames, start) IN
    IF frames = <<>> THEN Unusable
    ELSE [usable |-> TRUE, anchored |-> Anchored(frames, start), samples |-> kept,
          velocities |-> Velocities(kept), finished |-> finished,
          checkpoints |-> CheckpointIndices(kept, splits, Anchored(frames, start))]

-----------------------------------------------------------------------------
(* The plugin. *)

LoadError == [state |-> "doc", loaded |-> FALSE, reason |-> "load_error"]
NoGhost == [state |-> "doc", loaded |-> FALSE, reason |-> "no_author_ghost"]

\* ScanForPending and ReadJson: an in-file without an out-file; submit removes the
\* in-file when it stops waiting
TakeJob ==
    /\ rig.at = "scan" /\ driver.at = "await" /\ answer = NoDoc
    /\ rig' = [Waiting EXCEPT !.at = "load", !.ticket = ticket]
    /\ UNCHANGED <<driver, ticket, answer, artifacts, tally>>

\* every submission has its own file names: the out-file of one the driver has given up
\* is never read
Write(doc) ==
    /\ answer' = IF driver.at = "await" /\ rig.ticket = ticket THEN doc ELSE answer
    /\ rig' = Waiting

\* title API, playground, ghosts: each can fail within its deadline
LoadFails ==
    /\ rig.at = "load"
    /\ \E doc \in {LoadError, NoGhost} : Write(doc)
    /\ UNCHANGED <<driver, ticket, artifacts, tally>>
AddGhosts ==
    /\ rig.at = "load"
    /\ rig' = [rig EXCEPT !.at = "sample"]
    /\ UNCHANGED <<driver, ticket, answer, artifacts, tally>>
\* an exception ends the job without an answer; Main goes on
JobThrows ==
    /\ rig.at # "scan"
    /\ rig' = Waiting
    /\ UNCHANGED <<driver, ticket, answer, artifacts, tally>>

\* one turn of the sampling loop: some ghosts appear, some that have appeared end
Spawned(seen) == {g \in G : seen[g] >= 0}
GaveUp(frames, seen) == Spawned(seen) = {} /\ frames > SpawnWait

\* Mutant: the wait for ghosts ends at SpawnWait for all of them.
SeenGivingUp(frames, seen, visible) ==
    [g \in G |-> IF seen[g] < 0 /\ g \in visible /\ frames <= SpawnWait THEN frames - 1 ELSE seen[g]]

Seen(frames, seen, visible) ==
    [g \in G |-> IF seen[g] < 0 /\ g \in visible THEN frames - 1 ELSE seen[g]]
LoopOver(r) == r.over = G \/ GaveUp(r.frames, r.seen) \/ r.frames = MaxFrames
Sample ==
    /\ rig.at = "sample"
    /\ \E new \in SUBSET (G \ Spawned(rig.appeared)) :
         LET n == rig.frames + 1
             appeared == [g \in G |-> IF g \in new THEN n - 1 ELSE rig.appeared[g]]
             seen == Seen(n, rig.seen, Spawned(appeared)) IN
         \E end \in SUBSET (Spawned(seen) \ rig.over) :
            LET r == [rig EXCEPT !.frames = n, !.appeared = appeared, !.seen = seen,
                                 !.over = @ \cup end] IN
            rig' = IF LoopOver(r) THEN [r EXCEPT !.at = "write"] ELSE r
    /\ UNCHANGED <<driver, ticket, answer, artifacts, tally>>
\* the plugin's own deadline_unix passes
PlaybackDeadline ==
    /\ rig.at = "sample" /\ rig.frames > 0
    /\ rig' = [rig EXCEPT !.at = "write"]
    /\ UNCHANGED <<driver, ticket, answer, artifacts, tally>>

\* ghost g's frames: at the origin until it appears, then it drives
FramesOf(r, g) ==
    [i \in 1..r.frames |-> [t |-> i,
        x |-> IF r.appeared[g] >= 0 /\ i > r.appeared[g] THEN 10 + i ELSE Origin]]
WriteOut ==
    /\ rig.at = "write"
    /\ Write([state |-> "doc", loaded |-> TRUE,
              ghosts |-> [g \in G |-> [frames |-> FramesOf(rig, g), start |-> rig.seen[g],
                                       finished |-> g \in rig.over]]])
    /\ UNCHANGED <<driver, ticket, artifacts, tally>>

-----------------------------------------------------------------------------
(* The driver. *)

\* main: the circuit breaker, then the next job
Breaker(streak) == streak >= FailureLimit
NextJob ==
    /\ driver.at = "next" /\ driver.job < Jobs
    /\ ~Breaker(driver.streak)
    /\ driver' = [driver EXCEPT !.at = "submit", !.job = @ + 1, !.attempt = 1]
    /\ UNCHANGED <<ticket, answer, rig, artifacts, tally>>
BatchEnds ==
    /\ driver.at = "next"
    /\ driver.job = Jobs \/ Breaker(driver.streak)
    /\ driver' = [driver EXCEPT !.at = "ended"]
    /\ UNCHANGED <<ticket, answer, rig, artifacts, tally>>

Submit ==
    /\ driver.at = "submit"
    /\ ticket' = ticket + 1 /\ answer' = NoDoc
    /\ driver' = [driver EXCEPT !.at = "await"]
    /\ UNCHANGED <<rig, artifacts, tally>>

\* _attempt: what the answer amounts to
Splits == <<1, 2>>
TelemetryOf(rec) == Adapted(rec.frames, rec.start, Splits, rec.finished)
AttemptStatus(doc) ==
    IF ~doc.loaded THEN IF doc.reason = "no_author_ghost" THEN "skipped" ELSE "failed"
    ELSE IF doc.ghosts[1].frames = <<>> THEN "failed"
    ELSE IF ~Anchored(doc.ghosts[1].frames, doc.ghosts[1].start) THEN "unanchored" ELSE "ok"

\* capture_one: stop on ok or skipped, else retry while an attempt is left
TryAgain(status) == status \in {"failed", "unanchored"} /\ driver.attempt <= Retries
Retry ==
    /\ driver' = [driver EXCEPT !.at = "submit", !.attempt = @ + 1]
    /\ UNCHANGED <<artifacts, tally>>
Settle(status, files) ==
    /\ tally' = [tally EXCEPT ![driver.job] = status]
    /\ artifacts' = files
    /\ driver' = [driver EXCEPT !.at = "next",
                     !.streak = IF status \in {"ok", "skipped"} THEN 0 ELSE @ + 1]

\* what capture_one writes from the last answer: per ghost in a multi-ghost job (only the
\* anchored ones), else the one record, whose lack of an anchor makes the job a failure
Kept(doc) ==
    IF Ghosts > 1 THEN {g \in G : Anchored(doc.ghosts[g].frames, doc.ghosts[g].start)}
    ELSE {1}
Result(doc) ==
    IF Ghosts > 1 THEN IF Kept(doc) # {} THEN "ok" ELSE "failed"
    ELSE IF TelemetryOf(doc.ghosts[1]).checkpoints # <<>> THEN "ok" ELSE "failed"

Conclude(status, doc) ==
    \/ TryAgain(status) /\ Retry
    \/ ~TryAgain(status) /\ status \in {"failed", "skipped"} /\ Settle(status, {})
    \/ /\ ~TryAgain(status) /\ status \in {"ok", "unanchored"}
       /\ Settle(Result(doc), {[job |-> driver.job, ghost |-> g, tele |-> TelemetryOf(doc.ghosts[g])]
                                 : g \in Kept(doc)})
Await ==
    /\ driver.at = "await" /\ answer # NoDoc
    /\ Conclude(AttemptStatus(answer), answer)
    /\ answer' = NoDoc
    /\ UNCHANGED <<ticket, rig>>

\* Mutant: the deadline runs only once the plugin took the job up.
WallDeadlineIfTaken ==
    /\ driver.at = "await" /\ answer = NoDoc /\ rig.ticket = ticket
    /\ Conclude("failed", NoDoc)
    /\ UNCHANGED <<ticket, answer, rig>>

WallDeadline ==
    /\ driver.at = "await" /\ answer = NoDoc
    /\ Conclude("failed", NoDoc)
    /\ UNCHANGED <<ticket, answer, rig>>

RigStep ==
    TakeJob \/ LoadFails \/ AddGhosts \/ JobThrows \/ Sample \/ PlaybackDeadline \/ WriteOut
DriverStep == NextJob \/ BatchEnds \/ Submit \/ Await \/ WallDeadline
CaptureNext == RigStep \/ DriverStep
CaptureSpec == CaptureInit /\ [][CaptureNext]_captureVars /\ WF_captureVars(DriverStep)

-----------------------------------------------------------------------------
\* A job reported ok has, for every ghost it kept, a clock that starts when the ghost
\* appeared and no velocity computed across its appearance (the "five-figure km/h" of
\* openplanet_adapter.py:165): whatever was played, late spawns and retries included.
OkIsAnchored ==
    \A a \in artifacts : tally[a.job] = "ok" =>
        /\ a.tele.anchored
        /\ a.tele.samples[1].t = 0
        /\ \A i \in DOMAIN a.tele.velocities :
             a.tele.velocities[i][1] <= a.tele.velocities[i][2]

\* A ghost that appeared while the loop ran is anchored at its first frame in the scene,
\* however late: waiting for it is never given up while another ghost drives (the
\* measured loss of 7 of 20 maps, Main.as:583).
LateGhostAnchored == rig.at = "write" => rig.seen = rig.appeared

\* A wedged game costs at most FailureLimit jobs in a row: the batch stops there and
\* leaves the rest for a later run (the circuit breaker, capture_replay_telemetry.py:398).
BreakerStops ==
    \A j, k \in 1..Jobs :
        (j <= k /\ \A i \in j..k : tally[i] = "failed") => k - j < FailureLimit

\* What a capture batch leaves behind can be trusted, and a wedged game ends it: the three
\* conditions above.
CapturesSound == OkIsAnchored /\ LateGhostAnchored /\ BreakerStops

\* Whatever the game does (no answer, errors, ghosts that never appear), the retries and
\* the wall deadline end every job, and the batch ends.
BatchFinishes == driver.at = "submit" ~> driver.at = "ended"
=============================================================================
