----------------------------- MODULE MCJobStore -----------------------------
(* Instances of JobStore for TLC. *)
EXTENDS JobStore, TLC

CONSTANTS t1, t2, w1, w2, a1, a2, x, r1

OneWorker == [t \in {t1, t2} |-> w1]                       \* threaded=True
TwoWorkers == (t1 :> w1) @@ (t2 :> w2)                     \* gunicorn -w 2

AgentStatuses == JobStatus \ {"queued", "claimed"}

\* Thread and agent names are interchangeable when all threads share one
\* worker.
Symmetry == Permutations({t1, t2}) \cup Permutations({a1, a2})
=============================================================================
