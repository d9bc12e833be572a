----------------------------- MODULE JobLifecycle -----------------------------
(***************************************************************************)
(* What the remote-test queue promises its clients, whatever the server    *)
(* does inside: a job's status only moves forward, its owner is set once   *)
(* and by a claim, its verdict is final, and it is handed to its owner     *)
(* only.  JobStore is shown to implement this when the server is one       *)
(* process.                                                                *)
(***************************************************************************)
EXTENDS Integers, Sequences

CONSTANTS Agents, NoAgent, Reports, NoReport

VARIABLES life,     \* job id -> status, owner and report
          granted   \* <<agent, job>> pairs handed out

Statuses == {"queued", "claimed", "running",
             "complete", "failed", "timed_out", "cancelled"}

\* How far along its life a job is: the order of the JobStatus docstring.
Stage(s) == CASE s = "queued"  -> 0
              [] s = "claimed" -> 1
              [] s = "running" -> 2
              [] OTHER         -> 3

Job == [status : Statuses, owner : Agents \cup {NoAgent},
        report : Reports \cup {NoReport}]

Fresh == [status |-> "queued", owner |-> NoAgent, report |-> NoReport]

\* One job's step: forward to a later stage; an owner appears only when a
\* queued job is claimed; a report, once there, is never removed.
Forward(j, k) ==
    /\ Stage(j.status) < Stage(k.status)
    /\ k.owner # j.owner => /\ j.status = "queued" /\ j.owner = NoAgent
                            /\ k.status = "claimed"
    /\ j.report # NoReport => k.report # NoReport

Init == life = << >> /\ granted = {}

Submit == /\ life' = Append(life, Fresh)
          /\ UNCHANGED granted

\* Any set of jobs moves: one for a claim or a status post, several when
\* the timeouts are swept.
Advance == /\ life' \in [DOMAIN life -> Job]
           /\ \A i \in DOMAIN life :
                 life'[i] = life[i] \/ Forward(life[i], life'[i])
           /\ UNCHANGED granted

Grant(i) == /\ life[i].owner \in Agents
            /\ granted' = granted \cup {<<life[i].owner, i>>}
            /\ UNCHANGED life

Next == Submit \/ Advance \/ \E i \in DOMAIN life : Grant(i)

Spec == Init /\ [][Next]_<<life, granted>>
=============================================================================
