------------------------------ MODULE JobStates ------------------------------
(***************************************************************************)
(* The closed status enum of the remote-test queue and the graph of moves  *)
(* JobStore.transition allows, shared by the model of the server           *)
(* (JobStore) and the model of the whole rig (RemoteTestRig).              *)
(***************************************************************************)
CONSTANTS Agents,     \* agent ids
          NoAgent     \* NULL in the agent_id column

Terminal == {"complete", "failed", "timed_out", "cancelled"}

JobStatus == {"queued", "claimed", "running"} \cup Terminal

\* Mutant: a late post is let into a row the server has timed out.
LatePostTransitions(s) ==
    CASE s = "queued"    -> {"claimed", "cancelled", "timed_out"}
      [] s = "claimed"   -> {"running"} \cup Terminal
      [] s = "running"   -> Terminal
      [] s = "timed_out" -> Terminal
      [] OTHER           -> {}

\* The statuses a row in status s may be moved to; terminals have none.
AllowedTransitions(s) ==
    CASE s = "queued"  -> {"claimed", "cancelled", "timed_out"}
      [] s = "claimed" -> {"running"} \cup Terminal
      [] s = "running" -> Terminal
      [] OTHER         -> {}

\* May agent a (NoAgent: the request names none) move this row to `to`?
MayMove(row, to, a) ==
    /\ to \in AllowedTransitions(row.status)
    /\ a # NoAgent => row.agent \in {NoAgent, a}
=============================================================================
