--------------------------- MODULE MCCoordination ---------------------------
(* Coordination for TLC.  Two callers; one call per file at a time, or     *)
(* two posts that overlap.                                                 *)
EXTENDS Coordination, TLC

AllTools == {"inbox_post", "inbox_ack", "inbox_delete", "task_add", "task_claim", "task_handoff",
             "task_update", "task_delete", "agent_register", "agent_remove"}

Symmetric == Permutations(Agents) \cup Permutations(Tasks) \cup Permutations(Msgs)
               \cup Permutations(Callers)
=============================================================================
