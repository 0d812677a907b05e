------------------------------ MODULE TaskStatus ------------------------------
(***************************************************************************)
(* The statuses of a task (nr.appfire.tasks.api.TaskStatus) and the rule   *)
(* by which Task._update accepts or refuses a change of status.            *)
(***************************************************************************)

Idle == {"PENDING", "QUEUED"}

\* TaskStatus.completed: CANCELLED is one of them.
Completed == {"SUCCEEDED", "FAILED", "CANCELLED", "IGNORED"}

Status == Idle \cup {"RUNNING"} \cup Completed

\* The statuses TaskCallbacks.on('end') and on('start') listen for: CANCELLED
\* is in neither.
EndStatuses == {"SUCCEEDED", "FAILED", "IGNORED"}

StartStatuses == {"RUNNING"} \cup EndStatuses

\* Mutant: a result is refused whatever the status.
UpdateRaisesAnyResult(from, to, hasResult, hasError) ==
  \/ to = "FAILED" /\ ~hasError
  \/ hasResult
  \/ from \in Completed /\ from # to
  \/ from = "RUNNING" /\ to \in Idle

(***************************************************************************)
(* Task._update(to, result, error) raises RuntimeError: FAILED without an  *)
(* error, a result with any status but SUCCEEDED, a completed task that    *)
(* changes, a running task that becomes idle again.                        *)
(***************************************************************************)
UpdateRaises(from, to, hasResult, hasError) ==
  \/ to = "FAILED" /\ ~hasError
  \/ hasResult /\ to # "SUCCEEDED"
  \/ from \in Completed /\ from # to
  \/ from = "RUNNING" /\ to \in Idle
===============================================================================
