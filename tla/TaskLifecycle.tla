----------------------------- MODULE TaskLifecycle ----------------------------
(***************************************************************************)
(* What an executor promises of the tasks it is given, with no queue, no   *)
(* worker and no lock: a task is submitted once, its runnable is called at *)
(* most once and never when the task was cancelled in time, and the status *)
(* the task ends with tells what the runnable did.                         *)
(*                                                                         *)
(* Nothing here says that a task ever ends: TaskExecutor, which implements *)
(* this specification, has tasks that do not.                              *)
(***************************************************************************)
EXTENDS TaskStatus

CONSTANT Tasks

VARIABLES
  status,      \* Task.status
  cancelled,   \* Task.cancelled()
  outcome      \* what the runnable did: "unrun", "none", "value" or "raise"

lvars == <<status, cancelled, outcome>>

Results == {"none", "value", "raise"}

LInit ==
  /\ status = [t \in Tasks |-> "PENDING"]
  /\ cancelled = [t \in Tasks |-> FALSE]
  /\ outcome = [t \in Tasks |-> "unrun"]

Become(t, s) == status' = [status EXCEPT ![t] = s]

Submit(t) ==
  /\ status[t] = "PENDING"
  /\ Become(t, "QUEUED")
  /\ UNCHANGED <<cancelled, outcome>>

Cancel(t) ==
  /\ cancelled' = [cancelled EXCEPT ![t] = TRUE]
  /\ UNCHANGED <<status, outcome>>

\* A task that was cancelled while it waited is dropped.
Drop(t) ==
  /\ status[t] = "QUEUED"
  /\ cancelled[t]
  /\ Become(t, "IGNORED")
  /\ UNCHANGED <<cancelled, outcome>>

Begin(t) ==
  /\ status[t] = "QUEUED"
  /\ outcome[t] = "unrun"
  /\ Become(t, "RUNNING")
  /\ UNCHANGED <<cancelled, outcome>>

\* The runnable returns or raises: once, and only while the task is running.
Return(t, o) ==
  /\ status[t] = "RUNNING"
  /\ outcome[t] = "unrun"
  /\ outcome' = [outcome EXCEPT ![t] = o]
  /\ UNCHANGED <<status, cancelled>>

\* The final status agrees with what the runnable did.
Verdicts(t) ==
  CASE outcome[t] = "raise" -> {"FAILED"}
    [] outcome[t] \in {"none", "value"} ->
         {"SUCCEEDED"} \cup (IF cancelled[t] THEN {"CANCELLED"} ELSE {})
    [] OTHER -> {}

Settle(t) ==
  /\ status[t] = "RUNNING"
  /\ \E s \in Verdicts(t) : Become(t, s)
  /\ UNCHANGED <<cancelled, outcome>>

LNext ==
  \E t \in Tasks :
    \/ Submit(t)
    \/ Cancel(t)
    \/ Drop(t)
    \/ Begin(t)
    \/ \E o \in Results : Return(t, o)
    \/ Settle(t)

LSpec == LInit /\ [][LNext]_lvars
===============================================================================
