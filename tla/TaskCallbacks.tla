----------------------------- MODULE TaskCallbacks ----------------------------
(***************************************************************************)
(* The callbacks of one task (nr.appfire.tasks.default.TaskCallbacks): the *)
(* worker updates the status and invokes the callbacks, while other        *)
(* threads, or the callbacks themselves, add and remove some.              *)
(*                                                                         *)
(* The lock is held to set the status, to add, to remove, to take the      *)
(* snapshot of _invoke() and to write back at its end, but not while       *)
(* callbacks run: each of these is one action.                             *)
(***************************************************************************)
EXTENDS TaskStatus, Naturals, FiniteSets

CONSTANTS
  Entries,   \* the calls of add()
  Groups     \* the groups they may name

VARIABLES
  status,      \* Task._status
  callbacks,   \* TaskCallbacks._callbacks
  kind,        \* per entry: condition (the statuses it holds in), once, group
  apc,         \* per entry: where its add() is
  upc,         \* where the worker's _update() is
  copy, todo,  \* _invoke: its copy of the collection, and what is left of its loop
  spent,       \* _invoke: the local `remove'
  runs,        \* per entry: how often its callback ran
  since,       \* per entry: the statuses the task has had from its add() on
  removed      \* the entries a remove(group) has hit

vars == <<status, callbacks, kind, apc, upc, copy, todo, spent, runs, since, removed>>

\* What on() is called with: 'start', 'end', one status, or a list of them.
Conditions ==
  {StartStatuses, EndStatuses, {"CANCELLED"}, {"RUNNING", "SUCCEEDED"}}

Kinds == [condition : Conditions, once : BOOLEAN, group : Groups]

\* The statuses a worker moves a queued task through.
Successors ==
  [s \in Status |->
     CASE s = "QUEUED" -> {"RUNNING", "IGNORED"}
       [] s = "RUNNING" -> {"SUCCEEDED", "CANCELLED"}
       [] OTHER -> {}]

Init ==
  /\ status = "QUEUED"
  /\ callbacks = {}
  /\ kind \in [Entries -> Kinds]
  /\ apc = [e \in Entries |-> "new"]
  /\ upc = "idle"
  /\ copy = {} /\ todo = {} /\ spent = {}
  /\ runs = [e \in Entries |-> 0]
  /\ since = [e \in Entries |-> {}]
  /\ removed = {}

Holds(e) == status \in kind[e].condition

Ran(e) == runs' = [runs EXCEPT ![e] = @ + 1]

-------------------------------------------------------------------------------

\* Mutant: the condition is looked at after the lock is released.
AddUnlocked(e) ==
  /\ apc[e] = "new"
  /\ apc' = [apc EXCEPT ![e] = "added"]
  /\ callbacks' = callbacks \cup {e}
  /\ since' = [since EXCEPT ![e] = {status}]
  /\ UNCHANGED <<status, kind, upc, copy, todo, spent, runs, removed>>

\* add(), under the lock: an entry whose condition holds is not kept.
Add(e) ==
  /\ apc[e] = "new"
  /\ apc' = [apc EXCEPT ![e] = IF Holds(e) THEN "runNow" ELSE "added"]
  /\ callbacks' = IF Holds(e) THEN callbacks ELSE callbacks \cup {e}
  /\ since' = [since EXCEPT ![e] = {status}]
  /\ UNCHANGED <<status, kind, upc, copy, todo, spent, runs, removed>>

\* add(), after the lock.
RunNow(e) ==
  /\ apc[e] = "runNow"
  /\ apc' = [apc EXCEPT ![e] = "ranNow"]
  /\ Ran(e)
  /\ UNCHANGED <<status, callbacks, kind, upc, copy, todo, spent, since, removed>>

Remove(g) ==
  LET hit == {e \in callbacks : kind[e].group = g}
  IN  /\ hit # {}
      /\ callbacks' = callbacks \ hit
      /\ removed' = removed \cup hit
      /\ UNCHANGED <<status, kind, apc, upc, copy, todo, spent, runs, since>>

\* _update(), under the lock.
Update(s) ==
  /\ upc = "idle"
  /\ s \in Successors[status]
  /\ ~UpdateRaises(status, s, FALSE, FALSE)
  /\ status' = s
  /\ since' = [e \in Entries |->
                 IF apc[e] = "new" THEN since[e] ELSE since[e] \cup {s}]
  /\ upc' = "updated"
  /\ UNCHANGED <<callbacks, kind, apc, copy, todo, spent, runs, removed>>

\* _invoke, under the lock: the loop runs over a copy.
InvokeCopy ==
  /\ upc = "updated"
  /\ upc' = "invoking"
  /\ copy' = callbacks
  /\ todo' = callbacks
  /\ spent' = {}
  /\ UNCHANGED <<status, callbacks, kind, apc, runs, since, removed>>

\* Mutant: `once' is not honoured.
InvokeNextKeep(e) ==
  /\ upc = "invoking"
  /\ e \in todo
  /\ todo' = todo \ {e}
  /\ IF Holds(e) THEN Ran(e) ELSE UNCHANGED runs
  /\ UNCHANGED <<status, callbacks, kind, apc, upc, copy, spent, since, removed>>

\* One turn of the loop of _invoke: the copy decides which callback runs.
InvokeNext(e) ==
  /\ upc = "invoking"
  /\ e \in todo
  /\ todo' = todo \ {e}
  /\ IF Holds(e) THEN Ran(e) ELSE UNCHANGED runs
  /\ spent' = IF Holds(e) /\ kind[e].once THEN spent \cup {e} ELSE spent
  /\ UNCHANGED <<status, callbacks, kind, apc, upc, copy, since, removed>>

\* Mutant: the copy, less the spent entries, is written back.
InvokeEndStale ==
  /\ upc = "invoking"
  /\ todo = {}
  /\ upc' = "idle"
  /\ callbacks' = copy \ spent
  /\ copy' = {} /\ spent' = {}
  /\ UNCHANGED <<status, kind, apc, todo, runs, since, removed>>

\* The end of _invoke takes the spent entries out of the collection as it is then.
InvokeEnd ==
  /\ upc = "invoking"
  /\ todo = {}
  /\ upc' = "idle"
  /\ callbacks' = callbacks \ spent
  /\ copy' = {} /\ spent' = {}
  /\ UNCHANGED <<status, kind, apc, todo, runs, since, removed>>

Next ==
  \/ \E e \in Entries : Add(e) \/ RunNow(e) \/ InvokeNext(e)
  \/ \E g \in Groups : Remove(g)
  \/ \E s \in Status : Update(s)
  \/ InvokeCopy
  \/ InvokeEnd

\* The worker finishes what it began, and so does add().
Spec ==
  /\ Init /\ [][Next]_vars
  /\ WF_vars(InvokeCopy)
  /\ WF_vars(InvokeEnd)
  /\ \A e \in Entries : WF_vars(InvokeNext(e)) /\ WF_vars(RunNow(e))

-------------------------------------------------------------------------------

TypeOK ==
  /\ status \in Status
  /\ callbacks \subseteq Entries
  /\ kind \in [Entries -> Kinds]
  /\ apc \in [Entries -> {"new", "added", "runNow", "ranNow"}]
  /\ upc \in {"idle", "updated", "invoking"}
  /\ copy \subseteq Entries /\ todo \subseteq copy /\ spent \subseteq Entries
  /\ runs \in [Entries -> Nat]
  /\ since \in [Entries -> SUBSET Status]
  /\ removed \subseteq Entries

Matches(e) == Cardinality(since[e] \cap kind[e].condition)

\* However add() and _update() interleave, a callback runs as often as its
\* condition came true after add(), at most once for `once', and exactly once
\* when the condition held already; only remove() may take runs away.
RunsAsRegistered ==
  upc = "idle" =>
    \A e \in Entries \ removed :
      CASE apc[e] \in {"new", "runNow"} -> runs[e] = 0
        [] apc[e] = "ranNow" -> runs[e] = 1
        [] apc[e] = "added" ->
             runs[e] = IF kind[e].once /\ Matches(e) > 1 THEN 1 ELSE Matches(e)

\* Between two invocations the collection is what was added, less what remove()
\* hit and the `once' entries that ran: _invoke brings nothing back that was
\* removed meanwhile and loses nothing that was added meanwhile.
CollectionIsExact ==
  upc = "idle" =>
    callbacks = {e \in Entries : apc[e] = "added" /\ ~(kind[e].once /\ runs[e] > 0)} \ removed

\* A callback whose group was removed may still run in the _invoke that had
\* copied it, and in no later one.
RemovedIsNotCopiedAgain ==
  [][upc = "updated" /\ upc' = "invoking" => copy' \cap removed = {}]_vars

\* A callback for 'end' is called in the end, unless it is removed; not if the
\* task was cancelled, which 'end' does not include.
EndIsReported ==
  \A e \in Entries :
    apc[e] # "new" /\ kind[e].condition = EndStatuses /\ status \in Completed
      ~> runs[e] > 0 \/ status = "CANCELLED" \/ e \in removed
===============================================================================
