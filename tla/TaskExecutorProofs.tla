-------------------------- MODULE TaskExecutorProofs --------------------------
(***************************************************************************)
(* Theorems about TaskExecutor, for any number of tasks, clients, workers  *)
(* and stoppers.                                                           *)
(*                                                                         *)
(* 1. The variables keep their types and _current counts the workers that  *)
(*    run: proved together, since only the count keeps _current from       *)
(*    falling below zero.                                                  *)
(* 2. No more workers are spawned than there are callers of execute().     *)
(* 3. After the loop of shutdown() there is a stop token for every worker  *)
(*    it knew that is still alive.                                         *)
(* 4. No two threads work on one task, no queued task is lost, and a task  *)
(*    is stranded only by a result that could not be reported.  Proved     *)
(*    together with StagesAgree: that a popped task has no other holder    *)
(*    follows from its place in the heap and that it may start from its    *)
(*    status, and each step moves both.                                    *)
(* 5. _total counts the tasks.                                             *)
(* 6. A task cancelled in the heap is never run.                           *)
(* 7. The executor implements TaskLifecycle.                               *)
(***************************************************************************)
EXTENDS TaskExecutor, FiniteSetTheorems, SequenceTheorems, TLAPS

CountInv == TypeOK /\ CurrentCountsRunners

\* A worker that changes its place without entering or leaving the counted part
\* leaves the count as it is.
LEMMA SameCount ==
  ASSUME NEW w \in Workers, NEW p, wpc \in [Workers -> WorkerPC],
         wpc' = [wpc EXCEPT ![w] = p], wpc[w] \in CountedPC <=> p \in CountedPC
  PROVE  Counted' = Counted
BY DEF Counted

\* Spurious and real wake-ups: waiting workers are not counted before or after.
LEMMA NotifyKeepsCount ==
  ASSUME wpc \in [Workers -> WorkerPC], NotifyOne \/ NotifyAll
  PROVE  Counted' = Counted
<1>1. CASE NotifyOne
  BY <1>1 DEF NotifyOne, Counted, CountedPC, Waiting
<1>2. CASE NotifyAll
  BY <1>2 DEF NotifyAll, Counted, CountedPC, Waiting
<1> QED BY <1>1, <1>2

\* Facts about the sizes of finite sets that the counts below keep needing.
LEMMA DisjointUnion ==
  ASSUME NEW S, NEW T, IsFiniteSet(S), IsFiniteSet(T), S \cap T = {}
  PROVE  /\ IsFiniteSet(S \cup T)
         /\ Cardinality(S \cup T) = Cardinality(S) + Cardinality(T)
<1>1. Cardinality(S \cup T) = Cardinality(S) + Cardinality(T) - Cardinality(S \cap T)
  BY FS_Union
<1>2. Cardinality(S \cap T) = 0
  BY FS_EmptySet
<1>3. Cardinality(S) \in Nat /\ Cardinality(T) \in Nat
  BY FS_CardinalityType
<1> QED BY <1>1, <1>2, <1>3, FS_Union

LEMMA AtMostOneMore ==
  ASSUME NEW S, NEW x, IsFiniteSet(S)
  PROVE  /\ Cardinality(S \cup {x}) \in Nat
         /\ Cardinality(S \cup {x}) <= Cardinality(S) + 1
<1>1. IsFiniteSet(S \cup {x}) /\ Cardinality(S) \in Nat
  BY FS_AddElement, FS_CardinalityType
<1>2. Cardinality(S \cup {x}) \in {Cardinality(S), Cardinality(S) + 1}
  BY FS_AddElement
<1> QED BY <1>1, <1>2

LEMMA IntervalGrows ==
  ASSUME NEW n \in Nat \ {0}
  PROVE  1..n = 1..(n - 1) \cup {n}
OBVIOUS

LEMMA CountedFinite ==
  /\ IsFiniteSet(Counted)
  /\ Cardinality(Counted) \in Nat
  /\ Cardinality(Counted) = 0 <=> Counted = {}
BY ExecutorAssumption, FS_Subset, FS_CardinalityType, FS_EmptySet DEF Counted

\* The worker that begins to run a task joins the count, with one more in
\* _current.
LEMMA TakeCounts ==
  ASSUME NEW w \in Workers, CountInv, Take(w)
  PROVE  CurrentCountsRunners'
<1>1. Counted' = Counted \cup {w} /\ w \notin Counted
  BY DEF CountInv, TypeOK, WorkersTypeOK, Take, WorkerAt, Counted, CountedPC
<1>2. Cardinality(Counted') = Cardinality(Counted) + 1
  BY <1>1, CountedFinite, FS_AddElement
<1> QED BY <1>2 DEF CountInv, CurrentCountsRunners, Take

\* The worker that is done with its task leaves it: _current was not zero.
LEMMA DoneCounts ==
  ASSUME NEW w \in Workers, CountInv, DecCurrent(w)
  PROVE  CurrentCountsRunners' /\ current' \in Nat
<1>1. Counted' = Counted \ {w} /\ w \in Counted
  BY DEF CountInv, TypeOK, WorkersTypeOK, DecCurrent, WorkerAt, Counted, CountedPC
<1>2. Cardinality(Counted') = Cardinality(Counted) - 1
  BY <1>1, CountedFinite, FS_RemoveElement
<1>3. Cardinality(Counted) \in Nat \ {0}
  BY <1>1, CountedFinite
<1> QED BY <1>2, <1>3 DEF CountInv, CurrentCountsRunners, DecCurrent

\* What leaves the variables of a group alone leaves its types alone.
LEMMA UnchangedTypes ==
  ASSUME TypeOK
  PROVE  /\ UNCHANGED taskVars => TasksTypeOK'
         /\ UNCHANGED queueVars => QueueTypeOK'
         /\ UNCHANGED poolVars => PoolTypeOK'
         /\ UNCHANGED clientVars => ClientsTypeOK'
         /\ UNCHANGED workerVars => WorkersTypeOK'
         /\ UNCHANGED stopVars => StoppersTypeOK'
         /\ UNCHANGED <<wpc, current>> /\ CurrentCountsRunners => CurrentCountsRunners'
<1>1. UNCHANGED taskVars => TasksTypeOK'
  BY DEF TypeOK, TasksTypeOK, taskVars
<1>2. UNCHANGED queueVars => QueueTypeOK'
  BY DEF TypeOK, QueueTypeOK, queueVars
<1>3. UNCHANGED poolVars => PoolTypeOK'
  BY DEF TypeOK, PoolTypeOK, poolVars
<1>4. UNCHANGED clientVars => ClientsTypeOK'
  BY DEF TypeOK, ClientsTypeOK, clientVars
<1>5. UNCHANGED workerVars => WorkersTypeOK'
  BY DEF TypeOK, WorkersTypeOK, workerVars
<1>6. UNCHANGED stopVars => StoppersTypeOK'
  BY DEF TypeOK, StoppersTypeOK, stopVars
<1>7. UNCHANGED <<wpc, current>> /\ CurrentCountsRunners => CurrentCountsRunners'
  BY DEF CurrentCountsRunners, Counted
<1> QED BY <1>1, <1>2, <1>3, <1>4, <1>5, <1>6, <1>7

\* The initial state, group by group.
LEMMA InitTypes ==
  ASSUME Init
  PROVE  CountInv
<1> USE DEF Init
<1>1. TasksTypeOK
  BY ExecutorAssumption DEF ExecutorAssumption, TasksTypeOK, Status, Idle
<1>2. QueueTypeOK
  BY DEF QueueTypeOK
<1>3. pool \in Seq(Workers)
  OBVIOUS
<1>4. shutdown \in BOOLEAN
  OBVIOUS
<1>5. ClientsTypeOK
  BY DEF ClientsTypeOK, ClientPC
<1>6. WorkersTypeOK
  BY DEF WorkersTypeOK, WorkerPC, Status, Idle, HoldingPC, BeforeStart, WhileRunning,
           AfterRun
<1>7. StoppersTypeOK
  BY DEF StoppersTypeOK, StopPC
<1>8. now \in 1..MaxTime
  BY ExecutorAssumption DEF ExecutorAssumption
<1>9. Counted = {}
  BY DEF Counted, CountedPC
<1> QED
  BY <1>1, <1>2, <1>3, <1>4, <1>5, <1>6, <1>7, <1>8, <1>9, FS_EmptySet
     DEF CountInv, TypeOK, PoolTypeOK, CurrentCountsRunners

\* execute(), from its entry to its end.
LEMMA ClientTypes ==
  ASSUME NEW c \in Clients, CountInv, (\E t \in Tasks : Execute(c, t)) \/ ClientStep(c)
  PROVE  CountInv'
<1> USE DEF CountInv, TypeOK
<1>1. ASSUME NEW t \in Tasks, Execute(c, t) PROVE CountInv'
  <2>1. TasksTypeOK'
    BY <1>1 DEF Execute, Status, Idle, TasksTypeOK
  <2>2. ClientsTypeOK'
    BY <1>1 DEF Execute, ClientAt, ClientsTypeOK, ClientPC
  <2>3. CurrentCountsRunners'
    BY <1>1, UnchangedTypes DEF Execute, workerVars, queueVars
  <2> QED BY <1>1, <2>1, <2>2, <2>3, UnchangedTypes DEF Execute
<1>2. ASSUME PutHeap(c) PROVE CountInv'
  <2>1. QueueTypeOK'
    BY <1>2 DEF PutHeap, ClientAt, ClientsTypeOK, QueueTypeOK
  <2>2. ClientsTypeOK'
    BY <1>2 DEF PutHeap, ClientAt, ClientsTypeOK, ClientPC
  <2>3. CurrentCountsRunners'
    BY <1>2, UnchangedTypes DEF PutHeap, workerVars, queueVars
  <2> QED BY <1>2, <2>1, <2>2, <2>3, UnchangedTypes DEF PutHeap
<1>3. ASSUME PutCount(c) PROVE CountInv'
  <2>1. QueueTypeOK'
    BY <1>3 DEF PutCount, QueueTypeOK
  <2>2. ClientsTypeOK'
    BY <1>3 DEF PutCount, ClientAt, ClientsTypeOK, ClientPC
  <2>3. WorkersTypeOK'
    BY <1>3 DEF PutCount, WorkerAt, WorkersTypeOK, WorkerPC, HoldingPC, BeforeStart,
           WhileRunning, AfterRun, NotifyOne, Waiting
  <2>4. CurrentCountsRunners'
    BY <1>3, NotifyKeepsCount DEF PutCount, WorkersTypeOK, CurrentCountsRunners
  <2> QED BY <1>3, <2>1, <2>2, <2>3, <2>4, UnchangedTypes DEF PutCount
<1>4. ASSUME CheckSize(c) PROVE CountInv'
  <2>1. ClientsTypeOK'
    BY <1>4 DEF CheckSize, ClientAt, ClientsTypeOK, ClientPC
  <2>2. CurrentCountsRunners'
    BY <1>4, UnchangedTypes DEF CheckSize, workerVars, queueVars
  <2> QED BY <1>4, <2>1, <2>2, UnchangedTypes DEF CheckSize
<1>5. ASSUME NEW w \in Workers, Spawn(c, w) PROVE CountInv'
  <2>1. ClientsTypeOK'
    BY <1>5 DEF Spawn, ClientAt, ClientsTypeOK, ClientPC
  <2>2. WorkersTypeOK'
    BY <1>5 DEF Spawn, WorkerAt, WorkersTypeOK, WorkerPC, HoldingPC, BeforeStart,
           WhileRunning, AfterRun
  <2>3. CurrentCountsRunners'
    <3>1. Counted' = Counted
      BY <1>5 DEF Spawn, WorkerAt, Counted, CountedPC, WorkersTypeOK
    <3> QED BY <3>1, <1>5 DEF Spawn, CurrentCountsRunners, queueVars
  <2> QED BY <1>5, <2>1, <2>2, <2>3, UnchangedTypes DEF Spawn
<1>6. ASSUME AppendWorker(c) PROVE CountInv'
  <2>1. pool' \in Seq(Workers)
    BY <1>6 DEF AppendWorker, ClientAt, ClientsTypeOK, PoolTypeOK
  <2>2. shutdown' \in BOOLEAN
    BY <1>6 DEF AppendWorker, PoolTypeOK
  <2>3. ClientsTypeOK'
    BY <1>6 DEF AppendWorker, ClientAt, ClientsTypeOK, ClientPC
  <2>4. CurrentCountsRunners'
    BY <1>6, UnchangedTypes DEF AppendWorker, workerVars, queueVars
  <2>5. PoolTypeOK'
    BY <2>1, <2>2 DEF PoolTypeOK
  <2> QED BY <1>6, <2>3, <2>4, <2>5, UnchangedTypes DEF AppendWorker
<1> QED BY <1>1, <1>2, <1>3, <1>4, <1>5, <1>6
        DEF ClientStep

\* _mainloop(), action by action.
LEMMA WorkerTypes ==
  ASSUME NEW w \in Workers, CountInv, WorkerStep(w)
  PROVE  CountInv'
<1> USE DEF CountInv, TypeOK
<1>1. ASSUME GetStop(w) PROVE CountInv'
  <2>1. QueueTypeOK'
    BY <1>1 DEF GetStop, QueueTypeOK
  <2>2. WorkersTypeOK'
    BY <1>1 DEF GetStop, WorkerAt, WorkersTypeOK, WorkerPC, HoldingPC, BeforeStart,
           WhileRunning, AfterRun
  <2>3. CurrentCountsRunners'
    <3>1. Counted' = Counted
      BY <1>1 DEF GetStop, WorkerAt, Counted, CountedPC, WorkersTypeOK
    <3> QED BY <3>1, <1>1 DEF GetStop, CurrentCountsRunners, queueVars
  <2> QED BY <1>1, <2>1, <2>2, <2>3, UnchangedTypes DEF GetStop
<1>2. ASSUME NEW t \in Tasks, GetTask(w, t) PROVE CountInv'
  <2>1. QueueTypeOK'
    BY <1>2 DEF GetTask, QueueTypeOK
  <2>2. WorkersTypeOK'
    BY <1>2 DEF GetTask, WorkerAt, WorkersTypeOK, WorkerPC, HoldingPC, BeforeStart,
           WhileRunning, AfterRun
  <2>3. CurrentCountsRunners'
    <3>1. Counted' = Counted
      BY <1>2 DEF GetTask, WorkerAt, Counted, CountedPC, WorkersTypeOK
    <3> QED BY <3>1, <1>2 DEF GetTask, CurrentCountsRunners, queueVars
  <2> QED BY <1>2, <2>1, <2>2, <2>3, UnchangedTypes DEF GetTask
<1>3. ASSUME Take(w) PROVE CountInv'
  <2>1. QueueTypeOK'
    BY <1>3 DEF Take, QueueTypeOK
  <2>2. WorkersTypeOK'
    BY <1>3 DEF Take, WorkerAt, WorkersTypeOK, WorkerPC, HoldingPC, BeforeStart,
           WhileRunning, AfterRun
  <2>3. CurrentCountsRunners'
    BY <1>3, TakeCounts
  <2> QED BY <1>3, <2>1, <2>2, <2>3, UnchangedTypes DEF Take
<1>4. ASSUME Defer(w) PROVE CountInv'
  <2>1. QueueTypeOK'
    BY <1>4 DEF Defer, WorkerAt, WorkersTypeOK, HoldingPC, BeforeStart, QueueTypeOK
  <2>2. WorkersTypeOK'
    BY <1>4 DEF Defer, WorkerAt, WorkersTypeOK, WorkerPC, HoldingPC, BeforeStart,
           WhileRunning, AfterRun
  <2>3. CurrentCountsRunners'
    <3>1. Counted' = Counted
      BY <1>4 DEF Defer, WorkerAt, Counted, CountedPC, WorkersTypeOK
    <3> QED BY <3>1, <1>4 DEF Defer, CurrentCountsRunners, queueVars
  <2> QED BY <1>4, <2>1, <2>2, <2>3, UnchangedTypes DEF Defer
<1>5. ASSUME WaitTimeout(w) PROVE CountInv'
  <2>1. WorkersTypeOK'
    BY <1>5 DEF WaitTimeout, WorkerAt, WorkersTypeOK, WorkerPC, HoldingPC,
           BeforeStart, WhileRunning, AfterRun
  <2>2. CurrentCountsRunners'
    <3>1. Counted' = Counted
      BY <1>5 DEF WaitTimeout, WorkerAt, Counted, CountedPC, WorkersTypeOK
    <3> QED BY <3>1, <1>5 DEF WaitTimeout, CurrentCountsRunners, queueVars
  <2> QED BY <1>5, <2>1, <2>2, UnchangedTypes DEF WaitTimeout
<1>6. ASSUME Ignore(w) PROVE CountInv'
  <2>1. TasksTypeOK'
    BY <1>6 DEF Ignore, TasksTypeOK, Report, Status, Idle, Completed
  <2>2. WorkersTypeOK'
    BY <1>6 DEF Ignore, WorkerAt, WorkersTypeOK, WorkerPC, HoldingPC, BeforeStart,
           WhileRunning, AfterRun
  <2>3. CurrentCountsRunners'
    <3>1. Counted' = Counted
      BY <1>6 DEF Ignore, WorkerAt, Counted, CountedPC, WorkersTypeOK
    <3> QED BY <3>1, <1>6 DEF Ignore, CurrentCountsRunners, queueVars
  <2> QED BY <1>6, <2>1, <2>2, <2>3, UnchangedTypes DEF Ignore
<1>7. ASSUME Accept(w) PROVE CountInv'
  <2>1. WorkersTypeOK'
    BY <1>7 DEF Accept, WorkerAt, WorkersTypeOK, WorkerPC, HoldingPC, BeforeStart,
           WhileRunning, AfterRun
  <2>2. CurrentCountsRunners'
    <3>1. Counted' = Counted
      BY <1>7 DEF Accept, WorkerAt, Counted, CountedPC, WorkersTypeOK
    <3> QED BY <3>1, <1>7 DEF Accept, CurrentCountsRunners, queueVars
  <2> QED BY <1>7, <2>1, <2>2, UnchangedTypes DEF Accept
<1>8. ASSUME SetCurrent(w) PROVE CountInv'
  <2>1. WorkersTypeOK'
    BY <1>8 DEF SetCurrent, WorkerAt, WorkersTypeOK, WorkerPC, HoldingPC,
           BeforeStart, WhileRunning, AfterRun
  <2>2. CurrentCountsRunners'
    <3>1. Counted' = Counted
      BY <1>8 DEF SetCurrent, WorkerAt, Counted, CountedPC, WorkersTypeOK
    <3> QED BY <3>1, <1>8 DEF SetCurrent, CurrentCountsRunners, queueVars
  <2> QED BY <1>8, <2>1, <2>2, UnchangedTypes DEF SetCurrent
<1>9. ASSUME StartRun(w) PROVE CountInv'
  <2>1. TasksTypeOK'
    BY <1>9 DEF StartRun, TasksTypeOK, Report, Status, Idle, Completed
  <2>2. WorkersTypeOK'
    BY <1>9 DEF StartRun, WorkerAt, WorkersTypeOK, WorkerPC, HoldingPC, BeforeStart,
           WhileRunning, AfterRun
  <2>3. CurrentCountsRunners'
    <3>1. Counted' = Counted
      BY <1>9 DEF StartRun, WorkerAt, Counted, CountedPC, WorkersTypeOK
    <3> QED BY <3>1, <1>9 DEF StartRun, CurrentCountsRunners, queueVars
  <2> QED BY <1>9, <2>1, <2>2, <2>3, UnchangedTypes DEF StartRun
<1>10. ASSUME NEW o \in Outcomes, FinishRun(w, o) PROVE CountInv'
  <2>1. TasksTypeOK'
    BY <1>10 DEF FinishRun, TasksTypeOK
  <2>2. WorkersTypeOK'
    BY <1>10 DEF FinishRun, WorkerAt, WorkersTypeOK, WorkerPC, HoldingPC,
           BeforeStart, WhileRunning, AfterRun, Status, Idle, Completed
  <2>3. CurrentCountsRunners'
    <3>1. Counted' = Counted
      BY <1>10 DEF FinishRun, WorkerAt, Counted, CountedPC, WorkersTypeOK
    <3> QED BY <3>1, <1>10 DEF FinishRun, CurrentCountsRunners, queueVars
  <2> QED BY <1>10, <2>1, <2>2, <2>3, UnchangedTypes DEF FinishRun
<1>11. ASSUME Settle(w) PROVE CountInv'
  <2>1. TasksTypeOK'
    BY <1>11 DEF Settle, TasksTypeOK, Report, WorkersTypeOK
  <2>2. WorkersTypeOK'
    BY <1>11 DEF Settle, WorkerAt, WorkersTypeOK, WorkerPC, HoldingPC, BeforeStart,
           WhileRunning, AfterRun, Status, Idle
  <2>3. CurrentCountsRunners'
    <3>1. Counted' = Counted
      BY <1>11 DEF Settle, WorkerAt, Counted, CountedPC, WorkersTypeOK
    <3> QED BY <3>1, <1>11 DEF Settle, CurrentCountsRunners, queueVars
  <2> QED BY <1>11, <2>1, <2>2, <2>3, UnchangedTypes DEF Settle
<1>12. ASSUME ClearCurrent(w) PROVE CountInv'
  <2>1. WorkersTypeOK'
    BY <1>12 DEF ClearCurrent, WorkerAt, WorkersTypeOK, WorkerPC, HoldingPC,
           BeforeStart, WhileRunning, AfterRun
  <2>2. CurrentCountsRunners'
    <3>1. Counted' = Counted
      BY <1>12 DEF ClearCurrent, WorkerAt, Counted, CountedPC, WorkersTypeOK
    <3> QED BY <3>1, <1>12 DEF ClearCurrent, CurrentCountsRunners, queueVars
  <2> QED BY <1>12, <2>1, <2>2, UnchangedTypes DEF ClearCurrent
<1>13. ASSUME DecCurrent(w) PROVE CountInv'
  <2>1. CurrentCountsRunners' /\ current' \in Nat
    BY <1>13, DoneCounts
  <2>2. QueueTypeOK'
    BY <1>13, <2>1 DEF DecCurrent, QueueTypeOK
  <2>3. WorkersTypeOK'
    BY <1>13 DEF DecCurrent, WorkerAt, WorkersTypeOK, WorkerPC, HoldingPC, BeforeStart,
           WhileRunning, AfterRun
  <2> QED BY <1>13, <2>1, <2>2, <2>3, UnchangedTypes DEF DecCurrent
<1>14. ASSUME DecTotal(w) PROVE CountInv'
  <2>1. QueueTypeOK'
    BY <1>14 DEF DecTotal, QueueTypeOK
  <2>2. WorkersTypeOK'
    BY <1>14 DEF DecTotal, WorkerAt, WorkersTypeOK, WorkerPC, HoldingPC,
           BeforeStart, WhileRunning, AfterRun
  <2>3. CurrentCountsRunners'
    <3>1. Counted' = Counted
      BY <1>14 DEF DecTotal, WorkerAt, Counted, CountedPC, WorkersTypeOK
    <3> QED BY <3>1, <1>14 DEF DecTotal, CurrentCountsRunners, queueVars
  <2> QED BY <1>14, <2>1, <2>2, <2>3, UnchangedTypes DEF DecTotal
<1> QED BY <1>1, <1>2, <1>3, <1>4, <1>5, <1>6, <1>7, <1>8, <1>9, <1>10, <1>11,
           <1>12, <1>13, <1>14
        DEF WorkerStep

\* shutdown(), from its entry to its end.
LEMMA StopperTypes ==
  ASSUME NEW s \in Stoppers, CountInv, (\E cancel \in BOOLEAN : Shutdown(s, cancel)) \/ StopperStep(s)
  PROVE  CountInv'
<1> USE DEF CountInv, TypeOK
<1>1. ASSUME NEW cancel \in BOOLEAN, Shutdown(s, cancel) PROVE CountInv'
  <2>1. StoppersTypeOK'
    BY <1>1 DEF Shutdown, StopperAt, StoppersTypeOK, StopPC
  <2>2. CurrentCountsRunners'
    BY <1>1, UnchangedTypes DEF Shutdown, workerVars, queueVars
  <2> QED BY <1>1, <2>1, <2>2, UnchangedTypes DEF Shutdown
<1>2. ASSUME SetShutdown(s) PROVE CountInv'
  <2>1. pool' \in Seq(Workers)
    BY <1>2 DEF SetShutdown, PoolTypeOK
  <2>2. shutdown' \in BOOLEAN
    BY <1>2 DEF SetShutdown, PoolTypeOK
  <2>3. StoppersTypeOK'
    BY <1>2 DEF SetShutdown, StopperAt, StoppersTypeOK, StopPC
  <2>4. CurrentCountsRunners'
    BY <1>2, UnchangedTypes DEF SetShutdown, workerVars, queueVars
  <2>5. PoolTypeOK'
    BY <2>1, <2>2 DEF PoolTypeOK
  <2> QED BY <1>2, <2>3, <2>4, <2>5, UnchangedTypes DEF SetShutdown
<1>3. ASSUME CancelRunning(s) PROVE CountInv'
  <2>1. TasksTypeOK'
    BY <1>3 DEF CancelRunning, TasksTypeOK
  <2>2. StoppersTypeOK'
    BY <1>3 DEF CancelRunning, StopperAt, StoppersTypeOK, StopPC
  <2>3. CurrentCountsRunners'
    BY <1>3, UnchangedTypes DEF CancelRunning, workerVars, queueVars
  <2> QED BY <1>3, <2>1, <2>2, <2>3, UnchangedTypes DEF CancelRunning
<1>4. ASSUME PutStop(s) PROVE CountInv'
  <2>1. QueueTypeOK'
    BY <1>4 DEF PutStop, QueueTypeOK
  <2>2. WorkersTypeOK'
    BY <1>4 DEF PutStop, WorkerAt, WorkersTypeOK, WorkerPC, HoldingPC, BeforeStart,
           WhileRunning, AfterRun, NotifyAll, Waiting
  <2>3. StoppersTypeOK'
    BY <1>4 DEF PutStop, StopperAt, StoppersTypeOK, StopPC
  <2>4. CurrentCountsRunners'
    BY <1>4, NotifyKeepsCount DEF PutStop, WorkersTypeOK, CurrentCountsRunners
  <2> QED BY <1>4, <2>1, <2>2, <2>3, <2>4, UnchangedTypes DEF PutStop
<1>5. ASSUME EndLoop(s) PROVE CountInv'
  <2>1. StoppersTypeOK'
    BY <1>5 DEF EndLoop, StopperAt, StoppersTypeOK, StopPC
  <2>2. CurrentCountsRunners'
    BY <1>5, UnchangedTypes DEF EndLoop, workerVars, queueVars
  <2> QED BY <1>5, <2>1, <2>2, UnchangedTypes DEF EndLoop
<1>6. ASSUME JoinCurrent(s) PROVE CountInv'
  <2>1. StoppersTypeOK'
    BY <1>6 DEF JoinCurrent, StopperAt, StoppersTypeOK, StopPC
  <2>2. CurrentCountsRunners'
    BY <1>6, UnchangedTypes DEF JoinCurrent, workerVars, queueVars
  <2> QED BY <1>6, <2>1, <2>2, UnchangedTypes DEF JoinCurrent
<1> QED BY <1>1, <1>2, <1>3, <1>4, <1>5, <1>6
        DEF StopperStep

\* Every step keeps the types and the count.
LEMMA TypeAndCountStep == CountInv /\ [Next]_vars => CountInv'
<1> SUFFICES ASSUME CountInv, [Next]_vars PROVE CountInv'
  OBVIOUS
<1>1. CASE \E c \in Clients : (\E t \in Tasks : Execute(c, t)) \/ ClientStep(c)
  BY <1>1, ClientTypes
<1>2. CASE \E w \in Workers : WorkerStep(w)
  BY <1>2, WorkerTypes
<1>3. CASE \E s \in Stoppers : (\E cancel \in BOOLEAN : Shutdown(s, cancel)) \/ StopperStep(s)
  BY <1>3, StopperTypes
<1>4. ASSUME NEW t \in Tasks, CancelTask(t) PROVE CountInv'
  <2>1. TasksTypeOK'
    BY <1>4 DEF CancelTask, CountInv, TypeOK, TasksTypeOK
  <2> QED BY <1>4, <2>1, UnchangedTypes DEF CancelTask, CountInv, TypeOK, queueVars, workerVars
<1>5. CASE Tick
  <2>1. now' \in 1..MaxTime
    BY <1>5, ExecutorAssumption DEF Tick, CountInv, TypeOK, ExecutorAssumption
  <2> QED BY <1>5, <2>1, UnchangedTypes DEF Tick, CountInv, TypeOK, queueVars, workerVars
<1>6. CASE UNCHANGED vars
  BY <1>6, UnchangedTypes DEF vars, CountInv, TypeOK, queueVars, workerVars
<1> QED BY <1>1, <1>2, <1>3, <1>4, <1>5, <1>6 DEF Next

\* The types and the count of running workers, for every reachable state.
THEOREM TypeAndCount == Spec => []CountInv
<1>1. Init => CountInv
  BY InitTypes
<1> QED BY <1>1, TypeAndCountStep, PTL DEF Spec

\* The variables keep their types, neither counter falls below zero, and no thread
\* is where it needs a task or a worker without one.
THEOREM TypeCorrect == Spec => []TypeOK
BY TypeAndCount, PTL DEF CountInv

\* _current, on which a blocking shutdown() waits, is the number of workers that
\* are between get() and task_done(), whatever the interleaving and also when
\* exceptions unwind.
THEOREM CurrentExact == Spec => []CurrentCountsRunners
BY TypeAndCount, PTL DEF CountInv
-------------------------------------------------------------------------------
(* 2. The workers that were spawned.                                        *)

Spawning == {c \in Clients : cpc[c] = "spawn"}
Appending == {c \in Clients : cpc[c] = "append"}

\* While the pool is empty, each worker was spawned by a client that has not yet
\* appended it; afterwards only the clients that had seen it empty still spawn.
SpawnInv ==
  IF pool = <<>>
    THEN Cardinality(Spawned) = Cardinality(Appending)
    ELSE Cardinality(Spawned) + Cardinality(Spawning) <= Cardinality(Clients)

LEMMA PoolSetsFinite ==
  /\ IsFiniteSet(Spawned) /\ Cardinality(Spawned) \in Nat
  /\ IsFiniteSet(Spawning) /\ Cardinality(Spawning) \in Nat
  /\ IsFiniteSet(Appending) /\ Cardinality(Appending) \in Nat
  /\ IsFiniteSet(Clients) /\ Cardinality(Clients) \in Nat
BY ExecutorAssumption, FS_Subset, FS_CardinalityType
   DEF ExecutorAssumption, Spawned, Spawning, Appending

\* A worker that is running stays spawned; its step takes at most one stop token,
\* and only by ending.
LEMMA WorkerMoves ==
  ASSUME NEW w \in Workers, CountInv, WorkerStep(w)
  PROVE  /\ UNCHANGED <<poolVars, clientVars, stopVars>>
         /\ \E p \in WorkerPC \ {"off"} :
              /\ wpc' = [wpc EXCEPT ![w] = p] /\ wpc[w] \notin {"off", "stopped", "dead"}
              /\ stops' = stops \/ (p = "stopped" /\ stops' = stops - 1)
BY DEF WorkerStep, GetStop, GetTask, Take, Defer, WaitTimeout, Ignore, Accept, SetCurrent,
       StartRun, FinishRun, Settle, ClearCurrent, DecCurrent, DecTotal, WorkerAt, WorkerPC,
       queueVars

\* A notified worker goes on, it does not begin or end.
LEMMA NotifyMoves ==
  ASSUME CountInv, NotifyOne \/ NotifyAll
  PROVE  /\ wpc' \in [Workers -> WorkerPC]
         /\ \A w \in Workers : wpc'[w] = wpc[w] \/ (wpc[w] = "wait" /\ wpc'[w] = "get")
BY DEF CountInv, TypeOK, WorkersTypeOK, NotifyOne, NotifyAll, Waiting, WorkerPC

\* No other step than Spawn makes a worker.
LEMMA OnlySpawnSpawns ==
  ASSUME CountInv, [Next]_vars, ~ \E c \in Clients, w \in Workers : Spawn(c, w)
  PROVE  Spawned' = Spawned
<1> USE DEF CountInv, TypeOK, WorkersTypeOK
<1>1. CASE \E w \in Workers : WorkerStep(w)
  BY <1>1, WorkerMoves DEF Spawned
<1>2. CASE \E c \in Clients : PutCount(c)
  BY <1>2, NotifyMoves DEF PutCount, Spawned
<1>3. CASE \E s \in Stoppers : PutStop(s)
  BY <1>3, NotifyMoves DEF PutStop, Spawned
<1>4. CASE UNCHANGED wpc
  BY <1>4 DEF Spawned
<1> QED
  BY <1>1, <1>2, <1>3, <1>4
     DEF Next, Execute, CancelTask, Shutdown, ClientStep, PutHeap, CheckSize, AppendWorker,
         StopperStep, SetShutdown, CancelRunning, EndLoop, JoinCurrent, Tick, vars, workerVars

\* The client that spawns, from "spawn" to "append".
LEMMA SpawnCounts ==
  ASSUME CountInv, SpawnInv, NEW c \in Clients, NEW w \in Workers, Spawn(c, w)
  PROVE  SpawnInv'
<1> USE DEF CountInv, TypeOK, ClientsTypeOK, WorkersTypeOK
<1>1. Spawned' = Spawned \cup {w} /\ w \notin Spawned
  BY DEF Spawn, ClientAt, Spawned
<1>2. Spawning' = Spawning \ {c} /\ c \in Spawning
  BY DEF Spawn, ClientAt, Spawning
<1>3. Appending' = Appending \cup {c} /\ c \notin Appending
  BY DEF Spawn, ClientAt, Appending
<1>4. /\ Cardinality(Spawned') = Cardinality(Spawned) + 1
      /\ Cardinality(Spawning') = Cardinality(Spawning) - 1
      /\ Cardinality(Appending') = Cardinality(Appending) + 1
  BY <1>1, <1>2, <1>3, PoolSetsFinite, FS_AddElement, FS_RemoveElement
<1>5. pool' = pool
  BY DEF Spawn, poolVars
<1> QED BY <1>4, <1>5, PoolSetsFinite DEF SpawnInv

\* The first client that appends its worker closes the door: those that have spawned
\* and those that will are different clients.
LEMMA AppendCounts ==
  ASSUME CountInv, SpawnInv, NEW c \in Clients, AppendWorker(c)
  PROVE  SpawnInv'
<1> USE DEF CountInv, TypeOK, ClientsTypeOK
<1>1. Spawned' = Spawned /\ Spawning' = Spawning
  BY DEF AppendWorker, ClientAt, Spawned, Spawning, workerVars
<1>2. pool' # <<>>
  BY DEF AppendWorker, ClientAt, PoolTypeOK
<1>3. Cardinality(Appending) + Cardinality(Spawning) <= Cardinality(Clients)
  <2>1. Appending \cap Spawning = {} /\ Appending \cup Spawning \in SUBSET Clients
    BY DEF Appending, Spawning
  <2>2. Cardinality(Appending \cup Spawning) = Cardinality(Appending) + Cardinality(Spawning)
    BY <2>1, PoolSetsFinite, DisjointUnion
  <2>3. Cardinality(Appending \cup Spawning) <= Cardinality(Clients)
    BY <2>1, PoolSetsFinite, FS_Subset
  <2> QED BY <2>2, <2>3
<1> QED BY <1>1, <1>2, <1>3, PoolSetsFinite DEF SpawnInv

LEMMA SpawnStep == CountInv /\ SpawnInv /\ [Next]_vars => SpawnInv'
<1> SUFFICES ASSUME CountInv, SpawnInv, [Next]_vars PROVE SpawnInv'
  OBVIOUS
<1> USE DEF CountInv, TypeOK, ClientsTypeOK
<1>1. CASE \E c \in Clients, w \in Workers : Spawn(c, w)
  BY <1>1, SpawnCounts
<1>2. CASE \E c \in Clients : AppendWorker(c)
  BY <1>2, AppendCounts
<1>3. ASSUME ~ \E c \in Clients, w \in Workers : Spawn(c, w), NEW c \in Clients, CheckSize(c)
      PROVE  SpawnInv'
  <2>1. Spawned' = Spawned /\ pool' = pool /\ Appending' = Appending
    BY <1>3, OnlySpawnSpawns DEF CheckSize, ClientAt, Appending, poolVars
  <2>2. pool # <<>> => Spawning' = Spawning
    BY <1>3, EmptySeq, LenProperties DEF CheckSize, ClientAt, Spawning, AllTasks, PoolTypeOK
  <2> QED BY <2>1, <2>2 DEF SpawnInv
<1>4. ASSUME Spawned' = Spawned, pool' = pool, Spawning' = Spawning, Appending' = Appending
      PROVE  SpawnInv'
  BY <1>4 DEF SpawnInv
<1>5. ASSUME ~ \E c \in Clients, w \in Workers : Spawn(c, w), UNCHANGED <<pool, cpc>>
      PROVE  SpawnInv'
  BY <1>4, <1>5, OnlySpawnSpawns DEF Spawning, Appending
<1>6. ASSUME NEW c \in Clients, (\E t \in Tasks : Execute(c, t)) \/ PutHeap(c) \/ PutCount(c),
             ~ \E d \in Clients, w \in Workers : Spawn(d, w)
      PROVE  SpawnInv'
  BY <1>4, <1>6, OnlySpawnSpawns
     DEF Execute, PutHeap, PutCount, ClientAt, Spawning, Appending, poolVars
<1>7. ASSUME NEW w \in Workers, WorkerStep(w) PROVE UNCHANGED <<pool, cpc>>
  BY <1>7, WorkerMoves DEF poolVars, clientVars
<1> QED
  BY <1>1, <1>2, <1>3, <1>5, <1>6, <1>7
     DEF Next, CancelTask, Shutdown, ClientStep, StopperStep, SetShutdown, CancelRunning,
         PutStop, EndLoop, JoinCurrent, Tick, vars, poolVars, clientVars

LEMMA InitSpawn == Init => SpawnInv
<1> SUFFICES ASSUME Init PROVE SpawnInv
  OBVIOUS
<1>1. Spawned = {} /\ Appending = {} /\ pool = <<>>
  BY DEF Init, Spawned, Appending
<1> QED BY <1>1 DEF SpawnInv

\* As many workers as callers of execute() may be spawned at most, whatever max_workers:
\* a caller spawns only while it finds the pool empty, which no caller does twice.
THEOREM SpawnsBounded == Spec => []SpawnsBoundedByCallers
<1>1. SpawnInv => SpawnsBoundedByCallers
  <2>1. Appending \in SUBSET Clients
    BY DEF Appending
  <2>2. Cardinality(Appending) <= Cardinality(Clients)
    BY <2>1, PoolSetsFinite, FS_Subset
  <2> QED BY <2>2, PoolSetsFinite DEF SpawnInv, SpawnsBoundedByCallers, Spawned
<1> QED BY <1>1, InitSpawn, SpawnStep, TypeAndCount, PTL DEF Spec
-------------------------------------------------------------------------------
(* 3. The stop tokens.                                                      *)

\* The workers that will not take another stop token.
Finished == {w \in Workers : wpc[w] \in {"stopped", "dead"}}

\* The loop of shutdown() stays in the pool, and every worker it has reached has a
\* token in the queue or has taken one, or another worker has taken it or has died.
TokenInv ==
  \A s \in Stoppers :
    /\ sidx[s] <= Len(pool) + 1
    /\ spc[s] = "stop" => sidx[s] <= Len(pool)
    /\ stops + Cardinality(Finished) >= Cardinality(Reached(s))

LEMMA ReachedFinite ==
  ASSUME CountInv, NEW s \in Stoppers, sidx[s] <= Len(pool) + 1
  PROVE  /\ Reached(s) \in SUBSET Workers
         /\ IsFiniteSet(Reached(s)) /\ Cardinality(Reached(s)) \in Nat
<1> USE DEF CountInv, TypeOK, PoolTypeOK, StoppersTypeOK
<1>1. \A i \in 1..(sidx[s] - 1) : pool[i] \in Workers
  BY ElementOfSeq, LenProperties
<1>2. Reached(s) \in SUBSET Workers
  BY <1>1 DEF Reached
<1> QED BY <1>2, ExecutorAssumption, FS_Subset, FS_CardinalityType DEF ExecutorAssumption

LEMMA FinishedFinite ==
  /\ Finished \in SUBSET Workers
  /\ IsFiniteSet(Finished) /\ Cardinality(Finished) \in Nat
BY ExecutorAssumption, FS_Subset, FS_CardinalityType DEF ExecutorAssumption, Finished

\* A worker's step: a token that leaves the queue makes a finished worker.
LEMMA WorkerKeepsTokens ==
  ASSUME CountInv, TokenInv, NEW w \in Workers, WorkerStep(w)
  PROVE  TokenInv'
<1> USE DEF CountInv, TypeOK, QueueTypeOK, WorkersTypeOK
<1>1. PICK p \in WorkerPC \ {"off"} :
        /\ wpc' = [wpc EXCEPT ![w] = p] /\ wpc[w] \notin {"off", "stopped", "dead"}
        /\ stops' = stops \/ (p = "stopped" /\ stops' = stops - 1)
  BY WorkerMoves
<1>2. UNCHANGED <<pool, spc, sidx>>
  BY WorkerMoves DEF poolVars, stopVars
<1>3. \A s \in Stoppers : Reached(s)' = Reached(s)
  BY <1>2 DEF Reached
<1>4. stops' + Cardinality(Finished') >= stops + Cardinality(Finished)
  <2>1. CASE p \in {"stopped", "dead"}
    <3>1. Finished' = Finished \cup {w} /\ w \notin Finished
      BY <1>1, <2>1 DEF Finished
    <3>2. Cardinality(Finished') = Cardinality(Finished) + 1
      BY <3>1, FinishedFinite, FS_AddElement
    <3> QED BY <1>1, <3>2, FinishedFinite
  <2>2. CASE p \notin {"stopped", "dead"}
    <3>1. Finished' = Finished
      BY <1>1, <2>2 DEF Finished
    <3> QED BY <1>1, <2>2, <3>1, FinishedFinite
  <2> QED BY <2>1, <2>2
<1>5. stops' \in Nat /\ IsFiniteSet(Finished') /\ Cardinality(Finished') \in Nat
  <2>1. Finished' \in SUBSET Workers
    BY DEF Finished
  <2>2. stops' \in Nat
    BY WorkerTypes DEF CountInv, TypeOK, QueueTypeOK
  <2> QED BY <2>1, <2>2, ExecutorAssumption, FS_Subset, FS_CardinalityType DEF ExecutorAssumption
<1> SUFFICES ASSUME NEW s \in Stoppers
             PROVE  stops' + Cardinality(Finished') >= Cardinality(Reached(s)')
  BY <1>2 DEF TokenInv
<1>6. Cardinality(Reached(s)) \in Nat /\ stops + Cardinality(Finished) >= Cardinality(Reached(s))
  BY ReachedFinite DEF TokenInv
<1> QED BY <1>3, <1>4, <1>5, <1>6, FinishedFinite

\* The loop's step: one more token for one more worker reached, at most.
LEMMA PutStopKeepsTokens ==
  ASSUME CountInv, TokenInv, NEW s \in Stoppers, PutStop(s)
  PROVE  TokenInv'
<1> USE DEF CountInv, TypeOK, QueueTypeOK, PoolTypeOK, StoppersTypeOK
<1>1. /\ spc[s] = "stop" /\ spc' = [spc EXCEPT ![s] = "loop"]
      /\ sidx' = [sidx EXCEPT ![s] = sidx[s] + 1]
      /\ stops' = stops + 1 /\ pool' = pool
  BY DEF PutStop, StopperAt, poolVars
<1>2. Finished' = Finished
  BY NotifyMoves DEF PutStop, Finished
<1>3. sidx[s] <= Len(pool) /\ sidx[s] \in Nat \ {0}
  BY <1>1 DEF TokenInv
<1>4. Reached(s)' = Reached(s) \cup {pool[sidx[s]]}
  <2>1. 1..sidx[s] = 1..(sidx[s] - 1) \cup {sidx[s]}
    BY <1>3, IntervalGrows
  <2>2. sidx'[s] - 1 = sidx[s]
    BY <1>1, <1>3
  <2> QED BY <1>1, <2>1, <2>2 DEF Reached
<1>5. Cardinality(Reached(s)') <= Cardinality(Reached(s)) + 1 /\ Cardinality(Reached(s)') \in Nat
  <2>1. IsFiniteSet(Reached(s)) /\ Cardinality(Reached(s)) \in Nat
    BY <1>3, ReachedFinite DEF TokenInv
  <2> QED BY <1>4, <2>1, AtMostOneMore
<1> SUFFICES ASSUME NEW r \in Stoppers
             PROVE  /\ sidx'[r] <= Len(pool) + 1
                    /\ spc'[r] = "stop" => sidx'[r] <= Len(pool)
                    /\ stops' + Cardinality(Finished) >= Cardinality(Reached(r)')
  BY <1>1, <1>2 DEF TokenInv
<1>6. CASE r = s
  <2>1. Cardinality(Reached(s)) \in Nat /\ stops + Cardinality(Finished) >= Cardinality(Reached(s))
    BY <1>3, ReachedFinite DEF TokenInv
  <2>2. sidx'[r] <= Len(pool) + 1 /\ spc'[r] = "loop"
    BY <1>1, <1>3, <1>6, LenProperties
  <2> QED BY <1>1, <1>5, <1>6, <2>1, <2>2, FinishedFinite
<1>7. CASE r # s
  <2>1. Reached(r)' = Reached(r) /\ sidx'[r] = sidx[r] /\ spc'[r] = spc[r]
    BY <1>1, <1>7 DEF Reached
  <2>2. Cardinality(Reached(r)) \in Nat
    BY ReachedFinite DEF TokenInv
  <2> QED BY <1>1, <2>1, <2>2, FinishedFinite DEF TokenInv
<1> QED BY <1>6, <1>7

\* A worker joins the pool behind every loop's back.
LEMMA AppendKeepsTokens ==
  ASSUME CountInv, TokenInv, NEW c \in Clients, AppendWorker(c)
  PROVE  TokenInv'
<1> USE DEF CountInv, TypeOK, ClientsTypeOK, PoolTypeOK, StoppersTypeOK
<1>1. UNCHANGED <<wpc, stops, spc, sidx>> /\ pool' = Append(pool, cworker[c])
  BY DEF AppendWorker, workerVars, queueVars, stopVars
<1>2. /\ Len(pool') = Len(pool) + 1
      /\ \A i \in 1..Len(pool) : pool'[i] = pool[i]
  BY <1>1, AppendProperties DEF AppendWorker, ClientAt
<1>3. ASSUME NEW s \in Stoppers PROVE Reached(s)' = Reached(s)
  <2>1. 1..(sidx[s] - 1) \in SUBSET (1..Len(pool))
    BY LenProperties DEF TokenInv
  <2> QED BY <1>1, <1>2, <2>1 DEF Reached
<1>4. Len(pool) \in Nat
  BY LenProperties
<1> QED BY <1>1, <1>2, <1>3, <1>4 DEF TokenInv, Finished

LEMMA TokenStep == CountInv /\ TokenInv /\ [Next]_vars => TokenInv'
<1> SUFFICES ASSUME CountInv, TokenInv, [Next]_vars PROVE TokenInv'
  OBVIOUS
<1> USE DEF CountInv, TypeOK, PoolTypeOK, StoppersTypeOK
<1>1. CASE \E w \in Workers : WorkerStep(w)
  BY <1>1, WorkerKeepsTokens
<1>2. CASE \E s \in Stoppers : PutStop(s)
  BY <1>2, PutStopKeepsTokens
<1>3. CASE \E c \in Clients : AppendWorker(c)
  BY <1>3, AppendKeepsTokens
<1>4. ASSUME Finished' = Finished, UNCHANGED <<stops, pool, sidx>>,
             \A s \in Stoppers : spc'[s] = "stop" => spc[s] = "stop" \/ sidx[s] <= Len(pool)
      PROVE  TokenInv'
  BY <1>4 DEF TokenInv, Reached
<1>5. ASSUME UNCHANGED <<wpc, stops, pool, sidx>>,
             \A s \in Stoppers : spc'[s] = "stop" => spc[s] = "stop" \/ sidx[s] <= Len(pool)
      PROVE  TokenInv'
  BY <1>4, <1>5 DEF Finished
<1>6. ASSUME NEW c \in Clients, PutCount(c) PROVE TokenInv'
  BY <1>4, <1>6, NotifyMoves DEF PutCount, Finished, poolVars, stopVars
<1>7. ASSUME NEW c \in Clients, NEW w \in Workers, Spawn(c, w) PROVE TokenInv'
  BY <1>4, <1>7 DEF Spawn, Finished, WorkersTypeOK, queueVars, poolVars, stopVars
<1>8. ASSUME NEW s \in Stoppers,
             (\E cancel \in BOOLEAN : Shutdown(s, cancel)) \/ SetShutdown(s) \/ CancelRunning(s)
               \/ EndLoop(s) \/ JoinCurrent(s)
      PROVE  TokenInv'
  BY <1>5, <1>8 DEF Shutdown, SetShutdown, CancelRunning, EndLoop, JoinCurrent, StopperAt,
       workerVars, queueVars, poolVars
<1>9. ASSUME UNCHANGED <<wpc, stops, pool, spc, sidx>> PROVE TokenInv'
  BY <1>5, <1>9
<1>10. ASSUME NEW c \in Clients, (\E t \in Tasks : Execute(c, t)) \/ PutHeap(c) \/ CheckSize(c)
       PROVE  TokenInv'
  BY <1>9, <1>10 DEF Execute, PutHeap, CheckSize, workerVars, queueVars, poolVars, stopVars
<1>11. CASE Tick \/ (\E t \in Tasks : CancelTask(t)) \/ UNCHANGED vars
  BY <1>9, <1>11 DEF Tick, CancelTask, vars, workerVars, queueVars, poolVars, stopVars
<1> QED
  BY <1>1, <1>2, <1>3, <1>6, <1>7, <1>8, <1>10, <1>11 DEF Next, ClientStep, StopperStep

LEMMA InitTokens == Init => TokenInv
<1> SUFFICES ASSUME Init, NEW s \in Stoppers
             PROVE  /\ sidx[s] <= Len(pool) + 1
                    /\ spc[s] # "stop"
                    /\ stops + Cardinality(Finished) >= Cardinality(Reached(s))
  BY DEF TokenInv
<1>1. sidx[s] = 1 /\ pool = <<>> /\ spc[s] = "idle" /\ stops = 0 /\ Finished = {}
  BY DEF Init, Finished
<1>2. Reached(s) = {}
  BY <1>1 DEF Reached
<1> QED BY <1>1, <1>2, FS_EmptySet, EmptySeq

\* A finished worker took a token at most, so those a stopper reached and that live on
\* have theirs still in the queue, also with several threads inside shutdown().
LEMMA EnoughTokens == CountInv /\ TokenInv => TokensCoverLiveWorkers
<1> SUFFICES ASSUME CountInv, TokenInv, NEW s \in Stoppers, Spawned \subseteq Reached(s)
             PROVE  stops >= Cardinality({w \in Spawned : ~Ended(w)})
  BY DEF TokensCoverLiveWorkers
<1> DEFINE Live == {w \in Spawned : ~Ended(w)}
<1>1. Live \cup Finished = Spawned /\ Live \cap Finished = {} /\ Live \in SUBSET Workers
  BY DEF Spawned, Ended, Finished, CountInv, TypeOK, WorkersTypeOK
<1>2. IsFiniteSet(Live) /\ Cardinality(Live) \in Nat
  BY <1>1, ExecutorAssumption, FS_Subset, FS_CardinalityType DEF ExecutorAssumption
<1>3. Cardinality(Spawned) = Cardinality(Live) + Cardinality(Finished)
  <2>1. Cardinality(Live \cup Finished) = Cardinality(Live) + Cardinality(Finished)
    BY <1>1, <1>2, FinishedFinite, DisjointUnion
  <2> QED BY <1>1, <2>1
<1>4. /\ IsFiniteSet(Reached(s)) /\ Cardinality(Reached(s)) \in Nat
      /\ stops + Cardinality(Finished) >= Cardinality(Reached(s))
  BY ReachedFinite DEF TokenInv
<1>5. Cardinality(Spawned) <= Cardinality(Reached(s))
  BY <1>4, FS_Subset
<1>6. stops >= Cardinality(Live)
  BY <1>2, <1>3, <1>4, <1>5, FinishedFinite DEF CountInv, TypeOK, QueueTypeOK
<1> QED BY <1>6

\* After the loop of a shutdown() that knew every worker there is a stop token for
\* each worker still alive, so no task that is still queued is ever started.
THEOREM TokensSuffice == Spec => []TokensCoverLiveWorkers
BY InitTokens, TokenStep, EnoughTokens, TypeAndCount, PTL DEF Spec

-------------------------------------------------------------------------------
(* 4. Where the tasks are.                                                  *)

OwnInv ==
  /\ OneHolder
  /\ QueuedTaskIsSomewhere
  /\ RunningForeverIsUnreportable
  /\ StagesAgree

\* The places of a worker are told apart by the sets of them.
LEMMA Places ==
  ASSUME NEW w \in Workers, CountInv
  PROVE  /\ Holding(w) <=> wpc[w] \in BeforeStart \cup WhileRunning \cup AfterRun
         /\ Holding(w) => wtask[w] \in Tasks
         /\ status \in [Tasks -> Status]
BY DEF Holding, HoldingPC, CountInv, TypeOK, WorkersTypeOK, TasksTypeOK

LEMMA OwnUnchanged ==
  ASSUME OwnInv, UNCHANGED <<status, cancelled, outcome, queue, cpc, ctask, wpc, wtask, verdict>>
  PROVE  OwnInv'
BY DEF OwnInv, OneHolder, QueuedTaskIsSomewhere, RunningForeverIsUnreportable,
       StagesAgree, Holding, Unreportable, Unstarted, VerdictIsTrue

\* execute(), from its entry to its end.
LEMMA ClientOwns ==
  ASSUME NEW c \in Clients, CountInv, OwnInv,
         (\E t \in Tasks : Execute(c, t)) \/ ClientStep(c)
  PROVE  OwnInv'
<1> USE ExecutorAssumption DEF CountInv, TypeOK, OwnInv, ExecutorAssumption
<1>1. ASSUME NEW t \in Tasks, Execute(c, t) PROVE OwnInv'
  <2>1. OneHolder'
    <3>1. /\ queue' = queue /\ wpc' = wpc /\ wtask' = wtask
          /\ ctask' = [ctask EXCEPT ![c] = t] /\ cpc' = [cpc EXCEPT ![c] = "put"]
          /\ status[t] = "PENDING"
      BY <1>1 DEF Execute, ClientAt, queueVars, workerVars
    <3>2. t \notin queue /\ \A d \in Clients : ctask[d] # t
      BY <3>1, ExecutorAssumption DEF StagesAgree, Unstarted, ExecutorAssumption
    <3>3. \A w \in Workers : Holding(w) => wtask[w] # t
      BY <3>1 DEF StagesAgree, Unstarted, Holding, HoldingPC, WhileRunning, Completed
    <3> QED BY <3>1, <3>2, <3>3 DEF OneHolder, Holding, ClientsTypeOK
  <2>2. QueuedTaskIsSomewhere'
    BY <1>1 DEF Execute, ClientAt, taskVars, queueVars, workerVars, poolVars,
           QueuedTaskIsSomewhere, StagesAgree, Unstarted, HoldingPC, BeforeStart,
           WhileRunning, AfterRun, TasksTypeOK, ClientsTypeOK, WorkersTypeOK
  <2>3. RunningForeverIsUnreportable'
    BY <1>1 DEF Execute, ClientAt, taskVars, queueVars, workerVars, poolVars,
           RunningForeverIsUnreportable, StagesAgree, Unreportable, Holding,
           Completed, HoldingPC, BeforeStart, WhileRunning, AfterRun, TasksTypeOK,
           ClientsTypeOK, WorkersTypeOK
  <2>4. StagesAgree'
    BY <1>1 DEF Execute, ClientAt, taskVars, queueVars, workerVars, poolVars,
           StagesAgree, OneHolder, Unstarted, Unreportable, VerdictIsTrue, Holding,
           Completed, HoldingPC, BeforeStart, WhileRunning, AfterRun, TasksTypeOK,
           ClientsTypeOK, WorkersTypeOK
  <2> QED BY <2>1, <2>2, <2>3, <2>4
<1>2. ASSUME PutHeap(c) PROVE OwnInv'
  <2>1. OneHolder'
    BY <1>2 DEF PutHeap, ClientAt, taskVars, queueVars, workerVars, poolVars,
           OneHolder, StagesAgree, Unstarted, Holding, HoldingPC, BeforeStart,
           WhileRunning, AfterRun, TasksTypeOK, ClientsTypeOK, WorkersTypeOK
  <2>2. QueuedTaskIsSomewhere'
    BY <1>2 DEF PutHeap, ClientAt, taskVars, queueVars, workerVars, poolVars,
           QueuedTaskIsSomewhere, StagesAgree, Unstarted, HoldingPC, BeforeStart,
           WhileRunning, AfterRun, TasksTypeOK, ClientsTypeOK, WorkersTypeOK
  <2>3. RunningForeverIsUnreportable'
    BY <1>2 DEF PutHeap, ClientAt, taskVars, queueVars, workerVars, poolVars,
           RunningForeverIsUnreportable, StagesAgree, Unreportable, Holding,
           Completed, HoldingPC, BeforeStart, WhileRunning, AfterRun, TasksTypeOK,
           ClientsTypeOK, WorkersTypeOK
  <2>4. StagesAgree'
    BY <1>2 DEF PutHeap, ClientAt, taskVars, queueVars, workerVars, poolVars,
           StagesAgree, OneHolder, Unstarted, Unreportable, VerdictIsTrue, Holding,
           Completed, HoldingPC, BeforeStart, WhileRunning, AfterRun, TasksTypeOK,
           ClientsTypeOK, WorkersTypeOK
  <2> QED BY <2>1, <2>2, <2>3, <2>4
<1>3. ASSUME PutCount(c) PROVE OwnInv'
  <2>1. OneHolder'
    BY <1>3 DEF PutCount, ClientAt, taskVars, queueVars, workerVars, poolVars,
           NotifyOne, Waiting, OneHolder, StagesAgree, Unstarted, Holding,
           HoldingPC, BeforeStart, WhileRunning, AfterRun, TasksTypeOK,
           ClientsTypeOK, WorkersTypeOK
  <2>2. QueuedTaskIsSomewhere'
    BY <1>3 DEF PutCount, ClientAt, taskVars, queueVars, workerVars, poolVars,
           NotifyOne, Waiting, QueuedTaskIsSomewhere, StagesAgree, Unstarted,
           HoldingPC, BeforeStart, WhileRunning, AfterRun, TasksTypeOK,
           ClientsTypeOK, WorkersTypeOK
  <2>3. RunningForeverIsUnreportable'
    BY <1>3 DEF PutCount, ClientAt, taskVars, queueVars, workerVars, poolVars,
           NotifyOne, Waiting, RunningForeverIsUnreportable, StagesAgree,
           Unreportable, Holding, Completed, HoldingPC, BeforeStart, WhileRunning,
           AfterRun, TasksTypeOK, ClientsTypeOK, WorkersTypeOK
  <2>4. StagesAgree'
    BY <1>3 DEF PutCount, ClientAt, taskVars, queueVars, workerVars, poolVars,
           NotifyOne, Waiting, StagesAgree, OneHolder, Unstarted, Unreportable,
           VerdictIsTrue, Holding, Completed, HoldingPC, BeforeStart, WhileRunning,
           AfterRun, TasksTypeOK, ClientsTypeOK, WorkersTypeOK
  <2> QED BY <2>1, <2>2, <2>3, <2>4
<1>4. ASSUME CheckSize(c) PROVE OwnInv'
  <2>1. OneHolder'
    BY <1>4 DEF CheckSize, ClientAt, taskVars, queueVars, workerVars, poolVars,
           OneHolder, StagesAgree, Unstarted, Holding, HoldingPC, BeforeStart,
           WhileRunning, AfterRun, TasksTypeOK, ClientsTypeOK, WorkersTypeOK
  <2>2. QueuedTaskIsSomewhere'
    BY <1>4 DEF CheckSize, ClientAt, taskVars, queueVars, workerVars, poolVars,
           QueuedTaskIsSomewhere, StagesAgree, Unstarted, HoldingPC, BeforeStart,
           WhileRunning, AfterRun, TasksTypeOK, ClientsTypeOK, WorkersTypeOK
  <2>3. RunningForeverIsUnreportable'
    BY <1>4 DEF CheckSize, ClientAt, taskVars, queueVars, workerVars, poolVars,
           RunningForeverIsUnreportable, StagesAgree, Unreportable, Holding,
           Completed, HoldingPC, BeforeStart, WhileRunning, AfterRun, TasksTypeOK,
           ClientsTypeOK, WorkersTypeOK
  <2>4. StagesAgree'
    <3>1. UNCHANGED <<status, cancelled, outcome, queue, wpc, wtask, verdict>>
      BY <1>4 DEF CheckSize, taskVars, queueVars, workerVars
    <3>2. \A d \in Clients : /\ ctask'[d] = ctask[d] \/ ctask'[d] = None
                             /\ cpc'[d] = "put" => cpc[d] = "put" /\ ctask'[d] = ctask[d]
      BY <1>4 DEF CheckSize, ClientAt, ClientsTypeOK
    <3> QED BY <3>1, <3>2 DEF StagesAgree, Unstarted, Unreportable, VerdictIsTrue
  <2> QED BY <2>1, <2>2, <2>3, <2>4
<1>5. ASSUME NEW w \in Workers, Spawn(c, w) PROVE OwnInv'
  <2>1. OneHolder'
    BY <1>5 DEF Spawn, ClientAt, taskVars, queueVars, workerVars, poolVars,
           OneHolder, StagesAgree, Unstarted, Holding, HoldingPC, BeforeStart,
           WhileRunning, AfterRun, TasksTypeOK, ClientsTypeOK, WorkersTypeOK
  <2>2. QueuedTaskIsSomewhere'
    BY <1>5 DEF Spawn, ClientAt, taskVars, queueVars, workerVars, poolVars,
           QueuedTaskIsSomewhere, StagesAgree, Unstarted, HoldingPC, BeforeStart,
           WhileRunning, AfterRun, TasksTypeOK, ClientsTypeOK, WorkersTypeOK
  <2>3. RunningForeverIsUnreportable'
    BY <1>5 DEF Spawn, ClientAt, taskVars, queueVars, workerVars, poolVars,
           RunningForeverIsUnreportable, StagesAgree, Unreportable, Holding,
           Completed, HoldingPC, BeforeStart, WhileRunning, AfterRun, TasksTypeOK,
           ClientsTypeOK, WorkersTypeOK
  <2>4. StagesAgree'
    BY <1>5 DEF Spawn, ClientAt, taskVars, queueVars, workerVars, poolVars,
           StagesAgree, OneHolder, Unstarted, Unreportable, VerdictIsTrue, Holding,
           Completed, HoldingPC, BeforeStart, WhileRunning, AfterRun, TasksTypeOK,
           ClientsTypeOK, WorkersTypeOK
  <2> QED BY <2>1, <2>2, <2>3, <2>4
<1>6. ASSUME AppendWorker(c) PROVE OwnInv'
  <2>1. OneHolder'
    BY <1>6 DEF AppendWorker, ClientAt, taskVars, queueVars, workerVars, poolVars,
           OneHolder, StagesAgree, Unstarted, Holding, HoldingPC, BeforeStart,
           WhileRunning, AfterRun, TasksTypeOK, ClientsTypeOK, WorkersTypeOK
  <2>2. QueuedTaskIsSomewhere'
    <3>1. UNCHANGED <<status, queue, wpc, wtask>>
      BY <1>6 DEF AppendWorker, taskVars, queueVars, workerVars
    <3>2. \A d \in Clients : cpc[d] = "put" => cpc'[d] = "put" /\ ctask'[d] = ctask[d]
      BY <1>6 DEF AppendWorker, ClientAt, ClientsTypeOK
    <3> QED BY <3>1, <3>2 DEF QueuedTaskIsSomewhere
  <2>3. RunningForeverIsUnreportable'
    BY <1>6 DEF AppendWorker, ClientAt, taskVars, queueVars, workerVars, poolVars,
           RunningForeverIsUnreportable, StagesAgree, Unreportable, Holding,
           Completed, HoldingPC, BeforeStart, WhileRunning, AfterRun, TasksTypeOK,
           ClientsTypeOK, WorkersTypeOK
  <2>4. StagesAgree'
    BY <1>6 DEF AppendWorker, ClientAt, taskVars, queueVars, workerVars, poolVars,
           StagesAgree, OneHolder, Unstarted, Unreportable, VerdictIsTrue, Holding,
           Completed, HoldingPC, BeforeStart, WhileRunning, AfterRun, TasksTypeOK,
           ClientsTypeOK, WorkersTypeOK
  <2> QED BY <2>1, <2>2, <2>3, <2>4
<1> QED BY <1>1, <1>2, <1>3, <1>4, <1>5, <1>6 DEF ClientStep

\* _mainloop(), action by action.
LEMMA WorkerOwns ==
  ASSUME NEW w \in Workers, CountInv, OwnInv,
         WorkerStep(w)
  PROVE  OwnInv'
<1> USE ExecutorAssumption DEF CountInv, TypeOK, OwnInv, ExecutorAssumption
<1>1. ASSUME GetStop(w) PROVE OwnInv'
  <2>1. OneHolder'
    BY <1>1 DEF GetStop, WorkerAt, taskVars, queueVars, clientVars, OneHolder,
           StagesAgree, Unstarted, Holding, HoldingPC, BeforeStart, WhileRunning,
           AfterRun, TasksTypeOK, ClientsTypeOK, WorkersTypeOK
  <2>2. QueuedTaskIsSomewhere'
    BY <1>1 DEF GetStop, WorkerAt, taskVars, queueVars, clientVars,
           QueuedTaskIsSomewhere, StagesAgree, Unstarted, HoldingPC, BeforeStart,
           WhileRunning, AfterRun, TasksTypeOK, ClientsTypeOK, WorkersTypeOK
  <2>3. RunningForeverIsUnreportable'
    BY <1>1 DEF GetStop, WorkerAt, taskVars, queueVars, clientVars,
           RunningForeverIsUnreportable, StagesAgree, Unreportable, Holding,
           Completed, HoldingPC, BeforeStart, WhileRunning, AfterRun, TasksTypeOK,
           ClientsTypeOK, WorkersTypeOK
  <2>4. StagesAgree'
    BY <1>1 DEF GetStop, WorkerAt, taskVars, queueVars, clientVars, StagesAgree,
           OneHolder, Unstarted, Unreportable, VerdictIsTrue, Holding, Completed,
           HoldingPC, BeforeStart, WhileRunning, AfterRun, TasksTypeOK,
           ClientsTypeOK, WorkersTypeOK
  <2> QED BY <2>1, <2>2, <2>3, <2>4
<1>2. ASSUME NEW t \in Tasks, GetTask(w, t) PROVE OwnInv'
  <2>1. OneHolder'
    BY <1>2 DEF GetTask, WorkerAt, taskVars, queueVars, clientVars, OneHolder,
           StagesAgree, Unstarted, Holding, HoldingPC, BeforeStart, WhileRunning,
           AfterRun, TasksTypeOK, ClientsTypeOK, WorkersTypeOK
  <2>2. QueuedTaskIsSomewhere'
    BY <1>2 DEF GetTask, WorkerAt, taskVars, queueVars, clientVars,
           QueuedTaskIsSomewhere, StagesAgree, Unstarted, HoldingPC, BeforeStart,
           WhileRunning, AfterRun, TasksTypeOK, ClientsTypeOK, WorkersTypeOK
  <2>3. RunningForeverIsUnreportable'
    BY <1>2 DEF GetTask, WorkerAt, taskVars, queueVars, clientVars,
           RunningForeverIsUnreportable, StagesAgree, Unreportable, Holding,
           Completed, HoldingPC, BeforeStart, WhileRunning, AfterRun, TasksTypeOK,
           ClientsTypeOK, WorkersTypeOK
  <2>4. StagesAgree'
    BY <1>2 DEF GetTask, WorkerAt, taskVars, queueVars, clientVars, StagesAgree,
           OneHolder, Unstarted, Unreportable, VerdictIsTrue, Holding, Completed,
           HoldingPC, BeforeStart, WhileRunning, AfterRun, TasksTypeOK,
           ClientsTypeOK, WorkersTypeOK
  <2> QED BY <2>1, <2>2, <2>3, <2>4
<1>3. ASSUME Take(w) PROVE OwnInv'
  <2>1. OneHolder'
    BY <1>3 DEF Take, WorkerAt, taskVars, queueVars, clientVars, OneHolder,
           StagesAgree, Unstarted, Holding, HoldingPC, BeforeStart, WhileRunning,
           AfterRun, TasksTypeOK, ClientsTypeOK, WorkersTypeOK
  <2>2. QueuedTaskIsSomewhere'
    BY <1>3 DEF Take, WorkerAt, taskVars, queueVars, clientVars,
           QueuedTaskIsSomewhere, StagesAgree, Unstarted, HoldingPC, BeforeStart,
           WhileRunning, AfterRun, TasksTypeOK, ClientsTypeOK, WorkersTypeOK
  <2>3. RunningForeverIsUnreportable'
    BY <1>3 DEF Take, WorkerAt, taskVars, queueVars, clientVars,
           RunningForeverIsUnreportable, StagesAgree, Unreportable, Holding,
           Completed, HoldingPC, BeforeStart, WhileRunning, AfterRun, TasksTypeOK,
           ClientsTypeOK, WorkersTypeOK
  <2>4. StagesAgree'
    BY <1>3 DEF Take, WorkerAt, taskVars, queueVars, clientVars, StagesAgree,
           OneHolder, Unstarted, Unreportable, VerdictIsTrue, Holding, Completed,
           HoldingPC, BeforeStart, WhileRunning, AfterRun, TasksTypeOK,
           ClientsTypeOK, WorkersTypeOK
  <2> QED BY <2>1, <2>2, <2>3, <2>4
<1>4. ASSUME Defer(w) PROVE OwnInv'
  <2>1. OneHolder'
    BY <1>4 DEF Defer, WorkerAt, taskVars, queueVars, clientVars, OneHolder,
           StagesAgree, Unstarted, Holding, HoldingPC, BeforeStart, WhileRunning,
           AfterRun, TasksTypeOK, ClientsTypeOK, WorkersTypeOK
  <2>2. QueuedTaskIsSomewhere'
    BY <1>4 DEF Defer, WorkerAt, taskVars, queueVars, clientVars,
           QueuedTaskIsSomewhere, StagesAgree, Unstarted, HoldingPC, BeforeStart,
           WhileRunning, AfterRun, TasksTypeOK, ClientsTypeOK, WorkersTypeOK
  <2>3. RunningForeverIsUnreportable'
    <3>1. UNCHANGED <<status, cancelled, outcome, wtask>>
      BY <1>4 DEF Defer, taskVars
    <3>2. \A v \in Workers \ {w} : wpc'[v] = wpc[v]
      BY <1>4 DEF Defer, WorkerAt, WorkersTypeOK
    <3>3. status[wtask[w]] = "QUEUED"
      BY <1>4 DEF Defer, WorkerAt, StagesAgree, Unstarted, BeforeStart
    <3> QED BY <3>1, <3>2, <3>3 DEF RunningForeverIsUnreportable, Unreportable, Holding
  <2>4. StagesAgree'
    BY <1>4 DEF Defer, WorkerAt, taskVars, queueVars, clientVars, StagesAgree,
           OneHolder, Unstarted, Unreportable, VerdictIsTrue, Holding, Completed,
           HoldingPC, BeforeStart, WhileRunning, AfterRun, TasksTypeOK,
           ClientsTypeOK, WorkersTypeOK
  <2> QED BY <2>1, <2>2, <2>3, <2>4
<1>5. ASSUME WaitTimeout(w) PROVE OwnInv'
  <2>1. OneHolder'
    BY <1>5 DEF WaitTimeout, WorkerAt, taskVars, queueVars, clientVars, OneHolder,
           StagesAgree, Unstarted, Holding, HoldingPC, BeforeStart, WhileRunning,
           AfterRun, TasksTypeOK, ClientsTypeOK, WorkersTypeOK
  <2>2. QueuedTaskIsSomewhere'
    BY <1>5 DEF WaitTimeout, WorkerAt, taskVars, queueVars, clientVars,
           QueuedTaskIsSomewhere, StagesAgree, Unstarted, HoldingPC, BeforeStart,
           WhileRunning, AfterRun, TasksTypeOK, ClientsTypeOK, WorkersTypeOK
  <2>3. RunningForeverIsUnreportable'
    BY <1>5 DEF WaitTimeout, WorkerAt, taskVars, queueVars, clientVars,
           RunningForeverIsUnreportable, StagesAgree, Unreportable, Holding,
           Completed, HoldingPC, BeforeStart, WhileRunning, AfterRun, TasksTypeOK,
           ClientsTypeOK, WorkersTypeOK
  <2>4. StagesAgree'
    BY <1>5 DEF WaitTimeout, WorkerAt, taskVars, queueVars, clientVars, StagesAgree,
           OneHolder, Unstarted, Unreportable, VerdictIsTrue, Holding, Completed,
           HoldingPC, BeforeStart, WhileRunning, AfterRun, TasksTypeOK,
           ClientsTypeOK, WorkersTypeOK
  <2> QED BY <2>1, <2>2, <2>3, <2>4
<1>6. ASSUME Ignore(w) PROVE OwnInv'
  <2>1. OneHolder'
    BY <1>6 DEF Ignore, WorkerAt, taskVars, queueVars, clientVars, Report,
           OneHolder, StagesAgree, Unstarted, Holding, HoldingPC, BeforeStart,
           WhileRunning, AfterRun, TasksTypeOK, ClientsTypeOK, WorkersTypeOK
  <2>2. QueuedTaskIsSomewhere'
    BY <1>6 DEF Ignore, WorkerAt, taskVars, queueVars, clientVars, Report,
           QueuedTaskIsSomewhere, StagesAgree, Unstarted, HoldingPC, BeforeStart,
           WhileRunning, AfterRun, TasksTypeOK, ClientsTypeOK, WorkersTypeOK
  <2>3. RunningForeverIsUnreportable'
    BY <1>6 DEF Ignore, WorkerAt, taskVars, queueVars, clientVars, Report,
           RunningForeverIsUnreportable, StagesAgree, Unreportable, Holding,
           Completed, HoldingPC, BeforeStart, WhileRunning, AfterRun, TasksTypeOK,
           ClientsTypeOK, WorkersTypeOK
  <2>4. StagesAgree'
    BY <1>6 DEF Ignore, WorkerAt, taskVars, queueVars, clientVars, Report,
           StagesAgree, OneHolder, Unstarted, Unreportable, VerdictIsTrue, Holding,
           Completed, HoldingPC, BeforeStart, WhileRunning, AfterRun, TasksTypeOK,
           ClientsTypeOK, WorkersTypeOK
  <2> QED BY <2>1, <2>2, <2>3, <2>4
<1>7. ASSUME Accept(w) PROVE OwnInv'
  <2>1. OneHolder'
    BY <1>7 DEF Accept, WorkerAt, taskVars, queueVars, clientVars, OneHolder,
           StagesAgree, Unstarted, Holding, HoldingPC, BeforeStart, WhileRunning,
           AfterRun, TasksTypeOK, ClientsTypeOK, WorkersTypeOK
  <2>2. QueuedTaskIsSomewhere'
    BY <1>7 DEF Accept, WorkerAt, taskVars, queueVars, clientVars,
           QueuedTaskIsSomewhere, StagesAgree, Unstarted, HoldingPC, BeforeStart,
           WhileRunning, AfterRun, TasksTypeOK, ClientsTypeOK, WorkersTypeOK
  <2>3. RunningForeverIsUnreportable'
    BY <1>7 DEF Accept, WorkerAt, taskVars, queueVars, clientVars,
           RunningForeverIsUnreportable, StagesAgree, Unreportable, Holding,
           Completed, HoldingPC, BeforeStart, WhileRunning, AfterRun, TasksTypeOK,
           ClientsTypeOK, WorkersTypeOK
  <2>4. StagesAgree'
    BY <1>7 DEF Accept, WorkerAt, taskVars, queueVars, clientVars, StagesAgree,
           OneHolder, Unstarted, Unreportable, VerdictIsTrue, Holding, Completed,
           HoldingPC, BeforeStart, WhileRunning, AfterRun, TasksTypeOK,
           ClientsTypeOK, WorkersTypeOK
  <2> QED BY <2>1, <2>2, <2>3, <2>4
<1>8. ASSUME SetCurrent(w) PROVE OwnInv'
  <2>1. OneHolder'
    BY <1>8 DEF SetCurrent, WorkerAt, taskVars, queueVars, clientVars, OneHolder,
           StagesAgree, Unstarted, Holding, HoldingPC, BeforeStart, WhileRunning,
           AfterRun, TasksTypeOK, ClientsTypeOK, WorkersTypeOK
  <2>2. QueuedTaskIsSomewhere'
    BY <1>8 DEF SetCurrent, WorkerAt, taskVars, queueVars, clientVars,
           QueuedTaskIsSomewhere, StagesAgree, Unstarted, HoldingPC, BeforeStart,
           WhileRunning, AfterRun, TasksTypeOK, ClientsTypeOK, WorkersTypeOK
  <2>3. RunningForeverIsUnreportable'
    BY <1>8 DEF SetCurrent, WorkerAt, taskVars, queueVars, clientVars,
           RunningForeverIsUnreportable, StagesAgree, Unreportable, Holding,
           Completed, HoldingPC, BeforeStart, WhileRunning, AfterRun, TasksTypeOK,
           ClientsTypeOK, WorkersTypeOK
  <2>4. StagesAgree'
    BY <1>8 DEF SetCurrent, WorkerAt, taskVars, queueVars, clientVars, StagesAgree,
           OneHolder, Unstarted, Unreportable, VerdictIsTrue, Holding, Completed,
           HoldingPC, BeforeStart, WhileRunning, AfterRun, TasksTypeOK,
           ClientsTypeOK, WorkersTypeOK
  <2> QED BY <2>1, <2>2, <2>3, <2>4
<1>9. ASSUME StartRun(w) PROVE OwnInv'
  <2>1. OneHolder'
    BY <1>9 DEF StartRun, WorkerAt, taskVars, queueVars, clientVars, Report,
           OneHolder, StagesAgree, Unstarted, Holding, HoldingPC, BeforeStart,
           WhileRunning, AfterRun, TasksTypeOK, ClientsTypeOK, WorkersTypeOK
  <2>2. QueuedTaskIsSomewhere'
    BY <1>9 DEF StartRun, WorkerAt, taskVars, queueVars, clientVars, Report,
           QueuedTaskIsSomewhere, StagesAgree, Unstarted, HoldingPC, BeforeStart,
           WhileRunning, AfterRun, TasksTypeOK, ClientsTypeOK, WorkersTypeOK
  <2>3. RunningForeverIsUnreportable'
    BY <1>9 DEF StartRun, WorkerAt, taskVars, queueVars, clientVars, Report,
           RunningForeverIsUnreportable, StagesAgree, Unreportable, Holding,
           Completed, HoldingPC, BeforeStart, WhileRunning, AfterRun, TasksTypeOK,
           ClientsTypeOK, WorkersTypeOK
  <2>4. StagesAgree'
    BY <1>9 DEF StartRun, WorkerAt, taskVars, queueVars, clientVars, Report,
           StagesAgree, OneHolder, Unstarted, Unreportable, VerdictIsTrue, Holding,
           Completed, HoldingPC, BeforeStart, WhileRunning, AfterRun, TasksTypeOK,
           ClientsTypeOK, WorkersTypeOK
  <2> QED BY <2>1, <2>2, <2>3, <2>4
<1>10. ASSUME NEW o \in Outcomes, FinishRun(w, o) PROVE OwnInv'
  <2>1. OneHolder'
    BY <1>10 DEF FinishRun, WorkerAt, taskVars, queueVars, clientVars, OneHolder,
           StagesAgree, Unstarted, Holding, HoldingPC, BeforeStart, WhileRunning,
           AfterRun, TasksTypeOK, ClientsTypeOK, WorkersTypeOK
  <2>2. QueuedTaskIsSomewhere'
    BY <1>10 DEF FinishRun, WorkerAt, taskVars, queueVars, clientVars,
           QueuedTaskIsSomewhere, StagesAgree, Unstarted, HoldingPC, BeforeStart,
           WhileRunning, AfterRun, TasksTypeOK, ClientsTypeOK, WorkersTypeOK
  <2>3. RunningForeverIsUnreportable'
    BY <1>10 DEF FinishRun, WorkerAt, taskVars, queueVars, clientVars,
           RunningForeverIsUnreportable, StagesAgree, Unreportable, Holding,
           Completed, HoldingPC, BeforeStart, WhileRunning, AfterRun, TasksTypeOK,
           ClientsTypeOK, WorkersTypeOK
  <2>4. StagesAgree'
    BY <1>10 DEF FinishRun, WorkerAt, taskVars, queueVars, clientVars, StagesAgree,
           OneHolder, Unstarted, Unreportable, VerdictIsTrue, Holding, Completed,
           HoldingPC, BeforeStart, WhileRunning, AfterRun, TasksTypeOK,
           ClientsTypeOK, WorkersTypeOK
  <2> QED BY <2>1, <2>2, <2>3, <2>4
<1>11. ASSUME Settle(w) PROVE OwnInv'
  <2>1. OneHolder'
    BY <1>11 DEF Settle, WorkerAt, taskVars, queueVars, clientVars, Report,
           SettleRaises, UpdateRaises, Idle, OneHolder, StagesAgree, Unstarted,
           Holding, HoldingPC, BeforeStart, WhileRunning, AfterRun, TasksTypeOK,
           ClientsTypeOK, WorkersTypeOK
  <2>2. QueuedTaskIsSomewhere'
    BY <1>11 DEF Settle, WorkerAt, taskVars, queueVars, clientVars, Report,
           SettleRaises, UpdateRaises, Idle, QueuedTaskIsSomewhere, StagesAgree,
           Unstarted, HoldingPC, BeforeStart, WhileRunning, AfterRun, TasksTypeOK,
           ClientsTypeOK, WorkersTypeOK
  <2>3. RunningForeverIsUnreportable'
    BY <1>11 DEF Settle, WorkerAt, taskVars, queueVars, clientVars, Report,
           SettleRaises, UpdateRaises, Idle, RunningForeverIsUnreportable,
           StagesAgree, Unreportable, Holding, Completed, HoldingPC, BeforeStart,
           WhileRunning, AfterRun, TasksTypeOK, ClientsTypeOK, WorkersTypeOK
  <2>4. StagesAgree'
    <3> DEFINE t == wtask[w]
    <3>1. /\ wpc[w] = "settle" /\ t \in Tasks /\ status[t] = "RUNNING" /\ VerdictIsTrue(w)
          /\ wpc' = [wpc EXCEPT ![w] = "clear"]
          /\ \A v \in Workers \ {w} : verdict'[v] = verdict[v]
          /\ UNCHANGED <<cancelled, outcome, queue, cpc, ctask, wtask>>
      BY <1>11 DEF Settle, WorkerAt, queueVars, clientVars, WorkersTypeOK, HoldingPC,
           WhileRunning, StagesAgree
    <3>2. \A u \in Tasks \ {t} : status'[u] = status[u]
      BY <1>11 DEF Settle, Report, TasksTypeOK
    <3>3. status'[t] \in Completed \/ (status'[t] = "RUNNING" /\ Unreportable(t))
      <4>1. CASE SettleRaises(w)
        <5>1. status' = status
          BY <4>1, <1>11 DEF Settle
        <5>2. Unreportable(t)
          BY <4>1, <3>1 DEF SettleRaises, UpdateRaises, Unreportable, VerdictIsTrue,
               Completed, Idle
        <5> QED BY <5>1, <5>2, <3>1
      <4>2. CASE ~SettleRaises(w)
        <5>1. status'[t] = verdict[w]
          BY <4>2, <3>1, <1>11 DEF Settle, Report, TasksTypeOK
        <5> QED BY <5>1, <3>1 DEF VerdictIsTrue, Completed
      <4> QED BY <4>1, <4>2
    <3>4. \A v \in Workers \ {w} : Holding(v) => wtask[v] # t
      BY <3>1 DEF OneHolder, Holding, HoldingPC, WhileRunning
    <3>5. t \notin queue /\ \A c \in Clients : cpc[c] = "put" => ctask[c] # t
      BY <3>1 DEF StagesAgree, Unstarted
    <3>6. \A u \in Tasks : status'[u] = "PENDING" => status[u] = "PENDING"
      BY <3>1, <3>2, <3>3 DEF Completed
    <3>7. \A c \in Clients : ctask[c] # None => status'[ctask[c]] # "PENDING"
      BY <3>6 DEF StagesAgree, ClientsTypeOK
    <3>8. \A v \in Workers \ {w} : wpc'[v] = wpc[v]
      BY <3>1 DEF WorkersTypeOK
    <3>9. \A v \in Workers \ {w} : Holding(v) => status'[wtask[v]] = status[wtask[v]]
      BY <3>2, <3>4 DEF Holding, WorkersTypeOK
    <3>10. wpc'[w] = "clear"
      BY <3>1 DEF WorkersTypeOK
    <3>11. \A v \in Workers :
             /\ wpc'[v] \in BeforeStart => Unstarted(wtask[v])'
             /\ wpc'[v] = "run" => status'[wtask[v]] = "RUNNING" /\ outcome[wtask[v]] = "unrun"
             /\ wpc'[v] = "settle" => status'[wtask[v]] = "RUNNING" /\ VerdictIsTrue(v)'
             /\ wpc'[v] \in AfterRun =>
                  \/ status'[wtask[v]] \in Completed
                  \/ status'[wtask[v]] = "RUNNING" /\ Unreportable(wtask[v])'
      <4> TAKE v \in Workers
      <4>1. CASE v = w
        BY <4>1, <3>1, <3>3, <3>10 DEF BeforeStart, AfterRun, Unreportable
      <4>2. CASE v # w
        BY <4>2, <3>1, <3>8, <3>9 DEF StagesAgree, Holding, HoldingPC, BeforeStart,
             WhileRunning, AfterRun, Unstarted, VerdictIsTrue, Unreportable
      <4> QED BY <4>1, <4>2
    <3>12. \A u \in queue : Unstarted(u)'
      BY <3>1, <3>2, <3>5 DEF StagesAgree, Unstarted, QueueTypeOK
    <3>13. \A c \in Clients : cpc[c] = "put" => Unstarted(ctask[c])'
      BY <3>1, <3>2, <3>5 DEF StagesAgree, Unstarted, ClientsTypeOK
    <3>14. \A u \in Tasks : status'[u] = "PENDING" => outcome[u] = "unrun"
      BY <3>6 DEF StagesAgree
    <3> QED BY <3>1, <3>7, <3>11, <3>12, <3>13, <3>14 DEF StagesAgree
  <2> QED BY <2>1, <2>2, <2>3, <2>4
<1>12. ASSUME ClearCurrent(w) PROVE OwnInv'
  <2>1. OneHolder'
    BY <1>12 DEF ClearCurrent, WorkerAt, taskVars, queueVars, clientVars, OneHolder,
           StagesAgree, Unstarted, Holding, HoldingPC, BeforeStart, WhileRunning,
           AfterRun, TasksTypeOK, ClientsTypeOK, WorkersTypeOK
  <2>2. QueuedTaskIsSomewhere'
    BY <1>12 DEF ClearCurrent, WorkerAt, taskVars, queueVars, clientVars,
           QueuedTaskIsSomewhere, StagesAgree, Unstarted, HoldingPC, BeforeStart,
           WhileRunning, AfterRun, TasksTypeOK, ClientsTypeOK, WorkersTypeOK
  <2>3. RunningForeverIsUnreportable'
    BY <1>12 DEF ClearCurrent, WorkerAt, taskVars, queueVars, clientVars,
           RunningForeverIsUnreportable, StagesAgree, Unreportable, Holding,
           Completed, HoldingPC, BeforeStart, WhileRunning, AfterRun, TasksTypeOK,
           ClientsTypeOK, WorkersTypeOK
  <2>4. StagesAgree'
    BY <1>12 DEF ClearCurrent, WorkerAt, taskVars, queueVars, clientVars,
           StagesAgree, OneHolder, Unstarted, Unreportable, VerdictIsTrue, Holding,
           Completed, HoldingPC, BeforeStart, WhileRunning, AfterRun, TasksTypeOK,
           ClientsTypeOK, WorkersTypeOK
  <2> QED BY <2>1, <2>2, <2>3, <2>4
<1>13. ASSUME DecCurrent(w) PROVE OwnInv'
  <2>1. OneHolder'
    BY <1>13 DEF DecCurrent, WorkerAt, taskVars, queueVars, clientVars, OneHolder,
           StagesAgree, Unstarted, Holding, HoldingPC, BeforeStart, WhileRunning,
           AfterRun, TasksTypeOK, ClientsTypeOK, WorkersTypeOK
  <2>2. QueuedTaskIsSomewhere'
    BY <1>13 DEF DecCurrent, WorkerAt, taskVars, queueVars, clientVars,
           QueuedTaskIsSomewhere, StagesAgree, Unstarted, HoldingPC, BeforeStart,
           WhileRunning, AfterRun, TasksTypeOK, ClientsTypeOK, WorkersTypeOK
  <2>3. RunningForeverIsUnreportable'
    BY <1>13 DEF DecCurrent, WorkerAt, taskVars, queueVars, clientVars,
           RunningForeverIsUnreportable, StagesAgree, Unreportable, Holding,
           Completed, HoldingPC, BeforeStart, WhileRunning, AfterRun, TasksTypeOK,
           ClientsTypeOK, WorkersTypeOK
  <2>4. StagesAgree'
    BY <1>13 DEF DecCurrent, WorkerAt, taskVars, queueVars, clientVars, StagesAgree,
           OneHolder, Unstarted, Unreportable, VerdictIsTrue, Holding, Completed,
           HoldingPC, BeforeStart, WhileRunning, AfterRun, TasksTypeOK,
           ClientsTypeOK, WorkersTypeOK
  <2> QED BY <2>1, <2>2, <2>3, <2>4
<1>14. ASSUME DecTotal(w) PROVE OwnInv'
  <2>1. OneHolder'
    BY <1>14 DEF DecTotal, WorkerAt, taskVars, queueVars, clientVars, OneHolder,
           StagesAgree, Unstarted, Holding, HoldingPC, BeforeStart, WhileRunning,
           AfterRun, TasksTypeOK, ClientsTypeOK, WorkersTypeOK
  <2>2. QueuedTaskIsSomewhere'
    BY <1>14 DEF DecTotal, WorkerAt, taskVars, queueVars, clientVars,
           QueuedTaskIsSomewhere, StagesAgree, Unstarted, HoldingPC, BeforeStart,
           WhileRunning, AfterRun, TasksTypeOK, ClientsTypeOK, WorkersTypeOK
  <2>3. RunningForeverIsUnreportable'
    BY <1>14 DEF DecTotal, WorkerAt, taskVars, queueVars, clientVars,
           RunningForeverIsUnreportable, StagesAgree, Unreportable, Holding,
           Completed, HoldingPC, BeforeStart, WhileRunning, AfterRun, TasksTypeOK,
           ClientsTypeOK, WorkersTypeOK
  <2>4. StagesAgree'
    BY <1>14 DEF DecTotal, WorkerAt, taskVars, queueVars, clientVars, StagesAgree,
           OneHolder, Unstarted, Unreportable, VerdictIsTrue, Holding, Completed,
           HoldingPC, BeforeStart, WhileRunning, AfterRun, TasksTypeOK,
           ClientsTypeOK, WorkersTypeOK
  <2> QED BY <2>1, <2>2, <2>3, <2>4
<1> QED BY <1>1, <1>2, <1>3, <1>4, <1>5, <1>6, <1>7, <1>8, <1>9, <1>10, <1>11,
           <1>12, <1>13, <1>14 DEF WorkerStep

\* shutdown(), from its entry to its end.
LEMMA StopperOwns ==
  ASSUME NEW s \in Stoppers, CountInv, OwnInv,
         (\E cancel \in BOOLEAN : Shutdown(s, cancel)) \/ StopperStep(s)
  PROVE  OwnInv'
<1> USE ExecutorAssumption DEF CountInv, TypeOK, OwnInv, ExecutorAssumption
<1>1. ASSUME NEW cancel \in BOOLEAN, Shutdown(s, cancel) PROVE OwnInv'
  BY <1>1, OwnUnchanged DEF Shutdown, StopperAt, taskVars, queueVars, clientVars,
         workerVars
<1>2. ASSUME SetShutdown(s) PROVE OwnInv'
  BY <1>2, OwnUnchanged DEF SetShutdown, StopperAt, taskVars, queueVars, clientVars,
         workerVars
<1>3. ASSUME CancelRunning(s) PROVE OwnInv'
  <2>1. OneHolder'
    BY <1>3 DEF CancelRunning, queueVars, clientVars, workerVars, OneHolder,
           StagesAgree, Unstarted, Holding, HoldingPC, BeforeStart, WhileRunning,
           AfterRun, TasksTypeOK, ClientsTypeOK, WorkersTypeOK
  <2>2. QueuedTaskIsSomewhere'
    <3>1. UNCHANGED <<status, queue, cpc, ctask, wpc, wtask>>
      BY <1>3 DEF CancelRunning, queueVars, clientVars, workerVars
    <3> QED BY <3>1 DEF QueuedTaskIsSomewhere
  <2>3. RunningForeverIsUnreportable'
    BY <1>3 DEF CancelRunning, queueVars, clientVars, workerVars,
           RunningForeverIsUnreportable, StagesAgree, Unreportable, Holding,
           Completed, HoldingPC, BeforeStart, WhileRunning, AfterRun, TasksTypeOK,
           ClientsTypeOK, WorkersTypeOK
  <2>4. StagesAgree'
    BY <1>3 DEF CancelRunning, queueVars, clientVars, workerVars, StagesAgree,
           OneHolder, Unstarted, Unreportable, VerdictIsTrue, Holding, Completed,
           HoldingPC, BeforeStart, WhileRunning, AfterRun, TasksTypeOK,
           ClientsTypeOK, WorkersTypeOK
  <2> QED BY <2>1, <2>2, <2>3, <2>4
<1>4. ASSUME PutStop(s) PROVE OwnInv'
  <2>1. OneHolder'
    BY <1>4 DEF PutStop, NotifyAll, Waiting, taskVars, clientVars, OneHolder,
           StagesAgree, Unstarted, Holding, HoldingPC, BeforeStart, WhileRunning,
           AfterRun, TasksTypeOK, ClientsTypeOK, WorkersTypeOK
  <2>2. QueuedTaskIsSomewhere'
    BY <1>4 DEF PutStop, NotifyAll, Waiting, taskVars, clientVars,
           QueuedTaskIsSomewhere, StagesAgree, Unstarted, HoldingPC, BeforeStart,
           WhileRunning, AfterRun, TasksTypeOK, ClientsTypeOK, WorkersTypeOK
  <2>3. RunningForeverIsUnreportable'
    BY <1>4 DEF PutStop, NotifyAll, Waiting, taskVars, clientVars,
           RunningForeverIsUnreportable, StagesAgree, Unreportable, Holding,
           Completed, HoldingPC, BeforeStart, WhileRunning, AfterRun, TasksTypeOK,
           ClientsTypeOK, WorkersTypeOK
  <2>4. StagesAgree'
    BY <1>4 DEF PutStop, NotifyAll, Waiting, taskVars, clientVars, StagesAgree,
           OneHolder, Unstarted, Unreportable, VerdictIsTrue, Holding, Completed,
           HoldingPC, BeforeStart, WhileRunning, AfterRun, TasksTypeOK,
           ClientsTypeOK, WorkersTypeOK
  <2> QED BY <2>1, <2>2, <2>3, <2>4
<1>5. ASSUME EndLoop(s) PROVE OwnInv'
  BY <1>5, OwnUnchanged DEF EndLoop, StopperAt, taskVars, queueVars, clientVars,
         workerVars
<1>6. ASSUME JoinCurrent(s) PROVE OwnInv'
  BY <1>6, OwnUnchanged DEF JoinCurrent, StopperAt, taskVars, queueVars, clientVars,
         workerVars
<1> QED BY <1>1, <1>2, <1>3, <1>4, <1>5, <1>6 DEF StopperStep

\* Every step keeps the invariant.
LEMMA OwnStep == CountInv /\ OwnInv /\ [Next]_vars => OwnInv'
<1> SUFFICES ASSUME CountInv, OwnInv, [Next]_vars PROVE OwnInv'
  OBVIOUS
<1>1. CASE \E c \in Clients : (\E t \in Tasks : Execute(c, t)) \/ ClientStep(c)
  BY <1>1, ClientOwns
<1>2. CASE \E w \in Workers : WorkerStep(w)
  BY <1>2, WorkerOwns
<1>3. CASE \E s \in Stoppers : (\E cancel \in BOOLEAN : Shutdown(s, cancel)) \/ StopperStep(s)
  BY <1>3, StopperOwns
<1>4. ASSUME NEW t \in Tasks, CancelTask(t) PROVE OwnInv'
  BY <1>4 DEF CancelTask, CountInv, TypeOK, TasksTypeOK, OwnInv, OneHolder, QueuedTaskIsSomewhere,
       RunningForeverIsUnreportable, StagesAgree, Holding, Unreportable, Unstarted, VerdictIsTrue,
       queueVars, clientVars, workerVars
<1>5. CASE Tick \/ UNCHANGED vars
  BY <1>5, OwnUnchanged DEF Tick, vars, taskVars, queueVars, clientVars, workerVars
<1> QED BY <1>1, <1>2, <1>3, <1>4, <1>5 DEF Next

\* No task is anywhere at first.
LEMMA InitOwns == Init => OwnInv
BY DEF Init, OwnInv, OneHolder, QueuedTaskIsSomewhere, RunningForeverIsUnreportable,
       StagesAgree, Holding, HoldingPC, BeforeStart, WhileRunning, AfterRun

THEOREM Ownership == Spec => []OwnInv
BY InitOwns, OwnStep, TypeAndCount, PTL DEF Spec

\* Two threads never work on one task, whatever the interleaving of execute(), of
\* workers that put a task back until its time, and of shutdown().
THEOREM NoTwoHolders == Spec => []OneHolder
BY Ownership, PTL DEF OwnInv

\* A queued task is never lost between execute(), the heap and a worker.
THEOREM NoTaskLost == Spec => []QueuedTaskIsSomewhere
BY Ownership, PTL DEF OwnInv

\* The only tasks that stay RUNNING with no thread on them are those whose result
\* _update refuses.
THEOREM OnlyUnreportableStick == Spec => []RunningForeverIsUnreportable
BY Ownership, PTL DEF OwnInv

\* The status of a task agrees with the place it is at.
THEOREM StatusAgreesWithPlace == Spec => []StagesAgree
BY Ownership, PTL DEF OwnInv
-------------------------------------------------------------------------------
(* 5. What _total counts.                                                   *)

Busy == {w \in Workers : Holding(w)}
Putting == {c \in Clients : cpc[c] = "inc"}
NoneDied == \A w \in Workers : wpc[w] # "dead"

LEMMA TotalSetsFinite ==
  ASSUME CountInv
  PROVE  /\ IsFiniteSet(queue) /\ Cardinality(queue) \in Nat
         /\ IsFiniteSet(Busy) /\ Cardinality(Busy) \in Nat
         /\ IsFiniteSet(Putting) /\ Cardinality(Putting) \in Nat
         /\ total \in Nat
BY ExecutorAssumption, FS_Subset, FS_CardinalityType
   DEF ExecutorAssumption, Busy, Putting, CountInv, TypeOK, QueueTypeOK

\* The difference that the invariant is about, in terms of the named sets.
LEMMA TotalIs ==
  TotalCountsTasks <=>
    /\ total + Cardinality(Putting) >= Cardinality(queue) + Cardinality(Busy)
    /\ NoneDied => total + Cardinality(Putting) = Cardinality(queue) + Cardinality(Busy)
BY DEF TotalCountsTasks, Putting, Busy, NoneDied

\* A step that moves no task in or out and counts none.
LEMMA TotalUnchanged ==
  ASSUME TotalCountsTasks, UNCHANGED <<total, queue>>, Busy' = Busy, Putting' = Putting,
         NoneDied' => NoneDied
  PROVE  TotalCountsTasks'
BY TotalIs DEF TotalCountsTasks, Putting, Busy, NoneDied

\* put(): the task is in the heap before it is counted, and counted before it returns.
LEMMA PutKeepsTotal ==
  ASSUME CountInv, OwnInv, TotalCountsTasks, NEW c \in Clients, PutHeap(c) \/ PutCount(c)
  PROVE  TotalCountsTasks'
<1> USE DEF CountInv, TypeOK, ClientsTypeOK, WorkersTypeOK, QueueTypeOK
<1>1. CASE PutHeap(c)
  <2>1. queue' = queue \cup {ctask[c]} /\ ctask[c] \notin queue
    BY <1>1 DEF PutHeap, ClientAt, OwnInv, OneHolder
  <2>2. Putting' = Putting \cup {c} /\ c \notin Putting
    BY <1>1 DEF PutHeap, ClientAt, Putting
  <2>3. Busy' = Busy /\ NoneDied' = NoneDied /\ total' = total
    BY <1>1 DEF PutHeap, Busy, NoneDied, Holding, workerVars
  <2>4. /\ Cardinality(queue') = Cardinality(queue) + 1
        /\ Cardinality(Putting') = Cardinality(Putting) + 1
    BY <2>1, <2>2, TotalSetsFinite, FS_AddElement
  <2>5. /\ total' + Cardinality(Putting') >= Cardinality(queue') + Cardinality(Busy')
        /\ NoneDied' => total' + Cardinality(Putting') = Cardinality(queue') + Cardinality(Busy')
    BY <2>3, <2>4, TotalIs, TotalSetsFinite
  <2> QED BY <2>5 DEF TotalCountsTasks, Putting, Busy, NoneDied
<1>2. CASE PutCount(c)
  <2>1. Putting' = Putting \ {c} /\ c \in Putting
    BY <1>2 DEF PutCount, ClientAt, Putting
  <2>2. Busy' = Busy /\ NoneDied' = NoneDied /\ queue' = queue /\ total' = total + 1
    BY <1>2, NotifyMoves
       DEF PutCount, Busy, NoneDied, Holding, HoldingPC, BeforeStart, WhileRunning, AfterRun
  <2>3. Cardinality(Putting') = Cardinality(Putting) - 1
    BY <2>1, TotalSetsFinite, FS_RemoveElement
  <2>4. /\ total' + Cardinality(Putting') >= Cardinality(queue') + Cardinality(Busy')
        /\ NoneDied' => total' + Cardinality(Putting') = Cardinality(queue') + Cardinality(Busy')
    BY <2>2, <2>3, TotalIs, TotalSetsFinite
  <2> QED BY <2>4 DEF TotalCountsTasks, Putting, Busy, NoneDied
<1> QED BY <1>1, <1>2

\* get() and the put() of a task of the future: the task changes places.
LEMMA GetKeepsTotal ==
  ASSUME CountInv, OwnInv, TotalCountsTasks, NEW w \in Workers,
         (\E t \in Tasks : GetTask(w, t)) \/ Defer(w)
  PROVE  TotalCountsTasks'
<1> USE DEF CountInv, TypeOK, WorkersTypeOK, QueueTypeOK
<1>1. Putting' = Putting /\ total' = total
  BY DEF GetTask, Defer, Putting, clientVars
<1>2. NoneDied' = NoneDied
  BY DEF GetTask, Defer, WorkerAt, NoneDied
<1>3. Cardinality(queue') + Cardinality(Busy') = Cardinality(queue) + Cardinality(Busy)
  <2>1. ASSUME NEW t \in Tasks, GetTask(w, t)
        PROVE  Cardinality(queue') + Cardinality(Busy') = Cardinality(queue) + Cardinality(Busy)
    <3>1. queue' = queue \ {t} /\ t \in queue
      BY <2>1 DEF GetTask
    <3>2. Busy' = Busy \cup {w} /\ w \notin Busy
      BY <2>1 DEF GetTask, WorkerAt, Busy, Holding, HoldingPC, BeforeStart, WhileRunning, AfterRun
    <3>3. /\ Cardinality(queue') = Cardinality(queue) - 1
          /\ Cardinality(Busy') = Cardinality(Busy) + 1
      BY <3>1, <3>2, TotalSetsFinite, FS_AddElement, FS_RemoveElement
    <3> QED BY <3>3, TotalSetsFinite
  <2>2. CASE Defer(w)
    <3>1. queue' = queue \cup {wtask[w]} /\ wtask[w] \notin queue
      BY <2>2 DEF Defer, WorkerAt, OwnInv, OneHolder, Holding, HoldingPC, BeforeStart
    <3>2. Busy' = Busy \ {w} /\ w \in Busy
      BY <2>2 DEF Defer, WorkerAt, Busy, Holding, HoldingPC, BeforeStart, WhileRunning, AfterRun
    <3>3. /\ Cardinality(queue') = Cardinality(queue) + 1
          /\ Cardinality(Busy') = Cardinality(Busy) - 1
      BY <3>1, <3>2, TotalSetsFinite, FS_AddElement, FS_RemoveElement
    <3> QED BY <3>3, TotalSetsFinite
  <2> QED BY <2>1, <2>2
<1>4. /\ total' + Cardinality(Putting') >= Cardinality(queue') + Cardinality(Busy')
      /\ NoneDied' => total' + Cardinality(Putting') = Cardinality(queue') + Cardinality(Busy')
  BY <1>1, <1>2, <1>3, TotalIs
<1> QED BY <1>4 DEF TotalCountsTasks, Putting, Busy, NoneDied

\* task_done(): one task and one count less, unless the count is zero, of which the
\* worker dies.
LEMMA DoneKeepsTotal ==
  ASSUME CountInv, TotalCountsTasks, NEW w \in Workers, DecTotal(w)
  PROVE  TotalCountsTasks'
<1> USE DEF CountInv, TypeOK, WorkersTypeOK, QueueTypeOK
<1>1. Putting' = Putting /\ queue' = queue
  BY DEF DecTotal, Putting, clientVars
<1>2. Busy' = Busy \ {w} /\ w \in Busy
  BY DEF DecTotal, WorkerAt, Busy, Holding, HoldingPC, BeforeStart, WhileRunning, AfterRun
<1>3. Cardinality(Busy') = Cardinality(Busy) - 1
  BY <1>2, TotalSetsFinite, FS_RemoveElement
<1>4. NoneDied' => NoneDied /\ total # 0
  BY DEF DecTotal, WorkerAt, NoneDied
<1>5. total' = IF total = 0 THEN 0 ELSE total - 1
  BY DEF DecTotal
<1>6. /\ total' + Cardinality(Putting') >= Cardinality(queue') + Cardinality(Busy')
      /\ NoneDied' => total' + Cardinality(Putting') = Cardinality(queue') + Cardinality(Busy')
  BY <1>1, <1>3, <1>4, <1>5, TotalIs, TotalSetsFinite
<1> QED BY <1>6 DEF TotalCountsTasks, Putting, Busy, NoneDied

\* The other steps of a worker move no task.
LEMMA WorkerKeepsTotal ==
  ASSUME CountInv, OwnInv, TotalCountsTasks, NEW w \in Workers, WorkerStep(w)
  PROVE  TotalCountsTasks'
<1> USE DEF CountInv, TypeOK, WorkersTypeOK
<1>1. CASE (\E t \in Tasks : GetTask(w, t)) \/ Defer(w)
  BY <1>1, GetKeepsTotal
<1>2. CASE DecTotal(w)
  BY <1>2, DoneKeepsTotal
<1>3. ASSUME NEW p \in WorkerPC, wpc' = [wpc EXCEPT ![w] = p], p # "dead",
             wpc[w] \in HoldingPC <=> p \in HoldingPC, wpc[w] # "dead",
             UNCHANGED <<total, queue, cpc>>
      PROVE  TotalCountsTasks'
  <2>1. Busy' = Busy /\ Putting' = Putting
    BY <1>3 DEF Busy, Putting, Holding
  <2>2. NoneDied' => NoneDied
    BY <1>3 DEF NoneDied
  <2> QED BY <1>3, <2>1, <2>2, TotalUnchanged
<1>4. CASE GetStop(w) \/ WaitTimeout(w)
  BY <1>3, <1>4 DEF GetStop, WaitTimeout, WorkerAt, WorkerPC, HoldingPC, BeforeStart,
       WhileRunning, AfterRun, queueVars, clientVars
<1>5. CASE Take(w) \/ Ignore(w) \/ Accept(w) \/ SetCurrent(w) \/ StartRun(w)
  BY <1>3, <1>5 DEF Take, Ignore, Accept, SetCurrent, StartRun, WorkerAt, WorkerPC, HoldingPC,
       BeforeStart, WhileRunning, AfterRun, queueVars, clientVars
<1>6. CASE (\E o \in Outcomes : FinishRun(w, o)) \/ Settle(w) \/ ClearCurrent(w) \/ DecCurrent(w)
  BY <1>3, <1>6 DEF FinishRun, Settle, ClearCurrent, DecCurrent, WorkerAt, WorkerPC, HoldingPC,
       BeforeStart, WhileRunning, AfterRun, queueVars, clientVars
<1> QED BY <1>1, <1>2, <1>4, <1>5, <1>6 DEF WorkerStep

LEMMA TotalStep == CountInv /\ OwnInv /\ TotalCountsTasks /\ [Next]_vars => TotalCountsTasks'
<1> SUFFICES ASSUME CountInv, OwnInv, TotalCountsTasks, [Next]_vars PROVE TotalCountsTasks'
  OBVIOUS
<1> USE DEF CountInv, TypeOK, ClientsTypeOK, WorkersTypeOK
<1>1. CASE \E w \in Workers : WorkerStep(w)
  BY <1>1, WorkerKeepsTotal
<1>2. CASE \E c \in Clients : PutHeap(c) \/ PutCount(c)
  BY <1>2, PutKeepsTotal
<1>3. ASSUME NEW c \in Clients,
             (\E t \in Tasks : Execute(c, t)) \/ CheckSize(c) \/ (\E w \in Workers : Spawn(c, w))
               \/ AppendWorker(c)
      PROVE  TotalCountsTasks'
  <2>1. UNCHANGED <<total, queue>>
    BY <1>3 DEF Execute, CheckSize, Spawn, AppendWorker, queueVars
  <2>2. Busy' = Busy /\ NoneDied' = NoneDied
    BY <1>3 DEF Execute, CheckSize, Spawn, AppendWorker, Busy, NoneDied, Holding, HoldingPC,
         BeforeStart, WhileRunning, AfterRun, workerVars
  <2>3. Putting' = Putting
    BY <1>3 DEF Execute, CheckSize, Spawn, AppendWorker, ClientAt, Putting
  <2> QED BY <2>1, <2>2, <2>3, TotalUnchanged
<1>4. ASSUME NEW s \in Stoppers, PutStop(s) PROVE TotalCountsTasks'
  <2>1. UNCHANGED <<total, queue, cpc>>
    BY <1>4 DEF PutStop, clientVars
  <2>2. Busy' = Busy /\ NoneDied' = NoneDied
    BY <1>4, NotifyMoves
       DEF PutStop, Busy, NoneDied, Holding, HoldingPC, BeforeStart, WhileRunning, AfterRun
  <2>3. Putting' = Putting
    BY <2>1 DEF Putting
  <2> QED BY <2>1, <2>2, <2>3, TotalUnchanged
<1>5. ASSUME UNCHANGED <<total, queue, cpc, wpc>> PROVE TotalCountsTasks'
  BY <1>5, TotalUnchanged DEF Busy, Putting, NoneDied, Holding
<1>6. ASSUME NEW s \in Stoppers,
             (\E cancel \in BOOLEAN : Shutdown(s, cancel)) \/ SetShutdown(s) \/ CancelRunning(s)
               \/ EndLoop(s) \/ JoinCurrent(s)
      PROVE  TotalCountsTasks'
  BY <1>5, <1>6 DEF Shutdown, SetShutdown, CancelRunning, EndLoop, JoinCurrent, queueVars,
       clientVars, workerVars
<1>7. CASE Tick \/ (\E t \in Tasks : CancelTask(t)) \/ UNCHANGED vars
  BY <1>5, <1>7 DEF Tick, CancelTask, vars, queueVars, clientVars, workerVars
<1> QED BY <1>1, <1>2, <1>3, <1>4, <1>6, <1>7 DEF Next, ClientStep, StopperStep

LEMMA InitTotal == Init => TotalCountsTasks
<1> SUFFICES ASSUME Init PROVE TotalCountsTasks
  OBVIOUS
<1>1. Busy = {} /\ Putting = {} /\ queue = {} /\ total = 0
  BY DEF Init, Busy, Putting, Holding, HoldingPC, BeforeStart, WhileRunning, AfterRun
<1> QED BY <1>1, TotalIs, FS_EmptySet

\* _total, on which join() blocks, is the number of tasks in the heap and at the
\* workers less those being put, and never too small; it is exact until a worker dies.
THEOREM TotalExact == Spec => []TotalCountsTasks
BY InitTotal, TotalStep, TypeAndCount, Ownership, PTL DEF Spec
-------------------------------------------------------------------------------
(* 6. Tasks cancelled in the heap.                                          *)

\* A task that nobody will run any more: it is cancelled, and no worker has looked
\* at its flag before.
Spared(t) ==
  /\ cancelled[t]
  /\ \/ status[t] = "IGNORED"
     \/ /\ status[t] = "QUEUED"
        /\ \A w \in Workers : wpc[w] \in {"set", "start"} => wtask[w] # t

\* Only a worker that looked at the flag before could still start it.
LEMMA SparedStays ==
  ASSUME NEW t \in Tasks, CountInv, OwnInv, Spared(t), [Next]_vars
  PROVE  Spared(t)'
<1> USE DEF CountInv, TypeOK, TasksTypeOK, WorkersTypeOK
<1>1. ASSUME NEW w \in Workers, WorkerStep(w) PROVE Spared(t)'
  <2>1. CASE GetStop(w) \/ Take(w) \/ Defer(w) \/ WaitTimeout(w) \/ SetCurrent(w) \/ ClearCurrent(w)
              \/ DecCurrent(w) \/ DecTotal(w) \/ (\E u \in Tasks : GetTask(w, u))
    BY <1>1, <2>1 DEF GetStop, Take, Defer, WaitTimeout, SetCurrent, ClearCurrent, DecCurrent,
         DecTotal, GetTask, WorkerAt, Spared, taskVars
  <2>2. CASE Ignore(w) \/ (\E o \in Outcomes : FinishRun(w, o))
    BY <2>2 DEF Ignore, FinishRun, WorkerAt, Report, Spared
  <2>3. CASE Accept(w)
    BY <2>3 DEF Accept, WorkerAt, Spared, taskVars
  <2>4. CASE StartRun(w)
    <3>1. wtask[w] # t
      BY <2>4 DEF StartRun, WorkerAt, Spared, OwnInv, StagesAgree, Unstarted, BeforeStart
    <3> QED BY <2>4, <3>1 DEF StartRun, WorkerAt, Report, Spared
  <2>5. CASE Settle(w)
    <3>1. wtask[w] # t
      BY <2>5 DEF Settle, WorkerAt, Spared, OwnInv, StagesAgree
    <3> QED BY <2>5, <3>1 DEF Settle, WorkerAt, Report, Spared
  <2> QED BY <1>1, <2>1, <2>2, <2>3, <2>4, <2>5 DEF WorkerStep
<1>2. ASSUME NEW c \in Clients, NEW u \in Tasks, Execute(c, u) PROVE Spared(t)'
  BY <1>2 DEF Execute, Spared, workerVars
<1>3. ASSUME NEW c \in Clients, ClientStep(c) PROVE Spared(t)'
  <2>1. CASE PutCount(c)
    BY <2>1 DEF PutCount, NotifyOne, Waiting, Spared, taskVars
  <2>2. CASE PutHeap(c) \/ CheckSize(c) \/ AppendWorker(c)
    BY <2>2 DEF PutHeap, CheckSize, AppendWorker, Spared, taskVars, workerVars
  <2>3. ASSUME NEW w \in Workers, Spawn(c, w) PROVE Spared(t)'
    BY <2>3 DEF Spawn, Spared, taskVars
  <2> QED BY <1>3, <2>1, <2>2, <2>3 DEF ClientStep
<1>4. ASSUME NEW s \in Stoppers,
             (\E cancel \in BOOLEAN : Shutdown(s, cancel)) \/ StopperStep(s)
      PROVE  Spared(t)'
  <2>1. CASE CancelRunning(s)
    BY <2>1 DEF CancelRunning, Spared, workerVars
  <2>2. CASE PutStop(s)
    BY <2>2 DEF PutStop, NotifyAll, Waiting, Spared, taskVars
  <2>3. CASE (\E cancel \in BOOLEAN : Shutdown(s, cancel)) \/ SetShutdown(s) \/ EndLoop(s)
               \/ JoinCurrent(s)
    BY <2>3 DEF Shutdown, SetShutdown, EndLoop, JoinCurrent, Spared, taskVars, workerVars
  <2> QED BY <1>4, <2>1, <2>2, <2>3 DEF StopperStep
<1>5. CASE (\E u \in Tasks : CancelTask(u)) \/ Tick \/ UNCHANGED vars
  BY <1>5 DEF CancelTask, Tick, Spared, vars, taskVars, workerVars
<1> QED BY <1>1, <1>2, <1>3, <1>4, <1>5 DEF Next

\* In the heap no worker has looked at the flag yet.
LEMMA CancelledInHeap ==
  ASSUME NEW t \in Tasks, OwnInv
  PROVE  t \in queue /\ cancelled[t] => Spared(t)
BY DEF OwnInv, OneHolder, StagesAgree, Unstarted, Holding, HoldingPC, BeforeStart, Spared

\* A task that is cancelled while it is in the heap is never run, however the workers,
\* the clock and shutdown() go on.
THEOREM CancelledIsSpared == Spec => CancelledInQueueNeverRuns
<1> SUFFICES ASSUME NEW t \in Tasks
             PROVE  Spec => [](t \in queue /\ cancelled[t] => [](status[t] \in {"QUEUED", "IGNORED"}))
  BY DEF CancelledInQueueNeverRuns
<1>1. OwnInv => (t \in queue /\ cancelled[t] => Spared(t))
  BY CancelledInHeap
<1>2. CountInv /\ OwnInv /\ Spared(t) /\ [Next]_vars => Spared(t)'
  BY SparedStays
<1>3. Spared(t) => status[t] \in {"QUEUED", "IGNORED"}
  BY DEF Spared
<1> QED BY <1>1, <1>2, <1>3, TypeAndCount, Ownership, PTL DEF Spec
-------------------------------------------------------------------------------
(* 7. TaskExecutor implements TaskLifecycle.  A step of a thread is the step *)
(* of the one task it works on, or no step of any task; what the abstract   *)
(* step requires of the status and of the outcome is StagesAgree at the     *)
(* place of the worker.                                                     *)

AbstractStep == [Lifecycle!LNext]_(Lifecycle!lvars)

\* A thread that changes nothing a task is seen by takes no abstract step.
LEMMA NoTaskStep ==
  ASSUME UNCHANGED <<status, cancelled, outcome>>
  PROVE  AbstractStep
BY DEF AbstractStep, Lifecycle!lvars

\* The steps of a worker: Ignore drops the task, StartRun begins it, FinishRun is
\* the return of its runnable, Settle reports the verdict or is refused.
LEMMA WorkerRefines ==
  ASSUME NEW w \in Workers, CountInv, OwnInv, WorkerStep(w)
  PROVE  AbstractStep
<1> DEFINE t == wtask[w]
<1> USE DEF OwnInv, CountInv, TypeOK
<1>1. wpc[w] \in HoldingPC => t \in Tasks
  BY DEF WorkersTypeOK
<1>2. CASE Ignore(w)
  <2>1. t \in Tasks /\ Lifecycle!Drop(t)
    BY <1>1, <1>2 DEF Ignore, WorkerAt, Report, StagesAgree, Unstarted, HoldingPC, BeforeStart,
         Lifecycle!Drop, Lifecycle!Become
  <2> QED BY <2>1 DEF AbstractStep, Lifecycle!LNext
<1>3. CASE StartRun(w)
  <2>1. t \in Tasks /\ Lifecycle!Begin(t)
    BY <1>1, <1>3 DEF StartRun, WorkerAt, Report, StagesAgree, Unstarted, HoldingPC, BeforeStart,
         Lifecycle!Begin, Lifecycle!Become
  <2> QED BY <2>1 DEF AbstractStep, Lifecycle!LNext
<1>4. ASSUME NEW o \in Outcomes, FinishRun(w, o) PROVE AbstractStep
  <2>1. t \in Tasks /\ o \in Lifecycle!Results /\ Lifecycle!Return(t, o)
    BY <1>1, <1>4, ExecutorAssumption
       DEF FinishRun, WorkerAt, StagesAgree, HoldingPC, WhileRunning, ExecutorAssumption,
           Lifecycle!Results, Lifecycle!Return
  <2> QED BY <2>1 DEF AbstractStep, Lifecycle!LNext
<1>5. CASE Settle(w)
  <2>1. CASE SettleRaises(w)
    BY <2>1, <1>5, NoTaskStep DEF Settle
  <2>2. CASE ~SettleRaises(w)
    <3>1. t \in Tasks /\ status[t] = "RUNNING" /\ VerdictIsTrue(w)
      BY <1>1, <1>5 DEF Settle, WorkerAt, StagesAgree, HoldingPC, WhileRunning
    <3>2. verdict[w] \in Lifecycle!Verdicts(t)
      BY <3>1 DEF VerdictIsTrue, Lifecycle!Verdicts
    <3>3. status' = [status EXCEPT ![t] = verdict[w]] /\ UNCHANGED <<cancelled, outcome>>
      BY <2>2, <1>5 DEF Settle, Report
    <3>4. Lifecycle!Settle(t)
      BY <3>1, <3>2, <3>3 DEF Lifecycle!Settle, Lifecycle!Become
    <3> QED BY <3>1, <3>4 DEF AbstractStep, Lifecycle!LNext
  <2> QED BY <2>1, <2>2
<1>6. CASE \/ GetStop(w) \/ Take(w) \/ Defer(w) \/ WaitTimeout(w) \/ Accept(w)
           \/ SetCurrent(w) \/ ClearCurrent(w) \/ DecCurrent(w) \/ DecTotal(w)
  BY <1>6, NoTaskStep DEF GetStop, Take, Defer, WaitTimeout, Accept, SetCurrent, ClearCurrent,
       DecCurrent, DecTotal, taskVars
<1>7. ASSUME NEW u \in Tasks, GetTask(w, u) PROVE AbstractStep
  BY <1>7, NoTaskStep DEF GetTask, taskVars
<1> QED BY <1>2, <1>3, <1>4, <1>5, <1>6, <1>7 DEF WorkerStep

\* Cancelling is an abstract step, from the caller as from shutdown().
LEMMA CancelRefines ==
  ASSUME NEW s \in Stoppers, CountInv, CancelRunning(s)
  PROVE  AbstractStep
<1> DEFINE t == wcurrent[pool[sidx[s]]]
<1>1. CASE scancel[s] /\ t # None
  <2>1. t \in Tasks
    <3>1. pool[sidx[s]] \in Workers
      BY DEF CancelRunning, StopperAt, CountInv, TypeOK, PoolTypeOK, StoppersTypeOK
    <3> QED BY <3>1, <1>1 DEF CountInv, TypeOK, WorkersTypeOK
  <2>2. Lifecycle!Cancel(t)
    BY <1>1 DEF CancelRunning, Lifecycle!Cancel
  <2> QED BY <2>1, <2>2 DEF AbstractStep, Lifecycle!LNext
<1>2. CASE ~(scancel[s] /\ t # None)
  BY <1>2, NoTaskStep DEF CancelRunning
<1> QED BY <1>1, <1>2

LEMMA StepRefines == CountInv /\ OwnInv /\ [Next]_vars => AbstractStep
<1> SUFFICES ASSUME CountInv, OwnInv, [Next]_vars PROVE AbstractStep
  OBVIOUS
<1>1. ASSUME NEW c \in Clients, NEW t \in Tasks, Execute(c, t) PROVE AbstractStep
  <2>1. Lifecycle!Submit(t)
    BY <1>1 DEF Execute, Lifecycle!Submit, Lifecycle!Become
  <2> QED BY <2>1 DEF AbstractStep, Lifecycle!LNext
<1>2. ASSUME NEW t \in Tasks, CancelTask(t) PROVE AbstractStep
  <2>1. Lifecycle!Cancel(t)
    BY <1>2 DEF CancelTask, Lifecycle!Cancel
  <2> QED BY <2>1 DEF AbstractStep, Lifecycle!LNext
<1>3. ASSUME NEW c \in Clients, ClientStep(c) PROVE AbstractStep
  BY <1>3, NoTaskStep
     DEF ClientStep, PutHeap, PutCount, CheckSize, Spawn, AppendWorker, taskVars
<1>4. ASSUME NEW w \in Workers, WorkerStep(w) PROVE AbstractStep
  BY <1>4, WorkerRefines
<1>5. ASSUME NEW s \in Stoppers, CancelRunning(s) PROVE AbstractStep
  BY <1>5, CancelRefines
<1>6. ASSUME NEW s \in Stoppers,
             \/ \E cancel \in BOOLEAN : Shutdown(s, cancel)
             \/ SetShutdown(s) \/ PutStop(s) \/ EndLoop(s) \/ JoinCurrent(s)
      PROVE  AbstractStep
  BY <1>6, NoTaskStep DEF Shutdown, SetShutdown, PutStop, EndLoop, JoinCurrent, taskVars
<1>7. CASE Tick \/ UNCHANGED vars
  BY <1>7, NoTaskStep DEF Tick, vars, taskVars
<1> QED BY <1>1, <1>2, <1>3, <1>4, <1>5, <1>6, <1>7 DEF Next, StopperStep

\* The executor implements the abstract life of a task: each runnable is called at
\* most once and never after a cancel that came in time, and the final status tells
\* what it did.
THEOREM ImplementsLifecycle == Spec => RefinesLifecycle
<1>1. Init => Lifecycle!LInit
  BY DEF Init, Lifecycle!LInit
<1>2. CountInv /\ OwnInv /\ [Next]_vars => [Lifecycle!LNext]_(Lifecycle!lvars)
  BY StepRefines DEF AbstractStep
<1> QED
  BY <1>1, <1>2, TypeAndCount, Ownership, PTL DEF Spec, RefinesLifecycle, Lifecycle!LSpec
===============================================================================
