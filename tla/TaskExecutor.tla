----------------------------- MODULE TaskExecutor -----------------------------
(***************************************************************************)
(* The thread pool of nr.appfire.tasks.default: client threads inside      *)
(* DefaultExecutor.execute(), the worker threads inside Worker._mainloop(),*)
(* and threads inside DefaultExecutor.shutdown(), over one                 *)
(* TaskPriorityQueue.  An action is what a thread does between two points  *)
(* where another thread can see or disturb it.                             *)
(*                                                                         *)
(* The heap is the set of its tasks (a task is in it at most once: each    *)
(* execute() makes its own) with their due time in `at', and the number of *)
(* its stop tokens, which are put at time 0 and so come before every task. *)
(* A tick of `now' stands for many distinct floating point times: tasks    *)
(* due at the same tick leave the heap in either order.                    *)
(***************************************************************************)
EXTENDS TaskStatus, Naturals, Sequences, FiniteSets

CONSTANTS
  Tasks,        \* the tasks that may be submitted
  Patient,      \* the tasks whose runnable returns only once they are cancelled
  Clients,      \* threads that call execute()
  Workers,      \* worker threads, running or not yet spawned
  Stoppers,     \* threads that call shutdown()
  Outcomes,     \* what a runnable may do: "none", "value", "raise"
  MaxWorkers,   \* DefaultExecutor.max_workers
  MaxTime,      \* bound on the clock
  None

ASSUME ExecutorAssumption ==
  /\ IsFiniteSet(Tasks) /\ IsFiniteSet(Clients) /\ IsFiniteSet(Workers)
  /\ Patient \subseteq Tasks
  /\ Outcomes \subseteq {"none", "value", "raise"}
  /\ MaxWorkers \in Nat \ {0}
  /\ MaxTime \in Nat \ {0}
  /\ None \notin Tasks \cup Workers

VARIABLES
  status, cancelled,   \* per task: Task._status, Task._cancelled
  at, outcome,         \* per task: due time; what its runnable did so far
  queue, stops,        \* the heap: its tasks and the number of its stop tokens
  total, current,      \* TaskPriorityQueue._total and ._current
  pool, shutdown,      \* DefaultExecutor._pool_workers and ._shutdown
  cpc, ctask, cworker, \* per client: where it is, its task, the worker it spawned
  wpc, wtask,          \* per worker: where it is, the task _mainloop holds
  wcurrent,            \* per worker: Worker._current_task
  verdict, dying,      \* per worker: status to report; an exception is unwinding
  spc, sidx,           \* per stopper: where it is, its index into the pool
  scancel,             \* per stopper: shutdown(cancel_running_tasks)
  now

taskVars == <<status, cancelled, at, outcome>>
queueVars == <<queue, stops, total, current>>
poolVars == <<pool, shutdown>>
clientVars == <<cpc, ctask, cworker>>
workerVars == <<wpc, wtask, wcurrent, verdict, dying>>
stopVars == <<spc, sidx, scancel>>
vars == <<taskVars, queueVars, poolVars, clientVars, workerVars, stopVars, now>>

ClientPC == {"idle", "put", "inc", "size", "spawn", "append"}
WorkerPC == {"off", "get", "check", "wait", "taken", "set", "start", "run",
             "settle", "clear", "decCurrent", "decTotal", "stopped", "dead"}
StopPC == {"idle", "flag", "loop", "stop", "join", "done", "joined"}

Init ==
  /\ status = [t \in Tasks |-> "PENDING"]
  /\ cancelled = [t \in Tasks |-> FALSE]
  /\ at = [t \in Tasks |-> 0]
  /\ outcome = [t \in Tasks |-> "unrun"]
  /\ queue = {} /\ stops = 0
  /\ total = 0 /\ current = 0
  /\ pool = <<>> /\ shutdown = FALSE
  /\ cpc = [c \in Clients |-> "idle"]
  /\ ctask = [c \in Clients |-> None]
  /\ cworker = [c \in Clients |-> None]
  /\ wpc = [w \in Workers |-> "off"]
  /\ wtask = [w \in Workers |-> None]
  /\ wcurrent = [w \in Workers |-> None]
  /\ verdict = [w \in Workers |-> "PENDING"]
  /\ dying = [w \in Workers |-> FALSE]
  /\ spc = [s \in Stoppers |-> "idle"]
  /\ sidx = [s \in Stoppers |-> 1]
  /\ scancel = [s \in Stoppers |-> FALSE]
  /\ now = 1

-------------------------------------------------------------------------------
(* The queue's condition variable.  Its lock is held by a client from the   *)
(* heap insertion of put() to the end of put(); every other use of it is    *)
(* one action.                                                              *)

Locked == \E c \in Clients : cpc[c] = "inc"

Waiting == {w \in Workers : wpc[w] = "wait"}

\* Condition.notify(): one waiter, if there is one, goes back to Queue.get().
NotifyOne ==
  IF Waiting = {}
    THEN UNCHANGED <<wpc, wtask>>
    ELSE \E w \in Waiting :
           /\ wpc' = [wpc EXCEPT ![w] = "get"]
           /\ wtask' = [wtask EXCEPT ![w] = None]

NotifyAll ==
  /\ wpc' = [w \in Workers |-> IF w \in Waiting THEN "get" ELSE wpc[w]]
  /\ wtask' = [w \in Workers |-> IF w \in Waiting THEN None ELSE wtask[w]]

ClientAt(c, from, to) ==
  /\ cpc[c] = from
  /\ cpc' = [cpc EXCEPT ![c] = to]

WorkerAt(w, from, to) ==
  /\ wpc[w] = from
  /\ wpc' = [wpc EXCEPT ![w] = to]

StopperAt(s, from, to) ==
  /\ spc[s] = from
  /\ spc' = [spc EXCEPT ![s] = to]

-------------------------------------------------------------------------------
(* DefaultExecutor.execute()                                                *)

\* The entry: refused once the executor is shut down; the new task is QUEUED
\* before it is in the queue.  Without `at' (or with one in the past) the task
\* is due now, otherwise at a later tick.
Execute(c, t) ==
  /\ ~shutdown
  /\ status[t] = "PENDING"
  /\ ClientAt(c, "idle", "put")
  /\ ctask' = [ctask EXCEPT ![c] = t]
  /\ status' = [status EXCEPT ![t] = "QUEUED"]
  /\ \E due \in {now, now + 1} \cap 1..MaxTime : at' = [at EXCEPT ![t] = due]
  /\ UNCHANGED <<cancelled, outcome, queueVars, poolVars, cworker, workerVars,
                 stopVars, now>>

PutHeap(c) ==
  /\ ~Locked
  /\ ClientAt(c, "put", "inc")
  /\ queue' = queue \cup {ctask[c]}
  /\ UNCHANGED <<taskVars, stops, total, current, poolVars, ctask, cworker,
                 workerVars, stopVars, now>>

PutCount(c) ==
  /\ ClientAt(c, "inc", "size")
  /\ total' = total + 1
  /\ NotifyOne
  /\ UNCHANGED <<taskVars, queue, stops, current, poolVars, ctask, cworker,
                 wcurrent, verdict, dying, stopVars, now>>

\* DefaultExecutor._all_tasks: created at zero, read by execute(), and never
\* incremented.
AllTasks == 0

\* Mutant: every execute() spawns.
CheckSizeUnbounded(c) ==
  /\ ClientAt(c, "size", "spawn")
  /\ UNCHANGED <<taskVars, queueVars, poolVars, ctask, cworker, workerVars,
                 stopVars, now>>

\* execute() spawns a worker when as many tasks as workers are counted.
CheckSize(c) ==
  /\ IF AllTasks >= Len(pool) /\ AllTasks < MaxWorkers
       THEN ClientAt(c, "size", "spawn") /\ UNCHANGED ctask
       ELSE ClientAt(c, "size", "idle") /\ ctask' = [ctask EXCEPT ![c] = None]
  /\ UNCHANGED <<taskVars, queueVars, poolVars, cworker, workerVars, stopVars, now>>

\* _spawn_pool_worker: the thread runs before the pool knows it.
Spawn(c, w) ==
  /\ wpc[w] = "off"
  /\ ClientAt(c, "spawn", "append")
  /\ cworker' = [cworker EXCEPT ![c] = w]
  /\ wpc' = [wpc EXCEPT ![w] = "get"]
  /\ UNCHANGED <<taskVars, queueVars, poolVars, ctask, wtask, wcurrent, verdict,
                 dying, stopVars, now>>

AppendWorker(c) ==
  /\ ClientAt(c, "append", "idle")
  /\ pool' = Append(pool, cworker[c])
  /\ ctask' = [ctask EXCEPT ![c] = None]
  /\ cworker' = [cworker EXCEPT ![c] = None]
  /\ UNCHANGED <<taskVars, queueVars, shutdown, workerVars, stopVars, now>>

\* Whoever holds the task may cancel it: the caller of execute() once it has
\* returned, and the runnable itself.  Nobody reads the flag of a task that has
\* completed.
CancelTask(t) ==
  /\ status[t] \notin {"PENDING"} \cup Completed
  /\ ~cancelled[t]
  /\ status[t] = "RUNNING" \/ \A c \in Clients : ctask[c] # t
  /\ cancelled' = [cancelled EXCEPT ![t] = TRUE]
  /\ UNCHANGED <<status, at, outcome, queueVars, poolVars, clientVars, workerVars,
                 stopVars, now>>

-------------------------------------------------------------------------------
(* Worker._mainloop() and TaskPriorityQueue.get()                           *)

GetStop(w) ==
  /\ stops > 0
  /\ WorkerAt(w, "get", "stopped")
  /\ stops' = stops - 1
  /\ UNCHANGED <<taskVars, queue, total, current, poolVars, clientVars, wtask,
                 wcurrent, verdict, dying, stopVars, now>>

\* Mutant: the task is read but not removed.
GetTaskPeek(w, t) ==
  /\ stops = 0
  /\ t \in queue
  /\ WorkerAt(w, "get", "check")
  /\ wtask' = [wtask EXCEPT ![w] = t]
  /\ UNCHANGED <<taskVars, queueVars, poolVars, clientVars, wcurrent, verdict,
                 dying, stopVars, now>>

GetTask(w, t) ==
  /\ stops = 0
  /\ t \in queue
  /\ \A u \in queue : at[t] <= at[u]
  /\ WorkerAt(w, "get", "check")
  /\ wtask' = [wtask EXCEPT ![w] = t]
  /\ queue' = queue \ {t}
  /\ UNCHANGED <<taskVars, stops, total, current, poolVars, clientVars, wcurrent,
                 verdict, dying, stopVars, now>>

Due(t) == at[t] <= now \/ cancelled[t]

Take(w) ==
  /\ WorkerAt(w, "check", "taken")
  /\ Due(wtask[w])
  /\ current' = current + 1
  /\ UNCHANGED <<taskVars, queue, stops, total, poolVars, clientVars, wtask,
                 wcurrent, verdict, dying, stopVars, now>>

\* Mutant: the task is not put back.
DeferForgets(w) ==
  /\ WorkerAt(w, "check", "wait")
  /\ ~Due(wtask[w])
  /\ UNCHANGED <<taskVars, queueVars, poolVars, clientVars, wtask, wcurrent,
                 verdict, dying, stopVars, now>>

\* A task of the future goes back to the heap and the worker waits for its time.
Defer(w) ==
  /\ ~Locked
  /\ WorkerAt(w, "check", "wait")
  /\ ~Due(wtask[w])
  /\ queue' = queue \cup {wtask[w]}
  /\ UNCHANGED <<taskVars, stops, total, current, poolVars, clientVars, wtask,
                 wcurrent, verdict, dying, stopVars, now>>

\* Mutant: wait() without a timeout.
WaitTimeoutNever(w) ==
  /\ WorkerAt(w, "wait", "get")
  /\ FALSE
  /\ UNCHANGED <<taskVars, queueVars, poolVars, clientVars, wtask, wcurrent,
                 verdict, dying, stopVars, now>>

WaitTimeout(w) ==
  /\ ~Locked
  /\ WorkerAt(w, "wait", "get")
  /\ at[wtask[w]] <= now
  /\ wtask' = [wtask EXCEPT ![w] = None]
  /\ UNCHANGED <<taskVars, queueVars, poolVars, clientVars, wcurrent, verdict,
                 dying, stopVars, now>>

Report(t, s) == status' = [status EXCEPT ![t] = s]

\* Mutant: no task_done() for an ignored task.
IgnoreNotDone(w) ==
  /\ WorkerAt(w, "taken", "get")
  /\ cancelled[wtask[w]]
  /\ Report(wtask[w], "IGNORED")
  /\ wtask' = [wtask EXCEPT ![w] = None]
  /\ UNCHANGED <<cancelled, at, outcome, queueVars, poolVars, clientVars,
                 wcurrent, verdict, dying, stopVars, now>>

\* A task cancelled before it starts is reported IGNORED and not run.
Ignore(w) ==
  /\ WorkerAt(w, "taken", "decCurrent")
  /\ cancelled[wtask[w]]
  /\ Report(wtask[w], "IGNORED")
  /\ UNCHANGED <<cancelled, at, outcome, queueVars, poolVars, clientVars, wtask,
                 wcurrent, verdict, dying, stopVars, now>>

\* Mutant: the flag is not looked at.
AcceptCancelled(w) ==
  /\ WorkerAt(w, "taken", "set")
  /\ UNCHANGED <<taskVars, queueVars, poolVars, clientVars, wtask, wcurrent,
                 verdict, dying, stopVars, now>>

Accept(w) ==
  /\ WorkerAt(w, "taken", "set")
  /\ ~cancelled[wtask[w]]
  /\ UNCHANGED <<taskVars, queueVars, poolVars, clientVars, wtask, wcurrent,
                 verdict, dying, stopVars, now>>

SetCurrent(w) ==
  /\ WorkerAt(w, "set", "start")
  /\ wcurrent' = [wcurrent EXCEPT ![w] = wtask[w]]
  /\ UNCHANGED <<taskVars, queueVars, poolVars, clientVars, wtask, verdict, dying,
                 stopVars, now>>

StartRun(w) ==
  /\ WorkerAt(w, "start", "run")
  /\ Report(wtask[w], "RUNNING")
  /\ UNCHANGED <<cancelled, at, outcome, queueVars, poolVars, clientVars, wtask,
                 wcurrent, verdict, dying, stopVars, now>>

\* Mutant: a task that ends during a shutdown is taken for a cancelled one.
FinishRunShutdown(w, o) ==
  LET t == wtask[w] IN
  /\ WorkerAt(w, "run", "settle")
  /\ t \in Patient => cancelled[t]
  /\ outcome' = [outcome EXCEPT ![t] = o]
  /\ verdict' = [verdict EXCEPT ![w] = IF o = "raise" THEN "FAILED"
                                       ELSE IF shutdown THEN "CANCELLED"
                                       ELSE "SUCCEEDED"]
  /\ UNCHANGED <<status, cancelled, at, queueVars, poolVars, clientVars, wtask,
                 wcurrent, dying, stopVars, now>>

\* runnable.run() returns or raises; then _run_task reads the cancelled flag.
FinishRun(w, o) ==
  LET t == wtask[w] IN
  /\ WorkerAt(w, "run", "settle")
  /\ t \in Patient => cancelled[t]
  /\ outcome' = [outcome EXCEPT ![t] = o]
  /\ verdict' = [verdict EXCEPT ![w] = IF o = "raise" THEN "FAILED"
                                       ELSE IF cancelled[t] THEN "CANCELLED"
                                       ELSE "SUCCEEDED"]
  /\ UNCHANGED <<status, cancelled, at, queueVars, poolVars, clientVars, wtask,
                 wcurrent, dying, stopVars, now>>

\* _update(verdict, ...): a value is passed as `result', and so is the exception
\* of a failed runnable, which leaves `error' unset.
SettleRaises(w) ==
  LET t == wtask[w]
  IN  UpdateRaises(status[t], verdict[w], outcome[t] \in {"value", "raise"}, FALSE)

Settle(w) ==
  /\ WorkerAt(w, "settle", "clear")
  /\ IF SettleRaises(w)
       THEN dying' = [dying EXCEPT ![w] = TRUE] /\ UNCHANGED status
       ELSE Report(wtask[w], verdict[w]) /\ UNCHANGED dying
  /\ verdict' = [verdict EXCEPT ![w] = "PENDING"]
  /\ UNCHANGED <<cancelled, at, outcome, queueVars, poolVars, clientVars, wtask,
                 wcurrent, stopVars, now>>

\* The `finally' of _mainloop: _current_task, then task_done().
ClearCurrent(w) ==
  /\ WorkerAt(w, "clear", "decCurrent")
  /\ wcurrent' = [wcurrent EXCEPT ![w] = None]
  /\ UNCHANGED <<taskVars, queueVars, poolVars, clientVars, wtask, verdict, dying,
                 stopVars, now>>

\* Mutant: task_done() outside the `finally'.
DecCurrentUnlessDying(w) ==
  /\ WorkerAt(w, "decCurrent", "decTotal")
  /\ current' = IF dying[w] THEN current ELSE current - 1
  /\ UNCHANGED <<taskVars, queue, stops, total, poolVars, clientVars, wtask,
                 wcurrent, verdict, dying, stopVars, now>>

DecCurrent(w) ==
  /\ WorkerAt(w, "decCurrent", "decTotal")
  /\ current' = current - 1
  /\ UNCHANGED <<taskVars, queue, stops, total, poolVars, clientVars, wtask,
                 wcurrent, verdict, dying, stopVars, now>>

\* Mutant: a counter without the check for zero.
DecTotalUnchecked(w) ==
  /\ WorkerAt(w, "decTotal", IF dying[w] THEN "dead" ELSE "get")
  /\ dying' = [dying EXCEPT ![w] = FALSE]
  /\ total' = total - 1
  /\ wtask' = [wtask EXCEPT ![w] = None]
  /\ UNCHANGED <<taskVars, queue, stops, current, poolVars, clientVars, wcurrent,
                 verdict, stopVars, now>>

\* AtomicCounter.dec() raises at zero; an exception, this one or the one that is
\* unwinding, leaves _mainloop and ends the thread.
DecTotal(w) ==
  /\ IF total = 0 \/ dying[w]
       THEN WorkerAt(w, "decTotal", "dead")
       ELSE WorkerAt(w, "decTotal", "get")
  /\ dying' = [dying EXCEPT ![w] = FALSE]
  /\ total' = IF total = 0 THEN 0 ELSE total - 1
  /\ wtask' = [wtask EXCEPT ![w] = None]
  /\ UNCHANGED <<taskVars, queue, stops, current, poolVars, clientVars, wcurrent,
                 verdict, stopVars, now>>

-------------------------------------------------------------------------------
(* DefaultExecutor.shutdown()                                               *)

Shutdown(s, cancel) ==
  /\ ~shutdown
  /\ StopperAt(s, "idle", "flag")
  /\ scancel' = [scancel EXCEPT ![s] = cancel]
  /\ UNCHANGED <<taskVars, queueVars, poolVars, clientVars, workerVars, sidx, now>>

SetShutdown(s) ==
  /\ StopperAt(s, "flag", "loop")
  /\ shutdown' = TRUE
  /\ UNCHANGED <<taskVars, queueVars, pool, clientVars, workerVars, sidx, scancel,
                 now>>

\* One turn of the loop over the pool: cancel what the worker is known to run,
\* then put one stop token.
CancelRunning(s) ==
  /\ sidx[s] <= Len(pool)
  /\ StopperAt(s, "loop", "stop")
  /\ LET t == wcurrent[pool[sidx[s]]] IN
       cancelled' = IF scancel[s] /\ t # None
                      THEN [cancelled EXCEPT ![t] = TRUE] ELSE cancelled
  /\ UNCHANGED <<status, at, outcome, queueVars, poolVars, clientVars, workerVars,
                 sidx, scancel, now>>

\* Mutant: an idle worker gets no stop token.
PutStopToBusy(s) ==
  /\ ~Locked
  /\ StopperAt(s, "stop", "loop")
  /\ sidx' = [sidx EXCEPT ![s] = @ + 1]
  /\ stops' = IF wcurrent[pool[sidx[s]]] = None THEN stops ELSE stops + 1
  /\ NotifyAll
  /\ UNCHANGED <<taskVars, queue, total, current, poolVars, clientVars, wcurrent,
                 verdict, dying, scancel, now>>

PutStop(s) ==
  /\ ~Locked
  /\ StopperAt(s, "stop", "loop")
  /\ sidx' = [sidx EXCEPT ![s] = @ + 1]
  /\ stops' = stops + 1
  /\ NotifyAll
  /\ UNCHANGED <<taskVars, queue, total, current, poolVars, clientVars, wcurrent,
                 verdict, dying, scancel, now>>

\* shutdown(block) waits until no task is running, or just returns.
EndLoop(s) ==
  /\ sidx[s] > Len(pool)
  /\ StopperAt(s, "loop", "join") \/ StopperAt(s, "loop", "done")
  /\ UNCHANGED <<taskVars, queueVars, poolVars, clientVars, workerVars, sidx,
                 scancel, now>>

JoinCurrent(s) ==
  /\ current = 0
  /\ StopperAt(s, "join", "joined")
  /\ UNCHANGED <<taskVars, queueVars, poolVars, clientVars, workerVars, sidx,
                 scancel, now>>

Tick ==
  /\ now < MaxTime
  /\ now' = now + 1
  /\ UNCHANGED <<taskVars, queueVars, poolVars, clientVars, workerVars, stopVars>>

-------------------------------------------------------------------------------

ClientStep(c) ==
  \/ PutHeap(c)
  \/ PutCount(c)
  \/ CheckSize(c)
  \/ \E w \in Workers : Spawn(c, w)
  \/ AppendWorker(c)

WorkerStep(w) ==
  \/ GetStop(w)
  \/ \E t \in Tasks : GetTask(w, t)
  \/ Take(w)
  \/ Defer(w)
  \/ WaitTimeout(w)
  \/ Ignore(w)
  \/ Accept(w)
  \/ SetCurrent(w)
  \/ StartRun(w)
  \/ \E o \in Outcomes : FinishRun(w, o)
  \/ Settle(w)
  \/ ClearCurrent(w)
  \/ DecCurrent(w)
  \/ DecTotal(w)

StopperStep(s) ==
  \/ SetShutdown(s)
  \/ CancelRunning(s)
  \/ PutStop(s)
  \/ EndLoop(s)
  \/ JoinCurrent(s)

Next ==
  \/ \E c \in Clients, t \in Tasks : Execute(c, t)
  \/ \E t \in Tasks : CancelTask(t)
  \/ \E s \in Stoppers, cancel \in BOOLEAN : Shutdown(s, cancel)
  \/ \E c \in Clients : ClientStep(c)
  \/ \E w \in Workers : WorkerStep(w)
  \/ \E s \in Stoppers : StopperStep(s)
  \/ Tick

Spec == Init /\ [][Next]_vars

(***************************************************************************)
(* A thread that can run eventually does, a runnable that may return       *)
(* eventually does, and time passes.  Nobody has to call execute(),        *)
(* cancel() or shutdown().                                                 *)
(***************************************************************************)
Fairness ==
  /\ \A c \in Clients : WF_vars(ClientStep(c))
  /\ \A w \in Workers : WF_vars(WorkerStep(w))
  /\ \A s \in Stoppers : WF_vars(StopperStep(s))
  /\ WF_vars(Tick)

FairSpec == Spec /\ Fairness
-------------------------------------------------------------------------------
(* Type correctness                                                         *)

BeforeStart == {"check", "taken", "set", "start"}
WhileRunning == {"run", "settle"}
AfterRun == {"clear", "decCurrent", "decTotal"}
HoldingPC == BeforeStart \cup WhileRunning \cup AfterRun

TasksTypeOK ==
  /\ status \in [Tasks -> Status]
  /\ cancelled \in [Tasks -> BOOLEAN]
  /\ at \in [Tasks -> 0..MaxTime]
  /\ outcome \in [Tasks -> Outcomes \cup {"unrun"}]

QueueTypeOK ==
  /\ queue \in SUBSET Tasks
  /\ stops \in Nat /\ total \in Nat /\ current \in Nat

PoolTypeOK == pool \in Seq(Workers) /\ shutdown \in BOOLEAN

\* A client inside execute() has its task, one that spawned has its worker.
ClientsTypeOK ==
  /\ cpc \in [Clients -> ClientPC]
  /\ ctask \in [Clients -> Tasks \cup {None}]
  /\ cworker \in [Clients -> Workers \cup {None}]
  /\ \A c \in Clients : /\ cpc[c] # "idle" => ctask[c] \in Tasks
                        /\ cpc[c] = "append" => cworker[c] \in Workers

\* A worker that popped a task, or waits for its time, has it.
WorkersTypeOK ==
  /\ wpc \in [Workers -> WorkerPC]
  /\ wtask \in [Workers -> Tasks \cup {None}]
  /\ wcurrent \in [Workers -> Tasks \cup {None}]
  /\ verdict \in [Workers -> Status]
  /\ dying \in [Workers -> BOOLEAN]
  /\ \A w \in Workers : wpc[w] \in HoldingPC \cup {"wait"} => wtask[w] \in Tasks

StoppersTypeOK ==
  /\ spc \in [Stoppers -> StopPC]
  /\ sidx \in [Stoppers -> Nat \ {0}]
  /\ scancel \in [Stoppers -> BOOLEAN]

\* Every variable keeps its type, the stop tokens and the counters never
\* underflow, and no thread is where it needs a task or a worker without one.
TypeOK ==
  /\ TasksTypeOK
  /\ QueueTypeOK
  /\ PoolTypeOK
  /\ ClientsTypeOK
  /\ WorkersTypeOK
  /\ StoppersTypeOK
  /\ now \in 1..MaxTime

-------------------------------------------------------------------------------
(* Safety                                                                   *)

\* The worker has popped a task that it has not put back nor marked done.
Holding(w) == wpc[w] \in HoldingPC

\* Two threads never work on one task: it is with one client that is about to
\* queue it, or in the heap, or with one worker.
OneHolder ==
  /\ \A v, w \in Workers :
       Holding(v) /\ Holding(w) /\ wtask[v] = wtask[w] => v = w
  /\ \A w \in Workers : Holding(w) => wtask[w] \notin queue
  /\ \A c \in Clients :
       cpc[c] = "put" => /\ ctask[c] \notin queue
                         /\ \A w \in Workers : Holding(w) => wtask[w] # ctask[c]
                         /\ \A d \in Clients \ {c} : ctask[d] # ctask[c]

\* A queued task is never lost between execute(), the heap and a worker, however
\* often a worker pops it early and puts it back.
QueuedTaskIsSomewhere ==
  \A t \in Tasks :
    status[t] = "QUEUED" =>
      \/ t \in queue
      \/ \E c \in Clients : cpc[c] = "put" /\ ctask[c] = t
      \/ \E w \in Workers : wpc[w] \in BeforeStart /\ wtask[w] = t

\* The two results that _update refuses from _run_task: the runnable raised, or it
\* returned a value although it was cancelled.
Unreportable(t) == outcome[t] = "raise" \/ (outcome[t] = "value" /\ cancelled[t])

\* A task that stays RUNNING with no thread working on it is one whose result could
\* not be reported: no interleaving strands any other task.
RunningForeverIsUnreportable ==
  \A t \in Tasks :
    status[t] = "RUNNING" /\ ~(\E w \in Workers : Holding(w) /\ wtask[w] = t) =>
      Unreportable(t)

Unstarted(t) == status[t] = "QUEUED" /\ outcome[t] = "unrun"

\* What _run_task is about to report is what its runnable did.
VerdictIsTrue(w) ==
  LET t == wtask[w] IN
  \/ outcome[t] = "raise" /\ verdict[w] = "FAILED"
  \/ outcome[t] \in {"none", "value"} /\ verdict[w] = "SUCCEEDED"
  \/ outcome[t] \in {"none", "value"} /\ verdict[w] = "CANCELLED" /\ cancelled[t]

\* The status that every thread may see agrees with where the task is: nothing in
\* the heap or on its way to run() has been run, what runs is RUNNING, and what a
\* worker has finished with is completed or unreportable.
StagesAgree ==
  /\ \A t \in Tasks : status[t] = "PENDING" => outcome[t] = "unrun"
  /\ \A c \in Clients : ctask[c] # None => status[ctask[c]] # "PENDING"
  /\ \A t \in queue : Unstarted(t)
  /\ \A c \in Clients : cpc[c] = "put" => Unstarted(ctask[c])
  /\ \A w \in Workers :
       /\ wpc[w] \in BeforeStart => Unstarted(wtask[w])
       /\ wpc[w] = "run" => status[wtask[w]] = "RUNNING" /\ outcome[wtask[w]] = "unrun"
       /\ wpc[w] = "settle" => status[wtask[w]] = "RUNNING" /\ VerdictIsTrue(w)
       /\ wpc[w] \in AfterRun =>
            \/ status[wtask[w]] \in Completed
            \/ status[wtask[w]] = "RUNNING" /\ Unreportable(wtask[w])

\* _current, on which shutdown() blocks and from which the idle workers are
\* counted, is exactly the number of workers between get() and task_done().
CountedPC == {"taken", "set", "start", "run", "settle", "clear", "decCurrent"}
Counted == {w \in Workers : wpc[w] \in CountedPC}
CurrentCountsRunners == current = Cardinality(Counted)

\* _total, on which join() blocks, counts the tasks in the heap and at the
\* workers, less those whose put() has not counted them yet; once a worker found
\* it at zero and died of it, it only ever counts too many.
TotalCountsTasks ==
  LET counted == total + Cardinality({c \in Clients : cpc[c] = "inc"})
      present == Cardinality(queue) + Cardinality({w \in Workers : Holding(w)})
  IN  /\ counted >= present
      /\ (\A w \in Workers : wpc[w] # "dead") => counted = present

\* max_workers does not bound the workers, the number of threads inside
\* execute() does: each may find the pool empty once.
SpawnsBoundedByCallers ==
  Cardinality({w \in Workers : wpc[w] # "off"}) <= Cardinality(Clients)

Spawned == {w \in Workers : wpc[w] # "off"}
Ended(w) == wpc[w] \in {"off", "stopped", "dead"}

\* The workers the loop of shutdown() has sent a stop token for.
Reached(s) == {pool[i] : i \in 1..(sidx[s] - 1)}

\* After the loop of shutdown() there is a stop token for every worker still
\* alive, provided no worker was spawned behind its back: from then on no queued
\* task is started.
TokensCoverLiveWorkers ==
  \A s \in Stoppers :
    spc[s] \in {"join", "done", "joined"} /\ Spawned \subseteq Reached(s)
      => stops >= Cardinality({w \in Spawned : ~Ended(w)})

\* The executor implements the life of a task that TaskLifecycle promises.
Lifecycle == INSTANCE TaskLifecycle
RefinesLifecycle == Lifecycle!LSpec

\* A task cancelled while it is in the heap is never run: a worker that pops it
\* sees the flag, whatever its due time.
CancelledInQueueNeverRuns ==
  \A t \in Tasks :
    [](t \in queue /\ cancelled[t] => [](status[t] \in {"QUEUED", "IGNORED"}))

-------------------------------------------------------------------------------
(* Liveness                                                                 *)

\* A runnable waits for a cancel() that need not come.
Sleeping(t) == t \in Patient /\ ~cancelled[t] /\ status[t] = "RUNNING"
SomeoneSleeps == \E t \in Tasks : Sleeping(t)

\* Every queued task is run or ignored in the end, also one that a worker put
\* back until its time, unless shutdown() came first, a worker died, or one is
\* kept busy for ever.
QueuedTaskIsServed ==
  \A t \in Tasks :
    status[t] = "QUEUED" ~>
      \/ status[t] # "QUEUED"
      \/ shutdown
      \/ \E w \in Workers : wpc[w] = "dead"
      \/ SomeoneSleeps

\* A blocking shutdown() returns unless a runnable sleeps that no one cancelled,
\* for instance one that started between get_current_task() and join_current().
ShutdownReturns ==
  \A s \in Stoppers : spc[s] = "join" ~> spc[s] = "joined" \/ SomeoneSleeps

\* No stop token is overlooked, also by a worker that began to wait for the time
\* of a task after the token was put: it is taken while a worker is alive.
StopTokensAreTaken ==
  stops > 0 ~> stops = 0 \/ SomeoneSleeps \/ \A w \in Workers : Ended(w)

-------------------------------------------------------------------------------
(* What the documentation says and the code does not do                     *)

\* api.py, FAILED: "The task has failed (#Task.error will be set with the Python
\* exception)": a task whose runnable raised ends FAILED.
FailedIsReported ==
  \A t \in Tasks :
    outcome[t] = "raise" /\ ~(\E w \in Workers : Holding(w) /\ wtask[w] = t)
      => status[t] = "FAILED"

\* api.py, shutdown(): "preventing new tasks from being exexuted ... By default,
\* the method blocks until all running tasks have exited": after a blocking
\* shutdown() that knew every worker, no runnable runs.
NothingRunsAfterShutdown ==
  \A s \in Stoppers :
    spc[s] = "joined" /\ Spawned \subseteq Reached(s)
      => \A w \in Workers : wpc[w] # "run"

\* api.py, join(): "Block until all pending and currently running tasks have been
\* processed": join() can pass (_total is zero) only if every task in the heap is
\* one whose execute() has not returned.
JoinWaitsForPending ==
  total = 0 => \A t \in queue : \E c \in Clients : ctask[c] = t
===============================================================================
