------------------------------- MODULE Reloader -------------------------------
(***************************************************************************)
(* nr.config.reloader: the threads that call ReloadTask.reload() or get(), *)
(* the thread of a PollingFileObserver that calls reload() when the file's *)
(* modification time changes, and the thread that starts and stops it.     *)
(*                                                                         *)
(* A version of the file is a number that grows with every modification;   *)
(* it stands for the content and for the modification time.  The value 0   *)
(* is the None of a task that has not loaded anything yet.  _data_lock is  *)
(* held for one action at a time, _reload_lock is `holder'.                *)
(***************************************************************************)
EXTENDS Naturals, FiniteSets

CONSTANTS
  Callers,       \* threads that call reload() and get()
  Poller,        \* the thread of the observer
  Callbacks,     \* the callbacks that may be registered
  Reentrant,     \* those of them that call reload() themselves
  MaxVersion,    \* bound on the modifications of the file
  None

ASSUME ReloaderAssumption ==
  /\ Poller \notin Callers
  /\ None \notin Callers \cup {Poller}
  /\ Reentrant \subseteq Callbacks
  /\ MaxVersion \in Nat \ {0}

VARIABLES
  file,        \* the version on disk
  holder,      \* who holds _reload_lock
  value,       \* _value; _num_reloads > 0 iff it is not 0
  registered,  \* _callbacks
  pc,          \* per thread: where it is in reload()
  config,      \* per thread: the local `config'
  todo,        \* per thread: what is left of the loop over the callbacks
  last,        \* per callback: the config it was last called with
  observer,    \* the observer: "none", "running", "stopping"
  mtime, new,  \* _run: its locals mtime and new_mtime
  attempted,   \* the newest version a load has read
  waited       \* the poller's latest reload() waited for another one

dataVars == <<file, value, registered, last, attempted>>
pollVars == <<observer, mtime, new>>
vars == <<dataVars, holder, pc, config, todo, pollVars, waited>>

Threads == Callers \cup {Poller}
Versions == 1..MaxVersion

Init ==
  /\ file = 1
  /\ holder = None
  /\ value = 0
  /\ registered = {}
  /\ pc = [t \in Threads |-> "idle"]
  /\ config = [t \in Threads |-> 0]
  /\ todo = [t \in Threads |-> {}]
  /\ last = [b \in Callbacks |-> 0]
  /\ observer = "none"
  /\ mtime = 0 /\ new = 0
  /\ attempted = 0
  /\ waited = FALSE

Goto(t, from, to) ==
  /\ pc[t] = from
  /\ pc' = [pc EXCEPT ![t] = to]

\* The end of reload(): a caller may call again, the poller goes on in _run.
After(t) == IF t = Poller THEN "polled" ELSE "idle"

-------------------------------------------------------------------------------
(* The file, and the registration of callbacks                              *)

Modify ==
  /\ file < MaxVersion
  /\ file' = file + 1
  /\ UNCHANGED <<holder, value, registered, pc, config, todo, last, pollVars,
                 attempted, waited>>

\* reload_callback(): a loop that is running sees the new callback, too.
Register(b) ==
  /\ b \notin registered
  /\ registered' = registered \cup {b}
  /\ todo' = [t \in Threads |-> IF pc[t] = "callbacks" THEN todo[t] \cup {b} ELSE todo[t]]
  /\ UNCHANGED <<file, holder, value, pc, config, last, pollVars, attempted, waited>>

-------------------------------------------------------------------------------
(* ReloadTask.reload() and get()                                            *)

\* A caller of reload(), or of get() while nothing was loaded: is the lock held?
Enter(t) ==
  /\ t \in Callers
  /\ Goto(t, "idle", IF holder = None THEN "acquire" ELSE "toWait")
  /\ UNCHANGED <<dataVars, holder, config, todo, pollVars, waited>>

\* The poller calls reload() by _file_modified(); `waited' is for the properties.
EnterPoller ==
  /\ Goto(Poller, "modified", IF holder = None THEN "acquire" ELSE "toWait")
  /\ waited' = (holder # None)
  /\ UNCHANGED <<dataVars, holder, config, todo, pollVars>>

\* _data_lock.wait(): whether the reload that was seen is still going on is not
\* looked at again.
Wait(t) ==
  /\ Goto(t, "toWait", "waiting")
  /\ UNCHANGED <<dataVars, holder, config, todo, pollVars, waited>>

NotifyAll == [t \in Threads |-> IF pc[t] = "waiting" THEN "awake" ELSE pc[t]]

Awake(t) ==
  /\ Goto(t, "awake", After(t))
  /\ UNCHANGED <<dataVars, holder, config, todo, pollVars, waited>>

\* Mutant: the lock is only tested, never taken.
AcquireFree(t) ==
  /\ Goto(t, "acquire", "load")
  /\ holder' = t
  /\ UNCHANGED <<dataVars, config, todo, pollVars, waited>>

Acquire(t) ==
  /\ holder = None
  /\ Goto(t, "acquire", "load")
  /\ holder' = t
  /\ UNCHANGED <<dataVars, config, todo, pollVars, waited>>

\* load_config_function reads the file as it is now, or raises: the file may be
\* missing, or only half written.
Load(t, raises) ==
  /\ Goto(t, "load", IF raises THEN "failed" ELSE "publish")
  /\ config' = [config EXCEPT ![t] = IF raises THEN 0 ELSE file]
  /\ attempted' = IF file > attempted THEN file ELSE attempted
  /\ UNCHANGED <<file, value, registered, last, holder, todo, pollVars, waited>>

\* Mutant: the `except' branch does not notify.
FailSilently(t) ==
  /\ Goto(t, "failed", "release")
  /\ UNCHANGED <<dataVars, holder, config, todo, pollVars, waited>>

\* A load that raised wakes the waiting threads and leaves the value alone.
Fail(t) ==
  /\ pc[t] = "failed"
  /\ pc' = [NotifyAll EXCEPT ![t] = "release"]
  /\ UNCHANGED <<dataVars, holder, config, todo, pollVars, waited>>

Publish(t) ==
  /\ pc[t] = "publish"
  /\ pc' = [NotifyAll EXCEPT ![t] = "callbacks"]
  /\ value' = config[t]
  /\ todo' = [todo EXCEPT ![t] = registered]
  /\ UNCHANGED <<file, registered, last, attempted, holder, config, pollVars, waited>>

\* A callback returns or raises: the loop goes on.
Call(t, b) ==
  /\ pc[t] = "callbacks"
  /\ b \in todo[t] \ Reentrant
  /\ todo' = [todo EXCEPT ![t] = @ \ {b}]
  /\ last' = [last EXCEPT ![b] = config[t]]
  /\ UNCHANGED <<file, value, registered, attempted, holder, pc, config, pollVars, waited>>

\* A callback that calls reload() finds the lock held, by its own thread, and waits
\* for a notification that only the holder of the lock sends.
CallReload(t, b) ==
  /\ b \in todo[t] \cap Reentrant
  /\ Goto(t, "callbacks", "selfWait")
  /\ last' = [last EXCEPT ![b] = config[t]]
  /\ UNCHANGED <<file, value, registered, attempted, holder, config, todo, pollVars, waited>>

\* Mutant: the lock is released before the callbacks are called.
EndCallbacksEarly(t) ==
  /\ Goto(t, "callbacks", "release")
  /\ UNCHANGED <<dataVars, holder, config, todo, pollVars, waited>>

EndCallbacks(t) ==
  /\ todo[t] = {}
  /\ Goto(t, "callbacks", "release")
  /\ UNCHANGED <<dataVars, holder, config, todo, pollVars, waited>>

Release(t) ==
  /\ Goto(t, "release", After(t))
  /\ holder' = None
  /\ config' = [config EXCEPT ![t] = 0]
  /\ todo' = [todo EXCEPT ![t] = {}]
  /\ UNCHANGED <<dataVars, pollVars, waited>>

-------------------------------------------------------------------------------
(* PollingFileObserver, ReloadTask.start() and .stop()                      *)

Start ==
  /\ observer = "none"
  /\ observer' = "running"
  /\ Goto(Poller, "idle", "begin")
  /\ UNCHANGED <<dataVars, holder, config, todo, mtime, new, waited>>

\* The thread takes the time it compares with when it gets to run.
Begin ==
  /\ Goto(Poller, "begin", "test")
  /\ mtime' = file
  /\ UNCHANGED <<dataVars, holder, config, todo, observer, new, waited>>

\* Mutant: the loop of _run does not look at _stopped.
TestNever ==
  /\ Goto(Poller, "test", "sleep")
  /\ UNCHANGED <<dataVars, holder, config, todo, pollVars, waited>>

\* `while not self._stopped': either the thread sleeps once more, or it ends, which
\* is what stop() waits for in join().
Test ==
  /\ Goto(Poller, "test", IF observer = "running" THEN "sleep" ELSE "idle")
  /\ observer' = IF observer = "running" THEN "running" ELSE "none"
  /\ mtime' = IF observer = "running" THEN mtime ELSE 0
  /\ UNCHANGED <<dataVars, holder, config, todo, new, waited>>

Poll ==
  /\ Goto(Poller, "sleep", IF mtime # file THEN "modified" ELSE "test")
  /\ new' = IF mtime # file THEN file ELSE 0
  /\ UNCHANGED <<dataVars, holder, config, todo, observer, mtime, waited>>

\* Mutant: the time is taken after the reload.
PolledLate ==
  /\ Goto(Poller, "polled", "test")
  /\ mtime' = file /\ new' = 0
  /\ waited' = FALSE
  /\ UNCHANGED <<dataVars, holder, config, todo, observer>>

Polled ==
  /\ Goto(Poller, "polled", "test")
  /\ mtime' = new /\ new' = 0
  /\ waited' = FALSE
  /\ UNCHANGED <<dataVars, holder, config, todo, observer>>

Stop ==
  /\ observer = "running"
  /\ observer' = "stopping"
  /\ UNCHANGED <<dataVars, holder, pc, config, todo, mtime, new, waited>>

-------------------------------------------------------------------------------

ReloadStep(t) ==
  \/ Wait(t)
  \/ Awake(t)
  \/ Acquire(t)
  \/ \E raises \in BOOLEAN : Load(t, raises)
  \/ Fail(t)
  \/ Publish(t)
  \/ \E b \in Callbacks : Call(t, b) \/ CallReload(t, b)
  \/ EndCallbacks(t)
  \/ Release(t)

PollStep == Begin \/ Test \/ Poll \/ EnterPoller \/ Polled

Next ==
  \/ Modify
  \/ \E b \in Callbacks : Register(b)
  \/ \E t \in Threads : Enter(t) \/ ReloadStep(t)
  \/ PollStep
  \/ Start
  \/ Stop

Spec == Init /\ [][Next]_vars

(***************************************************************************)
(* A thread that can run eventually does; one that competes for the lock   *)
(* may be overtaken, so it needs strong fairness to get it.  Nobody has to *)
(* call reload(), to modify the file, to start or to stop the observer.    *)
(***************************************************************************)
Fairness ==
  /\ \A t \in Threads : WF_vars(ReloadStep(t)) /\ SF_vars(Acquire(t))
  /\ WF_vars(PollStep)

FairSpec == Spec /\ Fairness
-------------------------------------------------------------------------------
(* Properties                                                               *)

PCs == {"idle", "acquire", "toWait", "waiting", "awake", "load", "failed",
        "publish", "callbacks", "selfWait", "release",
        "begin", "test", "sleep", "modified", "polled"}

\* The threads that hold _reload_lock.
Inside == {t \in Threads :
             pc[t] \in {"load", "failed", "publish", "callbacks", "selfWait", "release"}}

\* Every variable keeps its type, and the lock is held by the one thread inside.
TypeOK ==
  /\ file \in Versions
  /\ holder \in Threads \cup {None}
  /\ Inside = {holder} \ {None}
  /\ value \in {0} \cup Versions
  /\ registered \subseteq Callbacks
  /\ pc \in [Threads -> PCs]
  /\ config \in [Threads -> {0} \cup Versions]
  /\ todo \in [Threads -> SUBSET Callbacks]
  /\ last \in [Callbacks -> {0} \cup Versions]
  /\ observer \in {"none", "running", "stopping"}
  /\ mtime \in {0} \cup Versions /\ new \in {0} \cup Versions
  /\ attempted \in {0} \cup Versions
  /\ waited \in BOOLEAN

\* get() never goes back to an older configuration, however many threads reload:
\* the file is read and the value set under one lock.
ValueNeverGoesBack == [][value' >= value]_value

\* When no reload is going on, every callback that has been called at all was last
\* called with the current value.
CallbacksAreCaughtUp ==
  holder = None => \A b \in Callbacks : last[b] \in {0, value}

\* The poller takes a modification for handled only if a load has read the file
\* since, also when the file changes again during its reload(); except when its
\* reload() waited for one that had read the file before.
SeenIsLoaded ==
  [][pc[Poller] = "polled" /\ pc'[Poller] # "polled" => waited \/ attempted >= mtime']_vars

\* A thread that waits before the reload it waits for has ended is woken, also if
\* that reload fails.
WaitersAreWoken ==
  \A t \in Threads :
    pc[t] = "waiting" /\ (\E u \in Inside : pc[u] \in {"load", "failed", "publish"})
      ~> pc[t] # "waiting"

\* stop() returns, unless the observer's thread waits for a reload that has ended,
\* or a callback has the lock for ever.
StopReturns ==
  observer = "stopping" ~>
    \/ observer # "stopping"
    \/ pc[Poller] = "waiting"
    \/ \E t \in Threads : pc[t] = "selfWait"

\* reloader.py, reload(): "Two concurrent calls of this method will result in one
\* thread waiting for the other to finish": the waiting ends.
WaitingEnds == \A t \in Callers : pc[t] = "waiting" ~> pc[t] # "waiting"
===============================================================================
