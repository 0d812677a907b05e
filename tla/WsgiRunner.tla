------------------------------ MODULE WsgiRunner ------------------------------
(***************************************************************************)
(* nr.utils.wsgi and nr.utils.process: processes that run a FlaskRunner    *)
(* with one pidfile, and a stop() that goes through process_terminate().   *)
(* The operating system gives the number of a process that has ended to    *)
(* another one, a server or not.                                           *)
(***************************************************************************)
EXTENDS Naturals, FiniteSets

CONSTANTS Pids, None,
  Empty      \* a pidfile that was opened and not yet written

VARIABLES
  pc,        \* per pid: "free", "other" (no server), or where its server is
  pidfile,   \* a pid, Empty, or None when there is no file
  pending,   \* per pid: the signals sent to it and not yet taken
  stop,      \* process_terminate(): its phase, the pid, whether it is still that process
  raced,     \* history: a run() passed its check while another was between check and pidfile
  recycled   \* history: a pid was given away while the pidfile or stop() refer to it

vars == <<pc, pidfile, pending, stop, raced, recycled>>

Init ==
  /\ pc = [p \in Pids |-> "free"] /\ pidfile \in Pids \cup {None}
  /\ pending = [p \in Pids |-> {}] /\ stop = [phase |-> "idle", pid |-> None, same |-> FALSE]
  /\ raced = FALSE /\ recycled = FALSE

\* process_exists(): signal 0 reaches every process, the caller's own too.
Exists(p) == pc[p] # "free"
Starting == {p \in Pids : pc[p] \in {"checked", "open"}}
Serving == {p \in Pids : pc[p] = "serving"}

\* Pidfile.get_status()
Status ==
  IF pidfile = None THEN "stopped"
  ELSE IF pidfile = Empty THEN "unknown"
  ELSE IF Exists(pidfile) THEN "running" ELSE "stopped"

Fresh(p, to) ==
  /\ pc[p] = "free" /\ pc' = [pc EXCEPT ![p] = to]
  /\ recycled' = (recycled \/ p = pidfile \/ p = stop.pid)

Launch(p) == Fresh(p, "launched") /\ UNCHANGED <<pidfile, pending, stop, raced>>
Other(p) == Fresh(p, "other") /\ UNCHANGED <<pidfile, pending, stop, raced>>

Gone(p) ==
  /\ pending' = [pending EXCEPT ![p] = {}]
  /\ stop' = [stop EXCEPT !.same = @ /\ stop.pid # p]
Ends(p) == pc' = [pc EXCEPT ![p] = "free"] /\ Gone(p)

\* Mutant: an unknown status is an error as well.
CheckUnknown(p) ==
  /\ pc[p] = "launched" /\ pc' = [pc EXCEPT ![p] = "checked"]
  /\ raced' = (raced \/ Starting # {})
  /\ UNCHANGED <<pidfile, pending, stop, recycled>>

\* run(): the status is looked at before anything is written.
Check(p) ==
  /\ pc[p] = "launched" /\ Status # "running"
  /\ pc' = [pc EXCEPT ![p] = "checked"]
  /\ raced' = (raced \/ Starting # {})
  /\ UNCHANGED <<pidfile, pending, stop, recycled>>

Refuse(p) ==
  /\ pc[p] = "launched" /\ Status = "running" /\ Ends(p)
  /\ UNCHANGED <<pidfile, raced, recycled>>

\* spawn_daemon(): the grandchild q goes on, with a pid of its own.
Spawn(p, q) ==
  /\ pc[p] = "checked" /\ pc[q] = "free"
  /\ pc' = [pc EXCEPT ![p] = "free", ![q] = "checked"] /\ Gone(p)
  /\ recycled' = (recycled \/ q = pidfile \/ q = stop.pid)
  /\ UNCHANGED <<pidfile, raced>>

\* _run(): opening the file empties it; the server runs once it is written.
OpenPidfile(p) ==
  /\ pc[p] = "checked" /\ pc' = [pc EXCEPT ![p] = "open"] /\ pidfile' = Empty
  /\ UNCHANGED <<pending, stop, raced, recycled>>

WritePidfile(p) ==
  /\ pc[p] = "open" /\ pc' = [pc EXCEPT ![p] = "serving"] /\ pidfile' = p
  /\ UNCHANGED <<pending, stop, raced, recycled>>

\* app.run() returns, raises, or is interrupted: `finally' removes the file, whosever it is.
EndServing(p) ==
  /\ pc[p] = "serving"
  /\ pidfile' = None /\ Ends(p)
  /\ UNCHANGED <<raced, recycled>>

\* SIGINT runs `finally' in a server; every other signal, and every other process, ends at once.
Interrupt(p) == "int" \in pending[p] /\ EndServing(p)

Die(p) ==
  /\ pending[p] # {} /\ ~(pc[p] = "serving" /\ pending[p] = {"int"}) /\ Ends(p)
  /\ UNCHANGED <<pidfile, raced, recycled>>

-------------------------------------------------------------------------------
\* Pidfile.stop() reads the pid once; process_terminate() then only knows the number.
Stop ==
  /\ stop.phase = "idle" /\ pidfile \in Pids
  /\ stop' = [phase |-> "int", pid |-> pidfile, same |-> Exists(pidfile)]
  /\ UNCHANGED <<pc, pidfile, pending, raced, recycled>>

Goto(phase) == stop' = [stop EXCEPT !.phase = phase]
After == [int |-> "wait1", wait1 |-> "term", term |-> "wait2", wait2 |-> "kill",
          kill |-> "wait3", wait3 |-> "failed"]

\* kill(): ESRCH means that the process is gone already.
Signal ==
  /\ stop.phase \in {"int", "term", "kill"}
  /\ \/ /\ Exists(stop.pid) /\ Goto(After[stop.phase])
        /\ pending' = [pending EXCEPT ![stop.pid] = @ \cup {stop.phase}]
     \/ ~Exists(stop.pid) /\ Goto("terminated") /\ UNCHANGED pending
  /\ UNCHANGED <<pc, pidfile, raced, recycled>>

\* _wait(): the process is seen to be gone, or the time is over.
Wait ==
  /\ stop.phase \in {"wait1", "wait2", "wait3"}
  /\ \/ ~Exists(stop.pid) /\ Goto("terminated")
     \/ Exists(stop.pid) /\ Goto(After[stop.phase])
  /\ UNCHANGED <<pc, pidfile, pending, raced, recycled>>

StopReturns ==
  /\ stop.phase \in {"terminated", "failed"}
  /\ stop' = [phase |-> "idle", pid |-> None, same |-> FALSE]
  /\ UNCHANGED <<pc, pidfile, pending, raced, recycled>>

Next ==
  \/ \E p \in Pids :
       \/ Launch(p) \/ Other(p) \/ Check(p) \/ Refuse(p) \/ OpenPidfile(p) \/ WritePidfile(p)
       \/ EndServing(p) \/ Interrupt(p) \/ Die(p)
  \/ \E p, q \in Pids : Spawn(p, q)
  \/ Stop \/ Signal \/ Wait \/ StopReturns

Spec == Init /\ [][Next]_vars

-------------------------------------------------------------------------------
\* Runs that do not start at the same time: one server at most, and the pidfile names it,
\* whatever files were left behind by servers that were killed (runners.py:313, 358-377).
OneServerInPidfile == ~raced => \A p \in Serving : pidfile = p

\* As long as no pid is given away while somebody knows it: who is signalled is a server,
\* and a launch is refused only if there is one (runners.py:235, 249).
PidsAreServers ==
  ~recycled =>
    /\ \A p \in Pids : pending[p] # {} => pc[p] # "other"
    /\ Status = "running" => pc[pidfile] = "serving"

\* process_terminate() returns True only when the process it was asked for is gone.
TerminatedIsGone == stop.phase = "terminated" => ~stop.same

-------------------------------------------------------------------------------
(* The inductive invariant.                                                 *)

\* None and Empty are no pids.
PidsAreNumbers == None \notin Pids /\ Empty \notin Pids /\ None # Empty

Phases == {"idle", "int", "wait1", "term", "wait2", "kill", "wait3", "terminated", "failed"}

TypeOK ==
  /\ pc \in [Pids -> {"free", "other", "launched", "checked", "open", "serving"}]
  /\ pidfile \in Pids \cup {None, Empty}
  /\ pending \in [Pids -> SUBSET {"int", "term", "kill"}]
  /\ stop \in [phase : Phases, pid : Pids \cup {None}, same : BOOLEAN]
  /\ stop.phase # "idle" => stop.pid \in Pids
  /\ raced \in BOOLEAN /\ recycled \in BOOLEAN

\* A run() that has passed its check is alone, unless one raced it.
StartsAlone == ~raced => \A p \in Starting, q \in Starting \cup Serving : p = q

\* A pid that is known to somebody is that of a server or free, unless it was given away.
KnownIsServer ==
  ~recycled =>
    /\ \A p \in Pids : p = pidfile \/ p = stop.pid => pc[p] \in {"serving", "free"}
    /\ \A p \in Pids : pending[p] # {} => pc[p] = "serving"

SameIsThere == stop.same => stop.pid \in Pids /\ Exists(stop.pid)

IInv ==
  /\ TypeOK
  /\ OneServerInPidfile /\ StartsAlone
  /\ KnownIsServer
  /\ SameIsThere /\ TerminatedIsGone
===============================================================================
