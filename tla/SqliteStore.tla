----------------------------- MODULE SqliteStore -----------------------------
(***************************************************************************)
(* nr.caching: the key-value store of one namespace of an SqliteStore, and *)
(* the threads that call load(), store(), expunge() and get_keys() on it.  *)
(*                                                                         *)
(* The clock counts ticks, Res of them to a second, so that a moment may   *)
(* fall between two seconds; the column `exp' counts seconds.  A row also  *)
(* has the history of its life: `at', the tick its store() read, and       *)
(* `life', the expires_in it was asked for.  They are no columns, and no   *)
(* action tests them.  A statement and the commit after it are one action: *)
(* the lock is held, and no other process uses the database.               *)
(***************************************************************************)
EXTENDS Integers, FiniteSets

CONSTANTS
  Threads,     \* threads that call the store
  Keys,        \* the keys they use
  Values,      \* the values they store
  Lifetimes,   \* the values of expires_in, in seconds, NULL for none
  Res,         \* ticks to a second
  MaxNow,      \* bound on the clock
  None         \* no thread, no request

NULL == -1

ASSUME SqliteAssumption ==
  /\ None \notin Threads
  /\ Lifetimes \subseteq Nat \cup {NULL}
  /\ Res \in Nat \ {0}
  /\ MaxNow \in Nat

VARIABLES
  now,      \* the clock, in ticks
  table,    \* the rows of the table of the namespace
  lock,     \* the thread that holds _lock
  pc,       \* per thread: where it is in its call
  req,      \* per thread: the arguments of its call
  seen,     \* per thread: the tick at which it read the clock
  found     \* per thread: the set of the value its load() returns, if any

storeVars == <<table, lock, pc, req, seen, found>>
vars == <<now, storeVars>>

Row == [key : Keys, val : Values, exp : Nat \cup {NULL}, at : Nat, life : Lifetimes]

Request == [op : {"load", "store", "expunge", "keys"},
            key : Keys, val : Values, life : Lifetimes]

\* _get_time(add) when the clock shows `tick': the second, rounded up.
GetTime(tick, add) == (tick + add * Res + Res - 1) \div Res

Init ==
  /\ now = 0
  /\ table = {}
  /\ lock = None
  /\ pc = [t \in Threads |-> "idle"]
  /\ req = [t \in Threads |-> None]
  /\ seen = [t \in Threads |-> 0]
  /\ found = [t \in Threads |-> {}]

Tick ==
  /\ now < MaxNow
  /\ now' = now + 1
  /\ UNCHANGED storeVars

Goto(t, from, to) ==
  /\ pc[t] = from
  /\ pc' = [pc EXCEPT ![t] = to]

-------------------------------------------------------------------------------

Call(t, r) ==
  /\ Goto(t, "idle", "acquire")
  /\ req' = [req EXCEPT ![t] = r]
  /\ UNCHANGED <<now, table, lock, seen, found>>

\* Mutant: _locked_cursor() without the lock.
AcquireUnlocked(t) ==
  /\ lock' = t
  /\ Goto(t, "acquire", IF req[t].op = "keys" THEN "iterate" ELSE "clock")
  /\ UNCHANGED <<now, table, req, seen, found>>

\* _locked_cursor().  The keys are selected at once; the other calls go on to
\* compute a time.
Acquire(t) ==
  /\ lock = None
  /\ lock' = t
  /\ Goto(t, "acquire", IF req[t].op = "keys" THEN "iterate" ELSE "clock")
  /\ UNCHANGED <<now, table, req, seen, found>>

\* The call of time.time(), under the lock.  (A store() without expires_in makes
\* none; the tick is only history then.)
ReadClock(t) ==
  /\ Goto(t, "clock", "execute")
  /\ seen' = [seen EXCEPT ![t] = now]
  /\ UNCHANGED <<now, table, lock, req, found>>

\* Mutant: a row is returned up to the second of its `exp'.
LoadableThrough(row, tick) == row.exp = NULL \/ GetTime(tick, 0) <= row.exp

\* The condition on `exp' of the SELECT.
Loadable(row, tick) == row.exp = NULL \/ GetTime(tick, 0) < row.exp

\* The execution of a statement ends the call and releases the lock.
Execute(t, op) ==
  /\ pc[t] = "execute" /\ req[t].op = op
  /\ pc' = [pc EXCEPT ![t] = "done"]
  /\ lock' = None
  /\ seen' = [seen EXCEPT ![t] = 0]

\* The rows that the SELECT of load() returns.
Selected(t) == {row \in table : row.key = req[t].key /\ Loadable(row, seen[t])}

\* Mutant: the lock is kept when KeyDoesNotExist is raised.
SelectKeepsLock(t) ==
  /\ pc[t] = "execute" /\ req[t].op = "load"
  /\ pc' = [pc EXCEPT ![t] = "done"]
  /\ seen' = [seen EXCEPT ![t] = 0]
  /\ \/ \E row \in Selected(t) : found' = [found EXCEPT ![t] = {row.val}] /\ lock' = None
     \/ Selected(t) = {} /\ UNCHANGED <<found, lock>>
  /\ UNCHANGED <<now, table, req>>

\* load(): the value of the row, or KeyDoesNotExist.
Select(t) ==
  /\ Execute(t, "load")
  /\ \/ \E row \in Selected(t) : found' = [found EXCEPT ![t] = {row.val}]
     \/ Selected(t) = {} /\ UNCHANGED found
  /\ UNCHANGED <<now, table, req>>

\* The row that store() inserts.
NewRow(t) ==
  LET r == req[t] IN
  [key |-> r.key, val |-> r.val, at |-> seen[t], life |-> r.life,
   exp |-> IF r.life = NULL THEN NULL ELSE GetTime(seen[t], r.life)]

\* store(): INSERT OR REPLACE.
Insert(t) ==
  /\ Execute(t, "store")
  /\ table' = {row \in table : row.key # req[t].key} \cup {NewRow(t)}
  /\ UNCHANGED <<now, req, found>>

\* Mutant: NULL counts as less than every time.
DeleteNull(t) ==
  /\ Execute(t, "expunge")
  /\ table' = {row \in table : ~(row.exp < GetTime(seen[t], 0))}
  /\ UNCHANGED <<now, req, found>>

\* expunge(): DELETE WHERE exp < now, which is never true of NULL.
Delete(t) ==
  /\ Execute(t, "expunge")
  /\ table' = {row \in table : ~(row.exp # NULL /\ row.exp < GetTime(seen[t], 0))}
  /\ UNCHANGED <<now, req, found>>

\* The caller of get_keys() has exhausted or dropped the generator.
EndKeys(t) ==
  /\ Goto(t, "iterate", "done")
  /\ lock' = None
  /\ UNCHANGED <<now, table, req, seen, found>>

\* The call returns, or raises KeyDoesNotExist.
Return(t) ==
  /\ Goto(t, "done", "idle")
  /\ req' = [req EXCEPT ![t] = None]
  /\ found' = [found EXCEPT ![t] = {}]
  /\ UNCHANGED <<now, table, lock, seen>>

\* It calls the store from the body of its loop instead: it waits for a lock that
\* it holds itself.
CallInsideLoop(t) ==
  /\ Goto(t, "iterate", "stuck")
  /\ UNCHANGED <<now, table, lock, req, seen, found>>

Step(t) ==
  \/ Acquire(t)
  \/ ReadClock(t)
  \/ Select(t)
  \/ Insert(t)
  \/ Delete(t)
  \/ EndKeys(t)
  \/ CallInsideLoop(t)

Next ==
  \/ Tick
  \/ \E t \in Threads : Step(t) \/ Return(t) \/ \E r \in Request : Call(t, r)

Spec == Init /\ [][Next]_vars

-------------------------------------------------------------------------------

\* Every variable keeps its type, a key has one row (PRIMARY KEY), and a thread
\* is past the `with' of _locked_cursor() iff it holds the lock.
TypeOK ==
  /\ now \in Nat
  /\ table \subseteq Row
  /\ \A r1, r2 \in table : r1.key = r2.key => r1 = r2
  /\ lock \in Threads \cup {None}
  /\ pc \in [Threads -> {"idle", "acquire", "clock", "execute", "iterate", "stuck", "done"}]
  /\ req \in [Threads -> Request \cup {None}]
  /\ \A t \in Threads : pc[t] # "idle" => req[t] \in Request
  /\ seen \in [Threads -> Nat]
  /\ found \in [Threads -> SUBSET Values]
  /\ \A t \in Threads : lock = t <=> pc[t] \in {"clock", "execute", "iterate", "stuck"}

\* The moment at which a row stored for `life' seconds has been kept that long.
Deadline(row) == row.at + row.life * Res

\* A load() never returns a value whose lifetime was over when it read the clock,
\* whatever part of a second the store() and the load() fell on.
LoadedIsAlive ==
  [][\A t \in Threads : \A v \in found'[t] \ found[t] :
        \E row \in table : /\ row.key = req[t].key /\ row.val = v
                           /\ row.life # NULL => seen[t] < Deadline(row)]_vars

\* expunge() reclaims no row that a load() would still return, even though it
\* compares with a time read before the DELETE ran.
ExpungeKeepsLoadable ==
  [][\A row \in table : row \notin table' =>
        \/ ~Loadable(row, now)
        \/ \E new \in table' \ table : new.key = row.key]_vars

\* The row of a key is never replaced by one that was given its time earlier: a
\* store() reads the clock only when no other one can come in between.
WrittenInClockOrder ==
  [][\A old \in table, new \in table' : old.key = new.key => old.at <= new.at]_vars

\* sqlite.py: "Value expiration only has a second-resolution (rounded up)": what is
\* stored for some seconds is there until they are over.
ExpirationIsRoundedUp ==
  \A row \in table : row.life # NULL /\ now < Deadline(row) => Loadable(row, now)
===============================================================================
