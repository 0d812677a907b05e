---------------------------- MODULE CachingProofs ----------------------------
(***************************************************************************)
(* Theorems about nr.caching.                                              *)
(*                                                                         *)
(* 1. SqliteStore, for every set of threads, keys, values and lifetimes,   *)
(*    and every resolution of the clock.  Only SqliteAssumption is used    *)
(*    here, nothing of JsonCache.                                          *)
(* 2. JsonCache: it is a client of its SqliteStore, so that what is proved *)
(*    of the store holds of it, and evolve() loses updates to overlapping  *)
(*    calls only.                                                          *)
(***************************************************************************)
EXTENDS JsonCache, TLAPS

(* 1. SqliteStore.                                                          *)

\* A row has the `exp' its store() gave it, and was not written in the future.
RowsInv ==
  \A row \in table :
    /\ row.at <= now
    /\ row.exp = IF row.life = NULL THEN NULL ELSE GetTime(row.at, row.life)

\* The thread that is about to run its statement has read the clock after every row
\* was written.
ClockInv ==
  \A t \in Threads :
    /\ seen[t] <= now
    /\ pc[t] = "execute" => \A row \in table : row.at <= seen[t]

IInv == TypeOK /\ RowsInv /\ ClockInv

-------------------------------------------------------------------------------

\* _get_time() returns a second, later for a later moment, for every Res: the
\* rounding never puts two moments in the wrong order.
LEMMA GetTimeMonotone ==
  ASSUME NEW a \in Nat, NEW b \in Nat, NEW m \in Nat, NEW n \in Nat,
         a + m * Res <= b + n * Res
  PROVE  /\ GetTime(a, m) \in Nat
         /\ GetTime(a, m) <= GetTime(b, n)
<1>1. /\ m * Res \in Nat /\ n * Res \in Nat
      /\ Res \in Nat \ {0}
  BY SqliteAssumption
<1> DEFINE x == a + m * Res + Res - 1
           y == b + n * Res + Res - 1
<1>2. x \in Nat /\ y \in Nat /\ x <= y
  BY <1>1
<1>3. x \div Res \in Nat /\ x \div Res <= y \div Res
  <2> HIDE DEF x, y
  <2> QED BY <1>1, <1>2
<1> QED BY <1>3 DEF GetTime

LEMMA GetTimeType ==
  ASSUME NEW a \in Nat, NEW m \in Nat
  PROVE  GetTime(a, m) \in Nat
<1>1. a + m * Res <= a + m * Res
  BY SqliteAssumption
<1> QED BY <1>1, GetTimeMonotone

\* A loadable row has not reached its deadline.
LEMMA LoadableIsAlive ==
  ASSUME NEW tick \in Nat, NEW row \in Row,
         row.life # NULL, row.exp = GetTime(row.at, row.life),
         Loadable(row, tick)
  PROVE  tick < Deadline(row)
<1>1. row.at \in Nat /\ row.life \in Nat
  BY SqliteAssumption DEF Row
<1>2. row.life * Res \in Nat
  BY <1>1, SqliteAssumption
<1>3. row.exp \in Nat
  BY <1>1, GetTimeType
<1>4. GetTime(tick, 0) < row.exp
  BY <1>3 DEF Loadable, NULL
<1>5. GetTime(tick, 0) \in Nat
  BY GetTimeType
<1>6. CASE row.at + row.life * Res <= tick + 0 * Res
  <2>1. row.exp <= GetTime(tick, 0)
    BY <1>1, <1>6, GetTimeMonotone
  <2> QED BY <1>3, <1>4, <1>5, <2>1
<1>7. CASE ~(row.at + row.life * Res <= tick + 0 * Res)
  BY <1>1, <1>2, <1>7, SqliteAssumption DEF Deadline
<1> QED BY <1>6, <1>7

\* What expunge() deletes cannot be loaded, then or later.
LEMMA ExpungedIsNotLoadable ==
  ASSUME NEW tick \in Nat, NEW later \in Nat, tick <= later, NEW row \in Row,
         row.exp # NULL, row.exp < GetTime(tick, 0)
  PROVE  ~Loadable(row, later)
<1>1. tick + 0 * Res <= later + 0 * Res
  BY SqliteAssumption
<1>2. GetTime(tick, 0) \in Nat /\ GetTime(later, 0) \in Nat
  BY GetTimeType
<1>3. GetTime(tick, 0) <= GetTime(later, 0)
  BY <1>1, GetTimeMonotone
<1>4. row.exp \in Nat
  BY DEF Row
<1> QED BY <1>2, <1>3, <1>4 DEF Loadable

-------------------------------------------------------------------------------

LEMMA InitIInv == Init => IInv
BY SqliteAssumption DEF Init, IInv, TypeOK, RowsInv, ClockInv

\* The row that store() inserts is one, written at the time it read.
LEMMA NewRowIsRow ==
  ASSUME TypeOK, NEW t \in Threads, pc[t] = "execute"
  PROVE  /\ NewRow(t) \in Row
         /\ NewRow(t).at = seen[t]
         /\ NewRow(t).key = req[t].key
         /\ NewRow(t).exp = IF NewRow(t).life = NULL THEN NULL
                            ELSE GetTime(NewRow(t).at, NewRow(t).life)
<1>1. req[t] \in Request
  BY DEF TypeOK
<1>2. seen[t] \in Nat /\ req[t].life \in Lifetimes
  BY <1>1 DEF TypeOK, Request
<1>3. req[t].life # NULL => GetTime(seen[t], req[t].life) \in Nat
  BY <1>2, SqliteAssumption, GetTimeType DEF NULL
<1> QED BY <1>1, <1>2, <1>3 DEF NewRow, Row, Request, NULL

-------------------------------------------------------------------------------
(* The invariant is inductive: one lemma per part, one step per action      *)

LEMMA TypePreserved == TypeOK /\ [Next]_vars => TypeOK'
<1> SUFFICES ASSUME TypeOK, [Next]_vars PROVE TypeOK'
  OBVIOUS
<1> USE DEF TypeOK, storeVars
<1>1. CASE Tick
  BY <1>1 DEF Tick
<1>2. ASSUME NEW t \in Threads, NEW r \in Request, Call(t, r)
      PROVE  TypeOK'
  BY <1>2, SqliteAssumption DEF Call, Goto, Request
<1>3. ASSUME NEW t \in Threads, Return(t)
      PROVE  TypeOK'
  BY <1>3, SqliteAssumption DEF Return, Goto
<1>4. ASSUME NEW t \in Threads, Step(t)
      PROVE  TypeOK'
  <2>1. CASE Acquire(t)
    BY <2>1, SqliteAssumption DEF Acquire, Goto
  <2>2. CASE ReadClock(t)
    BY <2>2, SqliteAssumption DEF ReadClock, Goto
  <2>3. CASE Select(t)
    <3>1. found' \in [Threads -> SUBSET Values]
      BY <2>3 DEF Select, Selected, Row
    <3> QED BY <2>3, <3>1, SqliteAssumption DEF Select, Execute
  <2>4. CASE Insert(t)
    <3>1. NewRow(t) \in Row /\ NewRow(t).key = req[t].key
      BY <2>4, NewRowIsRow DEF Insert, Execute
    <3>2. table' \subseteq Row /\ \A r1, r2 \in table' : r1.key = r2.key => r1 = r2
      BY <2>4, <3>1 DEF Insert
    <3> QED BY <2>4, <3>2, SqliteAssumption DEF Insert, Execute
  <2>5. CASE Delete(t)
    <3>1. table' \subseteq table
      BY <2>5 DEF Delete
    <3> QED BY <2>5, <3>1, SqliteAssumption DEF Delete, Execute
  <2>6. CASE EndKeys(t)
    BY <2>6, SqliteAssumption DEF EndKeys, Goto
  <2>7. CASE CallInsideLoop(t)
    BY <2>7, SqliteAssumption DEF CallInsideLoop, Goto
  <2> QED BY <1>4, <2>1, <2>2, <2>3, <2>4, <2>5, <2>6, <2>7 DEF Step
<1>5. CASE UNCHANGED vars
  BY <1>5 DEF vars
<1> QED BY <1>1, <1>2, <1>3, <1>4, <1>5 DEF Next

LEMMA RowsPreserved == IInv /\ [Next]_vars => RowsInv'
<1> SUFFICES ASSUME IInv, [Next]_vars PROVE RowsInv'
  OBVIOUS
<1> USE DEF IInv, TypeOK, storeVars
<1>1. now' \in Nat /\ now <= now'
  BY DEF Next, Tick, vars, Call, Return, Step, Acquire, ReadClock, Select, Insert, Delete,
         EndKeys, CallInsideLoop
<1>2. CASE table' \subseteq table
  BY <1>1, <1>2 DEF RowsInv, GetTime, Row
<1>3. ASSUME NEW t \in Threads, Insert(t)
      PROVE  RowsInv'
  <2>1. /\ NewRow(t).at <= now'
        /\ NewRow(t).exp = IF NewRow(t).life = NULL THEN NULL
                           ELSE GetTime(NewRow(t).at, NewRow(t).life)
    BY <1>1, <1>3, NewRowIsRow DEF Insert, Execute, ClockInv
  <2> QED BY <1>1, <1>3, <2>1 DEF Insert, RowsInv, GetTime
<1>4. CASE ~ \E t \in Threads : Insert(t)
  <2>1. table' \subseteq table
    BY <1>4 DEF Next, Tick, vars, Call, Return, Step, Acquire, ReadClock, Select, Delete,
                EndKeys, CallInsideLoop
  <2> QED BY <1>2, <2>1
<1> QED BY <1>3, <1>4

\* The reading of one thread stays the newest while it has the lock: the thread
\* alone can insert a row.
LEMMA ClockPreserved == IInv /\ [Next]_vars => ClockInv'
<1> SUFFICES ASSUME IInv, [Next]_vars PROVE ClockInv'
  OBVIOUS
<1> USE DEF IInv, TypeOK, storeVars
<1>1. CASE Tick
  BY <1>1 DEF Tick, ClockInv
<1>2. ASSUME NEW t \in Threads, NEW r \in Request, Call(t, r)
      PROVE  ClockInv'
  BY <1>2 DEF Call, Goto, ClockInv
<1>3. ASSUME NEW t \in Threads, Return(t)
      PROVE  ClockInv'
  BY <1>3 DEF Return, Goto, ClockInv
<1>4. ASSUME NEW t \in Threads, Step(t)
      PROVE  ClockInv'
  <2>1. CASE Acquire(t)
    BY <2>1 DEF Acquire, Goto, ClockInv
  <2>2. CASE ReadClock(t)
    BY <2>2 DEF ReadClock, Goto, ClockInv, RowsInv
  <2>3. ASSUME NEW op, Execute(t, op), now' = now
        PROVE  ClockInv'
    <3>1. \A u \in Threads : pc'[u] # "execute"
      BY <2>3, SqliteAssumption DEF Execute
    <3>2. \A u \in Threads : seen'[u] <= now'
      BY <2>3 DEF Execute, ClockInv
    <3> QED BY <3>1, <3>2 DEF ClockInv
  <2>4. CASE EndKeys(t)
    BY <2>4 DEF EndKeys, Goto, ClockInv
  <2>5. CASE CallInsideLoop(t)
    BY <2>5 DEF CallInsideLoop, Goto, ClockInv
  <2> QED BY <1>4, <2>1, <2>2, <2>3, <2>4, <2>5 DEF Step, Select, Insert, Delete
<1>5. CASE UNCHANGED vars
  BY <1>5 DEF vars, ClockInv
<1> QED BY <1>1, <1>2, <1>3, <1>4, <1>5 DEF Next

LEMMA Inductive == Spec => []IInv
<1>1. IInv /\ [Next]_vars => IInv'
  BY TypePreserved, RowsPreserved, ClockPreserved DEF IInv
<1> QED BY <1>1, InitIInv, PTL DEF Spec

-------------------------------------------------------------------------------

\* The types are right, a key has one row, and whoever is past the `with' of
\* _locked_cursor() is alone there, for any number of threads.
THEOREM TypeCorrect == Spec => []TypeOK
<1>1. IInv => TypeOK
  BY DEF IInv
<1> QED BY <1>1, Inductive, PTL

\* What load() returns was alive when it read the clock, for every resolution of
\* the clock and every lifetime.
THEOREM LoadsAreAlive == Spec => LoadedIsAlive
<1> DEFINE Alive ==
      \A t \in Threads : \A v \in found'[t] \ found[t] :
        \E row \in table : /\ row.key = req[t].key /\ row.val = v
                           /\ row.life # NULL => seen[t] < Deadline(row)
<1>1. IInv /\ [Next]_vars => [Alive]_vars
  <2> SUFFICES ASSUME IInv, Next PROVE Alive
    BY DEF IInv
  <2> SUFFICES ASSUME NEW t \in Threads, NEW v \in found'[t] \ found[t]
               PROVE  \E row \in table :
                        /\ row.key = req[t].key /\ row.val = v
                        /\ row.life # NULL => seen[t] < Deadline(row)
    OBVIOUS
  <2>1. Select(t)
    BY DEF IInv, TypeOK, Next, Tick, storeVars, Call, Return, Step, Acquire, ReadClock,
           Select, Insert, Delete, EndKeys, CallInsideLoop
  <2>2. PICK row \in Selected(t) : found' = [found EXCEPT ![t] = {row.val}]
    BY <2>1 DEF Select
  <2>3. /\ row \in table /\ row \in Row
        /\ row.key = req[t].key /\ Loadable(row, seen[t])
    BY <2>2 DEF Selected, IInv, TypeOK
  <2>4. row.val = v
    BY <2>2 DEF IInv, TypeOK
  <2>5. row.life # NULL => seen[t] < Deadline(row)
    BY <2>3, LoadableIsAlive DEF IInv, TypeOK, RowsInv
  <2> QED BY <2>3, <2>4, <2>5
<1> QED BY <1>1, Inductive, PTL DEF LoadedIsAlive, Spec

\* expunge() takes nothing that load() would still return, for every resolution.
THEOREM ExpungeIsSafe == Spec => ExpungeKeepsLoadable
<1> DEFINE Kept ==
      \A row \in table : row \notin table' =>
        \/ ~Loadable(row, now)
        \/ \E new \in table' \ table : new.key = row.key
<1>1. IInv /\ [Next]_vars => [Kept]_vars
  <2> SUFFICES ASSUME IInv, Next, NEW row \in table, row \notin table'
               PROVE  \/ ~Loadable(row, now)
                      \/ \E new \in table' \ table : new.key = row.key
    BY DEF IInv
  <2>1. PICK t \in Threads : Insert(t) \/ Delete(t)
    BY DEF Next, Tick, storeVars, Call, Return, Step, Acquire, ReadClock, Select, EndKeys,
           CallInsideLoop
  <2>2. CASE Insert(t)
    <3>1. row.key = req[t].key /\ NewRow(t).key = req[t].key
      BY <2>2, NewRowIsRow DEF Insert, Execute, IInv
    <3>2. NewRow(t) \in table'
      BY <2>2 DEF Insert
    <3>3. NewRow(t) \notin table
      BY <3>1, <3>2 DEF IInv, TypeOK
    <3> QED BY <3>1, <3>2, <3>3
  <2>3. CASE Delete(t)
    <3>1. row.exp # NULL /\ row.exp < GetTime(seen[t], 0)
      BY <2>3 DEF Delete
    <3>2. seen[t] \in Nat /\ now \in Nat /\ seen[t] <= now /\ row \in Row
      BY DEF IInv, TypeOK, ClockInv
    <3> QED BY <3>1, <3>2, ExpungedIsNotLoadable
  <2> QED BY <2>1, <2>2, <2>3
<1> QED BY <1>1, Inductive, PTL DEF ExpungeKeepsLoadable, Spec

\* The rows of a key are written in the order of their times: the clock is read
\* under the lock.
THEOREM ClockOrder == Spec => WrittenInClockOrder
<1> DEFINE Ordered == \A old \in table, new \in table' : old.key = new.key => old.at <= new.at
<1>1. IInv /\ [Next]_vars => [Ordered]_vars
  <2> SUFFICES ASSUME IInv, Next, NEW old \in table, NEW new \in table', old.key = new.key
               PROVE  old.at <= new.at
    BY DEF IInv
  <2>1. CASE new \in table
    <3>1. old = new /\ new \in Row
      BY <2>1 DEF IInv, TypeOK
    <3> QED BY <3>1 DEF Row
  <2>2. CASE new \notin table
    <3>1. PICK t \in Threads : Insert(t)
      BY <2>2 DEF Next, Tick, storeVars, Call, Return, Step, Acquire, ReadClock, Select,
                  Delete, EndKeys, CallInsideLoop
    <3>2. new = NewRow(t) /\ pc[t] = "execute"
      BY <2>2, <3>1 DEF Insert, Execute
    <3>3. new.at = seen[t]
      BY <3>2, NewRowIsRow DEF IInv
    <3> QED BY <3>2, <3>3 DEF IInv, ClockInv
  <2> QED BY <2>1, <2>2
<1> QED BY <1>1, Inductive, PTL DEF WrittenInClockOrder, Spec
-------------------------------------------------------------------------------
(* 2. JsonCache.                                                            *)

\* What the store is doing for a thread is what its job asked for.
CallOK(t) ==
  /\ found[t] # {} => pc[t] = "done"
  /\ job[t].stage = "load" =>
       pc[t] # "idle" /\ req[t].op = "load" /\ req[t].key = job[t].key
  /\ job[t].stage \in {"get", "update", "updated", "raised"} => pc[t] = "idle"
  /\ job[t].stage \in {"updated", "raised"} => t \in job[t].dict
  /\ job[t].kind = "evolve" /\ job[t].stage = "store" => req[t].val = job[t].dict

\* A fresh job has the dictionary of the row of its key, or is about to get it.
FreshOK(t) ==
  job[t].kind = "evolve" /\ job[t].fresh =>
    \E row \in table :
      /\ row.key = job[t].key
      /\ IF job[t].stage = "load" THEN found[t] = {row.val}
                                  ELSE row.val \subseteq job[t].dict

JobsInv == \A t \in Threads : CallOK(t) /\ FreshOK(t)

CacheInv == CacheTypeOK /\ JobsInv

\* Mapped to the store, a step of the cache is one of the store, or none.
LEMMA StoreDoesAStep ==
  ASSUME CacheTypeOK, [CacheNext]_cacheVars
  PROVE  [Next]_vars
<1> USE JsonCacheAssumption DEF CacheTypeOK, SetJob
<1>1. ASSUME NEW t \in Threads, CacheStep(t)
      PROVE  [Next]_vars
  <2>1. ASSUME NEW v \in Values, job[t] # NoJob, CallStore(t, v)
        PROVE  Next
    <3>1. PICK e \in Lifetimes :
            Call(t, [op |-> "store", key |-> job[t].key, val |-> v, life |-> e])
      BY <2>1 DEF CallStore
    <3>2. [op |-> "store", key |-> job[t].key, val |-> v, life |-> e] \in Request
      BY <2>1 DEF Job, Request
    <3> QED BY <3>1, <3>2 DEF Next
  <2>2. CASE GetStores(t)
    BY <2>1, <2>2 DEF GetStores, In, NoJob
  <2>3. ASSUME NEW s \in BOOLEAN, Finally(t, s)
        PROVE  [Next]_vars
    <3>1. job[t] \in Job /\ job[t] # NoJob
      BY <2>3 DEF Finally, NoJob
    <3> QED BY <2>1, <2>3, <3>1 DEF Finally, Job
  <2>4. CASE StoreStep(t)
    BY <2>4 DEF StoreStep, Next
  <2>5. CASE Return(t)
    BY <2>5 DEF Next
  <2>6. CASE UNCHANGED vars
    BY <2>6
  <2> QED BY <1>1, <2>2, <2>3, <2>4, <2>5, <2>6
          DEF CacheStep, DirectReturn, LoadingHit, LoadingMiss, GetRaises, EvolveLoaded,
              Update, Stored
<1>2. ASSUME NEW t \in Threads, CacheBegin(t)
      PROVE  [Next]_vars
  <2>1. ASSUME NEW op \in {"load", "store", "expunge", "keys"}, NEW k \in Keys,
               NEW e \in Lifetimes,
               Call(t, [op |-> op, key |-> k, val |-> {}, life |-> e])
        PROVE  Next
    BY <2>1 DEF Next, Request
  <2>2. ASSUME NEW k \in Keys, NEW op \in {"load", "store", "expunge", "keys"},
               NEW e \in Lifetimes, Direct(t, op, k, e)
        PROVE  Next
    BY <2>1, <2>2 DEF Direct
  <2>3. ASSUME NEW k \in Keys, NEW kind \in {"loading", "evolve"}, NEW if_ \in BOOLEAN,
               Begin(t, kind, k, if_)
        PROVE  [Next]_vars
    BY <2>1, <2>3 DEF Begin, CallLoad
  <2> QED BY <1>2, <2>2, <2>3 DEF CacheBegin
<1>3. CASE UNCHANGED cacheVars
  BY <1>3 DEF cacheVars
<1> QED BY <1>1, <1>2, <1>3 DEF CacheNext, Next

-------------------------------------------------------------------------------
(* The invariant is inductive                                               *)

LEMMA InitCacheInv == CacheInit => CacheInv
BY InitIInv DEF CacheInit, CacheInv, CacheTypeOK, JobsInv, CallOK, FreshOK, NoJob, Init, IInv

\* Steps of the store.
LEMMA StoreStepKeeps ==
  ASSUME CacheInv, NEW t \in Threads, StoreStep(t), TypeOK'
  PROVE  CacheInv'
<1> USE DEF CacheInv, CacheTypeOK, JobsInv, TypeOK
<1>1. ASSUME NEW u \in Threads
      PROVE  /\ job'[u] \in Job \cup {NoJob}
             /\ job'[u].stage = job[u].stage /\ job'[u].kind = job[u].kind
             /\ job[u].kind = "evolve" =>
                  /\ job'[u].dict = job[u].dict /\ job'[u].key = job[u].key
                  /\ job'[u].fresh => \/ u = t /\ found'[t] # {}
                                      \/ job[u].fresh /\ table' = table
             /\ job[u].kind # "evolve" => job'[u] = job[u]
  <2>1. job[u] \in Job \cup {NoJob}
    OBVIOUS
  <2>2. CASE job[u].kind # "evolve"
    BY <2>1, <2>2 DEF StoreStep
  <2>3. CASE job[u].kind = "evolve"
    <3>1. job[u] \in Job
      BY <2>1, <2>3 DEF NoJob
    <3> DEFINE b == IF u = t /\ found'[t] # {} THEN TRUE ELSE job[u].fresh /\ table' = table
    <3>2. job'[u] = [job[u] EXCEPT !.fresh = b]
      BY <2>3 DEF StoreStep
    <3>3. b \in BOOLEAN /\ (b => \/ u = t /\ found'[t] # {}
                                 \/ job[u].fresh /\ table' = table)
      BY <3>1 DEF Job
    <3> HIDE DEF b
    <3> QED BY <2>3, <3>1, <3>2, <3>3 DEF Job
  <2> QED BY <2>2, <2>3
<1>2. job' \in [Threads -> Job \cup {NoJob}]
  BY <1>1 DEF StoreStep
<1>3. /\ pc[t] \in {"acquire", "clock", "execute", "iterate"}
      /\ pc'[t] # "idle" /\ req' = req
      /\ \A u \in Threads \ {t} : pc'[u] = pc[u] /\ found'[u] = found[u]
      /\ found'[t] # found[t] => Select(t) /\ pc'[t] = "done"
  BY DEF StoreStep, Step, Acquire, ReadClock, Select, Insert, Delete, EndKeys,
         CallInsideLoop, Execute, Goto
<1>4. found[t] = {} /\ (found'[t] # {} => Select(t) /\ pc'[t] = "done")
  BY <1>3 DEF CallOK
<1>5. ASSUME NEW u \in Threads
      PROVE  /\ job'[u].stage = "load" => job'[u].key = job[u].key
             /\ job'[u].stage = "store" => job'[u].key = job[u].key
  BY <1>1
<1>6. CacheTypeOK'
  BY <1>1, <1>2, <1>3, <1>5
<1>7. ASSUME NEW u \in Threads
      PROVE  CallOK(u)'
  BY <1>1, <1>3, <1>4, <1>5 DEF CallOK
<1>8. ASSUME NEW u \in Threads, job'[u].kind = "evolve", job'[u].fresh
      PROVE  \E row \in table' :
               /\ row.key = job'[u].key
               /\ IF job'[u].stage = "load" THEN found'[u] = {row.val}
                                            ELSE row.val \subseteq job'[u].dict
  <2>0. job[u] \in Job /\ job[u].kind = "evolve"
    BY <1>1, <1>8 DEF NoJob
  <2>1. CASE u = t /\ found'[t] # {}
    <3>1. PICK row \in Selected(t) : found' = [found EXCEPT ![t] = {row.val}]
      BY <1>4, <2>1 DEF Select
    <3>2. row \in table' /\ row.key = req[t].key
      BY <1>4, <2>1 DEF Select, Selected
    <3>3. req[t].op = "load"
      BY <1>4, <2>1 DEF Select, Execute
    <3>4. job[t].stage = "load"
      BY <1>3, <2>0, <2>1, <3>3 DEF Job, CallOK
    <3> QED BY <1>1, <2>0, <2>1, <3>1, <3>2, <3>4 DEF CallOK
  <2>2. CASE ~(u = t /\ found'[t] # {})
    <3>1. job[u].fresh /\ table' = table
      BY <1>1, <1>8, <2>0, <2>2
    <3>2. found'[u] = found[u]
      BY <1>3, <1>4, <2>2
    <3> QED BY <1>1, <1>8, <2>0, <3>1, <3>2 DEF FreshOK
  <2> QED BY <2>1, <2>2
<1> QED BY <1>6, <1>7, <1>8 DEF FreshOK

\* A step of a job that leaves the table and the other threads alone.
LEMMA OneJobChanges ==
  ASSUME CacheInv, TypeOK', NEW t \in Threads, NEW j \in Job \cup {NoJob},
         job' = [job EXCEPT ![t] = j], table' = table,
         \A u \in Threads \ {t} : pc'[u] = pc[u] /\ req'[u] = req[u] /\ found'[u] = found[u],
         j.stage = "store" =>
           /\ pc'[t] # "idle"
           /\ req'[t].op = "store" /\ req'[t].key = j.key /\ t \in req'[t].val,
         CallOK(t)', FreshOK(t)'
  PROVE  CacheInv'
<1> USE DEF CacheInv, CacheTypeOK, JobsInv
<1>1. /\ job' \in [Threads -> Job \cup {NoJob}] /\ job'[t] = j
      /\ \A u \in Threads \ {t} : job'[u] = job[u]
  OBVIOUS
<1>2. ASSUME NEW u \in Threads
      PROVE  CallOK(u)' /\ FreshOK(u)'
  BY <1>1, <1>2 DEF CallOK, FreshOK
<1>3. CacheTypeOK'
  BY <1>1
<1> QED BY <1>2, <1>3

\* Steps of a job between the calls of the store, and at their begin and end.
LEMMA JobStepKeeps ==
  ASSUME CacheInv, TypeOK', NEW t \in Threads, CacheStep(t) \/ CacheBegin(t), ~StoreStep(t)
  PROVE  CacheInv'
<1> USE JsonCacheAssumption DEF CacheInv, CacheTypeOK, JobsInv, SetJob, In
<1>1. /\ pc \in [Threads -> {"idle", "acquire", "clock", "execute", "iterate", "stuck", "done"}]
      /\ req \in [Threads -> Request \cup {None}] /\ found \in [Threads -> SUBSET Values]
      /\ job[t] \in Job \cup {NoJob} /\ NoJob.kind = "none" /\ NoJob.stage = "none"
      /\ job = [job EXCEPT ![t] = job[t]]
      /\ CallOK(t) /\ FreshOK(t)
  BY DEF TypeOK, NoJob
<1>2. ASSUME Return(t)
      PROVE  /\ table' = table /\ pc[t] = "done" /\ pc'[t] = "idle" /\ found'[t] = {}
             /\ \A u \in Threads \ {t} :
                  pc'[u] = pc[u] /\ req'[u] = req[u] /\ found'[u] = found[u]
  BY <1>1, <1>2 DEF Return, Goto
<1>3. ASSUME NEW r, Call(t, r)
      PROVE  /\ table' = table /\ pc[t] = "idle" /\ pc'[t] = "acquire"
             /\ req'[t] = r /\ found' = found /\ found[t] = {}
             /\ \A u \in Threads \ {t} : pc'[u] = pc[u] /\ req'[u] = req[u]
  BY <1>1, <1>3 DEF Call, Goto, CallOK
<1>4. ASSUME UNCHANGED vars
      PROVE  table' = table /\ pc' = pc /\ req' = req /\ found' = found
  BY <1>4 DEF vars, storeVars
<1>5. ASSUME SetJob(t, NoJob), Return(t) \/ (UNCHANGED vars /\ pc[t] = "idle")
      PROVE  CacheInv'
  <2>1. CallOK(t)' /\ FreshOK(t)'
    BY <1>1, <1>2, <1>4, <1>5 DEF CallOK, FreshOK
  <2> QED BY <1>1, <1>2, <1>4, <1>5, <2>1, OneJobChanges
<1>6. CASE DirectReturn(t)
  BY <1>1, <1>5, <1>6 DEF DirectReturn
<1>7. CASE LoadingHit(t) \/ Stored(t)
  BY <1>5, <1>7 DEF LoadingHit, Stored
<1>8. CASE GetRaises(t)
  BY <1>1, <1>5, <1>8 DEF GetRaises, CallOK
<1>9. CASE LoadingMiss(t)
  <2> DEFINE j == [job[t] EXCEPT !.stage = "get"]
  <2>1. j \in Job /\ j.kind = "loading" /\ j.stage = "get" /\ job' = [job EXCEPT ![t] = j]
    BY <1>1, <1>9 DEF LoadingMiss, Job
  <2> HIDE DEF j
  <2>2. CallOK(t)' /\ FreshOK(t)'
    BY <1>1, <1>2, <1>9, <2>1 DEF LoadingMiss, CallOK, FreshOK
  <2> QED BY <1>2, <1>9, <2>1, <2>2, OneJobChanges DEF LoadingMiss
<1>10. ASSUME NEW v, job[t] \in Job, CallStore(t, v), t \in v,
              job[t].kind = "evolve" => v = job[t].dict /\ job[t].stage # "load",
              SetJob(t, [job[t] EXCEPT !.stage = "store"])
       PROVE  CacheInv'
  <2> DEFINE j == [job[t] EXCEPT !.stage = "store"]
  <2>1. /\ j \in Job /\ j.stage = "store" /\ job' = [job EXCEPT ![t] = j]
        /\ j.kind = job[t].kind /\ j.key = job[t].key /\ j.dict = job[t].dict
        /\ j.fresh = job[t].fresh
    BY <1>10 DEF Job
  <2> HIDE DEF j
  <2>2. PICK e \in Lifetimes :
          Call(t, [op |-> "store", key |-> job[t].key, val |-> v, life |-> e])
    BY <1>10 DEF CallStore
  <2>3. /\ req'[t].op = "store" /\ req'[t].key = job[t].key /\ req'[t].val = v
        /\ pc'[t] = "acquire" /\ found' = found /\ found[t] = {} /\ table' = table
        /\ \A u \in Threads \ {t} : pc'[u] = pc[u] /\ req'[u] = req[u]
    BY <1>3, <2>2
  <2>4. job'[t] = j
    BY <2>1
  <2>5. CallOK(t)'
    BY <1>10, <2>1, <2>3, <2>4 DEF CallOK
  <2>6. ASSUME job'[t].kind = "evolve", job'[t].fresh
        PROVE  \E row \in table' :
                 /\ row.key = job'[t].key
                 /\ IF job'[t].stage = "load" THEN found'[t] = {row.val}
                                              ELSE row.val \subseteq job'[t].dict
    <3>1. job[t].kind = "evolve" /\ job[t].fresh /\ job[t].stage # "load"
      BY <1>10, <2>1, <2>4, <2>6
    <3>2. PICK row \in table : row.key = job[t].key /\ row.val \subseteq job[t].dict
      BY <1>1, <3>1 DEF FreshOK
    <3> QED BY <2>1, <2>3, <2>4, <3>2
  <2>7. FreshOK(t)'
    BY <2>6 DEF FreshOK
  <2>8. /\ pc'[t] # "idle"
        /\ req'[t].op = "store" /\ req'[t].key = j.key /\ t \in req'[t].val
    BY <1>10, <2>1, <2>3
  <2>9. \A u \in Threads \ {t} : pc'[u] = pc[u] /\ req'[u] = req[u] /\ found'[u] = found[u]
    BY <2>3
  <2>10. table' = table
    BY <2>3
  <2> QED BY <2>1, <2>5, <2>7, <2>8, <2>9, <2>10, OneJobChanges
<1>11. CASE GetStores(t)
  BY <1>1, <1>10, <1>11 DEF GetStores
<1>12. CASE EvolveLoaded(t)
  <2> DEFINE j == [job[t] EXCEPT !.stage = "update", !.dict = UNION found[t]]
  <2>1. /\ j \in Job /\ j.kind = "evolve" /\ j.stage = "update" /\ j.key = job[t].key
        /\ j.dict = UNION found[t] /\ j.fresh = job[t].fresh
        /\ job' = [job EXCEPT ![t] = j]
    BY <1>1, <1>12 DEF EvolveLoaded, Job
  <2> HIDE DEF j
  <2>2. job'[t] = j
    BY <2>1
  <2>3. CallOK(t)'
    BY <1>2, <1>12, <2>1, <2>2 DEF EvolveLoaded, CallOK
  <2>4. FreshOK(t)'
    BY <1>1, <1>2, <1>12, <2>1, <2>2 DEF EvolveLoaded, FreshOK
  <2> QED BY <1>2, <1>12, <2>1, <2>3, <2>4, OneJobChanges DEF EvolveLoaded
<1>13. ASSUME NEW r \in BOOLEAN, Update(t, r)
       PROVE  CacheInv'
  <2> DEFINE j == [job[t] EXCEPT !.stage = IF r THEN "raised" ELSE "updated",
                                 !.dict = @ \cup {t}]
  <2>1. /\ j \in Job /\ j.kind = "evolve" /\ j.stage \in {"raised", "updated"}
        /\ j.key = job[t].key /\ j.dict = job[t].dict \cup {t} /\ j.fresh = job[t].fresh
        /\ job' = [job EXCEPT ![t] = j]
    BY <1>1, <1>13 DEF Update, Job
  <2> HIDE DEF j
  <2>2. job'[t] = j /\ pc[t] = "idle" /\ job[t].stage = "update" /\ job[t].kind = "evolve"
    BY <1>1, <1>13, <2>1 DEF Update, CallOK
  <2>3. CallOK(t)' /\ FreshOK(t)'
    BY <1>1, <1>4, <1>13, <2>1, <2>2 DEF Update, CallOK, FreshOK
  <2> QED BY <1>4, <1>13, <2>1, <2>3, OneJobChanges DEF Update
<1>14. ASSUME NEW s \in BOOLEAN, Finally(t, s)
       PROVE  CacheInv'
  <2>1. CASE s
    <3>1. job[t] \in Job /\ t \in job[t].dict /\ job[t].stage # "load"
      BY <1>1, <1>14 DEF Finally, CallOK
    <3> QED BY <1>10, <1>14, <2>1, <3>1 DEF Finally
  <2>2. CASE ~s
    BY <1>1, <1>5, <1>14, <2>2 DEF Finally, CallOK
  <2> QED BY <2>1, <2>2
<1>15. ASSUME NEW k \in Keys, NEW op \in {"load", "store", "expunge", "keys"},
              NEW e \in Lifetimes, Direct(t, op, k, e)
       PROVE  CacheInv'
  <2>1. CallOK(t)' /\ FreshOK(t)'
    BY <1>1, <1>3, <1>15 DEF Direct, Free, CallOK, FreshOK
  <2> QED BY <1>1, <1>3, <1>15, <2>1, OneJobChanges DEF Direct, Free
<1>16. ASSUME NEW k \in Keys, NEW kind \in {"loading", "evolve"}, NEW if_ \in BOOLEAN,
              Begin(t, kind, k, if_)
       PROVE  CacheInv'
  <2>1. CASE if_
    <3> DEFINE j == [kind |-> kind, stage |-> "load", key |-> k, dict |-> {},
                     fresh |-> FALSE]
    <3>1. /\ j \in Job /\ j.stage = "load" /\ j.key = k /\ j.kind = kind /\ j.fresh = FALSE
          /\ job' = [job EXCEPT ![t] = j]
      BY <1>16, <2>1 DEF Begin, Job
    <3> HIDE DEF j
    <3>2. Call(t, [op |-> "load", key |-> k, val |-> {}, life |-> NULL])
      BY <1>16, <2>1 DEF Begin, CallLoad
    <3>3. CallOK(t)' /\ FreshOK(t)'
      BY <1>1, <1>3, <3>1, <3>2 DEF CallOK, FreshOK
    <3> QED BY <1>3, <3>1, <3>2, <3>3, OneJobChanges
  <2>2. CASE ~if_
    <3>1. PICK j \in Job : /\ j.stage \in {"get", "update"} /\ j.fresh = FALSE
                           /\ job' = [job EXCEPT ![t] = j]
      BY <1>16, <2>2 DEF Begin, Job
    <3>2. CallOK(t)' /\ FreshOK(t)'
      BY <1>1, <1>4, <1>16, <2>2, <3>1 DEF Begin, Free, CallOK, FreshOK
    <3> QED BY <1>4, <1>16, <2>2, <3>1, <3>2, OneJobChanges DEF Begin
  <2> QED BY <2>1, <2>2
<1> QED BY <1>6, <1>7, <1>8, <1>9, <1>11, <1>12, <1>13, <1>14, <1>15, <1>16
        DEF CacheStep, CacheBegin

LEMMA CacheInductive == CacheInv /\ [CacheNext]_cacheVars => CacheInv'
<1> SUFFICES ASSUME CacheInv, [CacheNext]_cacheVars PROVE CacheInv'
  OBVIOUS
<1>1. TypeOK'
  BY StoreDoesAStep, TypePreserved DEF CacheInv, CacheTypeOK
<1>2. CASE Tick /\ UNCHANGED job
  BY <1>1, <1>2 DEF Tick, storeVars, CacheInv, CacheTypeOK, JobsInv, CallOK, FreshOK
<1>3. ASSUME NEW t \in Threads, CacheStep(t) \/ CacheBegin(t)
      PROVE  CacheInv'
  BY <1>1, <1>3, StoreStepKeeps, JobStepKeeps
<1>4. CASE UNCHANGED cacheVars
  BY <1>1, <1>4 DEF cacheVars, vars, storeVars, CacheInv, CacheTypeOK, JobsInv, CallOK, FreshOK
<1> QED BY <1>2, <1>3, <1>4 DEF CacheNext

-------------------------------------------------------------------------------

LEMMA CacheInvariant == CacheSpec => []CacheInv
<1> QED BY InitCacheInv, CacheInductive, PTL DEF CacheSpec

\* The types are right, and the store is called for what the job is about.
THEOREM CacheTypeCorrect == CacheSpec => []CacheTypeOK
<1>1. CacheInv => CacheTypeOK
  BY DEF CacheInv
<1> QED BY <1>1, CacheInvariant, PTL

\* loading(), evolve() and the direct calls use the store as its specification
\* allows: what holds of the store with any callers holds of it under a JsonCache.
THEOREM CacheImplementsStore == CacheSpec => Spec
<1>1. CacheInit => Init
  BY DEF CacheInit
<1>2. CacheInv /\ [CacheNext]_cacheVars => [Next]_vars
  BY StoreDoesAStep DEF CacheInv
<1> QED BY <1>1, <1>2, CacheInvariant, PTL DEF CacheSpec, Spec

\* So the theorems of the store carry over: no loading() or evolve() works with an
\* expired value, no expunge() takes a live one, and times do not go back.
THEOREM CacheKeepsStorePromises ==
  CacheSpec => LoadedIsAlive /\ ExpungeKeepsLoadable /\ WrittenInClockOrder
<1> QED BY CacheImplementsStore, LoadsAreAlive, ExpungeIsSafe, ClockOrder, PTL

\* evolve() loses an update only if the table was changed between its load() and
\* its store(), or the row had expired, for any number of threads and keys.
THEOREM EvolveLosesToOverlapOnly == CacheSpec => UpdatesAreLostToOverlapOnly
<1> DEFINE Kept ==
      \A t \in Threads : \A old \in table, new \in table' :
        /\ new \notin table /\ new.key = old.key
        /\ job[t].kind = "evolve" /\ job[t].stage = "store" /\ lock = t
        /\ job[t].fresh
        => old.val \subseteq new.val
<1>1. CacheInv /\ [CacheNext]_cacheVars => [Kept]_cacheVars
  <2> SUFFICES ASSUME CacheInv, CacheNext, NEW t \in Threads,
                      NEW old \in table, NEW new \in table',
                      new \notin table, new.key = old.key,
                      job[t].kind = "evolve", job[t].stage = "store", lock = t,
                      job[t].fresh
               PROVE  old.val \subseteq new.val
    OBVIOUS
  <2> USE DEF CacheInv, CacheTypeOK
  <2>1. [Next]_vars
    BY StoreDoesAStep
  <2>2. PICK u \in Threads : Insert(u)
    BY <2>1 DEF Next, vars, Tick, storeVars, Call, Return, Step, Acquire, ReadClock, Select,
                Delete, EndKeys, CallInsideLoop
  <2>3. new = NewRow(u) /\ pc[u] = "execute"
    BY <2>2 DEF Insert, Execute
  <2>4. u = t
    BY <2>3, SqliteAssumption DEF TypeOK
  <2>5. new.key = req[t].key /\ new.val = req[t].val
    BY <2>3, <2>4 DEF NewRow
  <2>6. req[t].key = job[t].key /\ req[t].val = job[t].dict
    BY DEF JobsInv, CallOK
  <2>7. PICK row \in table : row.key = job[t].key /\ row.val \subseteq job[t].dict
    BY DEF JobsInv, FreshOK
  <2>8. \A r1, r2 \in table : r1.key = r2.key => r1 = r2
    BY DEF TypeOK
  <2>9. row = old
    BY <2>5, <2>6, <2>7, <2>8
  <2> QED BY <2>5, <2>6, <2>7, <2>9
<1> QED BY <1>1, CacheInvariant, PTL DEF UpdatesAreLostToOverlapOnly, CacheSpec
===============================================================================
