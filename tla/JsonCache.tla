------------------------------ MODULE JsonCache ------------------------------
(***************************************************************************)
(* nr.caching: threads that use a JsonCache on one namespace of an         *)
(* SqliteStore.  loading() and evolve() make several calls of the store    *)
(* with code of the application in between, so that the calls of other     *)
(* threads, and time, come between them.                                   *)
(*                                                                         *)
(* A cached dictionary is the set of the updates that have been made to    *)
(* it: evolve() of thread t adds t, and the or_get() of loading() makes    *)
(* {t}.  Encoding and decoding keep it.                                    *)
(***************************************************************************)
EXTENDS SqliteStore

ASSUME JsonCacheAssumption == Values = SUBSET Threads /\ NULL \in Lifetimes

VARIABLE job   \* per thread: the loading() or evolve() it is in

cacheVars == <<vars, job>>

NoJob == [kind |-> "none", stage |-> "none"]

\* What a thread remembers of its call: `dict' is the local `value'; `fresh' is
\* history: load() has found the dictionary and nobody has changed the table since.
\* The other arguments of loading() and evolve() are chosen when they are used.
Job == [kind : {"loading", "evolve"},
        stage : {"load", "get", "update", "updated", "raised", "store"},
        key : Keys, dict : Values, fresh : BOOLEAN]

CacheInit == Init /\ job = [t \in Threads |-> NoJob]

Free(t) == pc[t] = "idle" /\ job[t] = NoJob

In(t, kind, stage) == job[t].kind = kind /\ job[t].stage = stage

SetJob(t, j) == job' = [job EXCEPT ![t] = j]

CallLoad(t, k) ==
  Call(t, [op |-> "load", key |-> k, val |-> {}, life |-> NULL])

CallStore(t, v) ==
  \E e \in Lifetimes :
    Call(t, [op |-> "store", key |-> job[t].key, val |-> v, life |-> e])

-------------------------------------------------------------------------------

\* load(), store(), expunge() and get_keys() by themselves.
Direct(t, op, k, e) ==
  /\ Free(t)
  /\ op # "store" => e = NULL
  /\ Call(t, [op |-> op, key |-> k, val |-> {}, life |-> e])
  /\ UNCHANGED job

\* loading() and evolve() call load() first, unless if_ is False.
Begin(t, kind, k, if_) ==
  LET begun == [kind |-> kind, stage |-> "load", key |-> k, dict |-> {}, fresh |-> FALSE]
      next == IF kind = "loading" THEN "get" ELSE "update"
  IN
  /\ Free(t)
  /\ \/ if_ /\ CallLoad(t, k) /\ SetJob(t, begun)
     \/ ~if_ /\ SetJob(t, [begun EXCEPT !.stage = next]) /\ UNCHANGED vars

\* loading(): the key was found.
LoadingHit(t) ==
  /\ In(t, "loading", "load") /\ Return(t) /\ found[t] # {}
  /\ SetJob(t, NoJob)

\* loading(): KeyDoesNotExist; or_get() is called ...
LoadingMiss(t) ==
  /\ In(t, "loading", "load") /\ Return(t) /\ found[t] = {}
  /\ SetJob(t, [job[t] EXCEPT !.stage = "get"])

\* ... and raises, or its result is stored.
GetRaises(t) ==
  /\ In(t, "loading", "get")
  /\ SetJob(t, NoJob)
  /\ UNCHANGED vars

GetStores(t) ==
  /\ In(t, "loading", "get")
  /\ CallStore(t, {t})
  /\ SetJob(t, [job[t] EXCEPT !.stage = "store"])

\* Mutant: the loaded dictionary is not the one that is updated.
EvolveLoadedEmpty(t) ==
  /\ In(t, "evolve", "load") /\ Return(t)
  /\ SetJob(t, [job[t] EXCEPT !.stage = "update"])

\* evolve(): `load_or_none(key) or {}', which the UNION of the set of one is.
EvolveLoaded(t) ==
  /\ In(t, "evolve", "load") /\ Return(t)
  /\ SetJob(t, [job[t] EXCEPT !.stage = "update",
                              !.dict = UNION found[t]])

\* update() changes the dictionary, also if it raises.
Update(t, raises) ==
  /\ In(t, "evolve", "update")
  /\ SetJob(t, [job[t] EXCEPT !.stage = IF raises THEN "raised" ELSE "updated",
                              !.dict = @ \cup {t}])
  /\ UNCHANGED vars

\* The `finally' branch of evolve(): sys.exc_info() is a tuple of three, which is
\* never false, so that save_on_error alone decides.
Finally(t, save_on_error) ==
  /\ job[t].stage \in {"updated", "raised"}
  /\ \/ /\ save_on_error
        /\ CallStore(t, job[t].dict)
        /\ SetJob(t, [job[t] EXCEPT !.stage = "store"])
     \/ /\ ~save_on_error
        /\ SetJob(t, NoJob)
        /\ UNCHANGED vars

Stored(t) ==
  /\ job[t].stage = "store" /\ Return(t)
  /\ SetJob(t, NoJob)

\* A call of the store goes on.  A load() that finds its row makes the job fresh, and
\* a change of the table ends that for every job.
StoreStep(t) ==
  /\ Step(t)
  /\ job' = [u \in Threads |->
       IF job[u].kind # "evolve" THEN job[u]
       ELSE [job[u] EXCEPT !.fresh = IF u = t /\ found'[t] # {} THEN TRUE
                                     ELSE @ /\ table' = table]]

DirectReturn(t) == job[t] = NoJob /\ Return(t) /\ UNCHANGED job

CacheStep(t) ==
  \/ StoreStep(t)
  \/ DirectReturn(t)
  \/ LoadingHit(t)
  \/ LoadingMiss(t)
  \/ GetRaises(t)
  \/ GetStores(t)
  \/ EvolveLoaded(t)
  \/ \E raises \in BOOLEAN : Update(t, raises)
  \/ \E save_on_error \in BOOLEAN : Finally(t, save_on_error)
  \/ Stored(t)

CacheBegin(t) ==
  \E k \in Keys :
    \/ \E op \in {"load", "store", "expunge", "keys"}, e \in Lifetimes : Direct(t, op, k, e)
    \/ \E kind \in {"loading", "evolve"}, if_ \in BOOLEAN : Begin(t, kind, k, if_)

CacheNext ==
  \/ Tick /\ UNCHANGED job
  \/ \E t \in Threads : CacheStep(t) \/ CacheBegin(t)

CacheSpec == CacheInit /\ [][CacheNext]_cacheVars

-------------------------------------------------------------------------------

\* The store keeps its types, and what a thread is doing is what it asked for.
CacheTypeOK ==
  /\ TypeOK
  /\ job \in [Threads -> Job \cup {NoJob}]
  /\ \A t \in Threads :
       job[t].stage = "store" =>
         /\ pc[t] # "idle"
         /\ req[t].op = "store" /\ req[t].key = job[t].key /\ t \in req[t].val

\* An evolve() that stores over the dictionary it has loaded keeps every update in
\* it: updates are only lost to another store, or expunge(), between its two calls,
\* or when the row had expired.
UpdatesAreLostToOverlapOnly ==
  [][\A t \in Threads : \A old \in table, new \in table' :
       /\ new \notin table /\ new.key = old.key
       /\ job[t].kind = "evolve" /\ job[t].stage = "store" /\ lock = t
       /\ job[t].fresh
       => old.val \subseteq new.val]_cacheVars

\* json.py, evolve(): "After update was called, the same dictionary will be stored
\* again under the same key", and save_on_error is for "even if an exception
\* occurred": an update() that has not raised is stored.
EvolveIsStored ==
  [][\A t \in Threads :
       job[t].stage = "updated" => job'[t].stage \in {"updated", "store"}]_cacheVars
===============================================================================
