-------------------------- MODULE TaskCallbacksProofs --------------------------
(***************************************************************************)
(* Proofs about TaskCallbacks, for every set of entries and groups: what   *)
(* the collection holds, however add(), remove() and _invoke() interleave. *)
(***************************************************************************)
EXTENDS TaskCallbacks, FiniteSetTheorems, TLAPS

Added == {e \in Entries : apc[e] = "added"}

\* What the collection loses at the end of _invoke, and what is left of its loop.
InvokeInv ==
  /\ upc # "invoking" => copy = {} /\ todo = {} /\ spent = {}
  /\ todo \subseteq Added \ spent
  /\ \A e \in todo : kind[e].once => runs[e] = 0
  /\ spent \subseteq Added
  /\ \A e \in spent : kind[e].once /\ runs[e] > 0

\* An entry that is not kept yet has not run; what remove() hit was kept.
AddInv ==
  /\ \A e \in Entries : apc[e] \in {"new", "runNow"} => runs[e] = 0
  /\ removed \subseteq Added

\* The collection is exact but for the entries that ran in the _invoke in progress.
Exact == callbacks = {e \in Added : kind[e].once /\ runs[e] > 0 => e \in spent} \ removed

IInv == TypeOK /\ InvokeInv /\ AddInv /\ Exact

-------------------------------------------------------------------------------

LEMMA InitInv == Init => IInv
<1> SUFFICES ASSUME Init PROVE IInv
  OBVIOUS
<1>1. TypeOK
  BY DEF Init, TypeOK, Status, Idle
<1>2. Added = {}
  BY DEF Init, Added
<1> QED BY <1>1, <1>2 DEF Init, IInv, InvokeInv, AddInv, Exact

\* Every action keeps the types.
LEMMA StepType ==
  ASSUME TypeOK, [Next]_vars
  PROVE  TypeOK'
<1> USE DEF TypeOK
<1>1. ASSUME NEW e \in Entries, Add(e) PROVE TypeOK'
  BY <1>1 DEF Add, Holds
<1>2. ASSUME NEW e \in Entries, RunNow(e) PROVE TypeOK'
  BY <1>2 DEF RunNow, Ran
<1>3. ASSUME NEW e \in Entries, InvokeNext(e) PROVE TypeOK'
  BY <1>3 DEF InvokeNext, Ran, Holds
<1>4. ASSUME NEW g \in Groups, Remove(g) PROVE TypeOK'
  BY <1>4 DEF Remove
<1>5. ASSUME NEW s \in Status, Update(s) PROVE TypeOK'
  BY <1>5 DEF Update
<1>6. CASE InvokeCopy
  BY <1>6 DEF InvokeCopy
<1>7. CASE InvokeEnd
  BY <1>7 DEF InvokeEnd
<1>8. CASE UNCHANGED vars
  BY <1>8 DEF vars
<1> QED BY <1>1, <1>2, <1>3, <1>4, <1>5, <1>6, <1>7, <1>8 DEF Next

LEMMA StepInv ==
  ASSUME IInv, [Next]_vars
  PROVE  IInv'
<1> USE DEF IInv, InvokeInv, AddInv, Exact, Added
<1>0. TypeOK'
  BY StepType
<1>1. ASSUME NEW e \in Entries, Add(e) PROVE IInv'
  <2>1. apc \in [Entries -> {"new", "added", "runNow", "ranNow"}] /\ apc[e] = "new" /\ runs[e] = 0
    BY <1>1 DEF Add, TypeOK
  <2>2. e \notin removed /\ e \notin todo /\ e \notin spent
    BY <2>1
  <2>3. UNCHANGED <<kind, upc, copy, todo, spent, runs, removed>>
    BY <1>1 DEF Add
  <2>4. CASE Holds(e)
    <3>1. apc' = [apc EXCEPT ![e] = "runNow"] /\ callbacks' = callbacks
      BY <1>1, <2>4 DEF Add
    <3>2. Added' = Added
      BY <2>1, <3>1
    <3> QED BY <1>0, <2>1, <2>3, <3>1, <3>2
  <2>5. CASE ~Holds(e)
    <3>1. apc' = [apc EXCEPT ![e] = "added"] /\ callbacks' = callbacks \cup {e}
      BY <1>1, <2>5 DEF Add
    <3>2. Added' = Added \cup {e}
      BY <2>1, <3>1
    <3>3. Exact'
      BY <2>1, <2>2, <2>3, <3>1, <3>2
    <3> QED BY <1>0, <2>1, <2>2, <2>3, <3>1, <3>2, <3>3
  <2> QED BY <2>4, <2>5
<1>2. ASSUME NEW e \in Entries, RunNow(e) PROVE IInv'
  <2>1. apc[e] = "runNow" /\ apc' = [apc EXCEPT ![e] = "ranNow"] /\ runs' = [runs EXCEPT ![e] = @ + 1]
    BY <1>2 DEF RunNow, Ran
  <2>2. UNCHANGED <<callbacks, kind, upc, copy, todo, spent, removed>>
    BY <1>2 DEF RunNow
  <2>3. Added' = Added /\ e \notin Added
    BY <2>1 DEF TypeOK
  <2>4. \A d \in Added : runs'[d] = runs[d]
    BY <2>1, <2>3 DEF TypeOK
  <2>5. \A d \in Entries : apc'[d] \in {"new", "runNow"} => apc[d] = apc'[d] /\ runs'[d] = runs[d]
    BY <2>1 DEF TypeOK
  <2>6. InvokeInv' /\ Exact'
    BY <2>2, <2>3, <2>4
  <2> QED BY <1>0, <2>2, <2>3, <2>5, <2>6
<1>3. ASSUME NEW e \in Entries, InvokeNext(e) PROVE IInv'
  <2>1. upc = "invoking" /\ e \in todo /\ todo' = todo \ {e}
    BY <1>3 DEF InvokeNext
  <2>2. UNCHANGED <<callbacks, kind, apc, upc, copy, removed>>
    BY <1>3 DEF InvokeNext
  <2>3. Added' = Added
    BY <2>2
  <2>4. /\ runs' = IF Holds(e) THEN [runs EXCEPT ![e] = @ + 1] ELSE runs
        /\ spent' = IF Holds(e) /\ kind[e].once THEN spent \cup {e} ELSE spent
    BY <1>3 DEF InvokeNext, Ran
  <2>5. /\ \A d \in Entries : d # e => runs'[d] = runs[d]
        /\ runs[e] \in Nat /\ runs'[e] = IF Holds(e) THEN runs[e] + 1 ELSE runs[e]
    BY <2>4 DEF TypeOK
  <2>6. AddInv'
    BY <2>1, <2>2, <2>3, <2>5
  <2>7. InvokeInv'
    BY <2>1, <2>2, <2>3, <2>4, <2>5
  <2>8. \A d \in Added : (kind[d].once /\ runs[d] > 0 => d \in spent)
                           <=> (kind[d].once /\ runs'[d] > 0 => d \in spent')
    BY <2>1, <2>4, <2>5
  <2>9. Exact'
    BY <2>2, <2>3, <2>8
  <2> QED BY <1>0, <2>6, <2>7, <2>9
<1>4. ASSUME NEW g \in Groups, Remove(g) PROVE IInv'
  <2> DEFINE hit == {e \in callbacks : kind[e].group = g}
  <2>1. callbacks' = callbacks \ hit /\ removed' = removed \cup hit
    BY <1>4 DEF Remove
  <2>2. UNCHANGED <<kind, apc, upc, copy, todo, spent, runs>>
    BY <1>4 DEF Remove
  <2>3. hit \subseteq Added
    OBVIOUS
  <2>4. Exact'
    BY <2>1, <2>2
  <2> QED BY <1>0, <2>1, <2>2, <2>3, <2>4
<1>5. ASSUME NEW s \in Status, Update(s) PROVE IInv'
  BY <1>0, <1>5 DEF Update
<1>6. CASE InvokeCopy
  <2>1. /\ upc = "updated" /\ todo' = callbacks /\ spent' = {} /\ upc' = "invoking"
        /\ UNCHANGED <<callbacks, kind, apc, runs, removed>>
    BY <1>6 DEF InvokeCopy
  <2>2. spent = {}
    BY <2>1
  <2>3. \A e \in callbacks : e \in Added /\ (kind[e].once => runs[e] = 0)
    BY <2>2 DEF TypeOK
  <2> QED BY <1>0, <2>1, <2>2, <2>3
<1>7. CASE InvokeEnd
  <2>1. /\ todo = {} /\ upc' = "idle" /\ callbacks' = callbacks \ spent /\ copy' = {} /\ spent' = {}
        /\ UNCHANGED <<kind, apc, todo, runs, removed>>
    BY <1>7 DEF InvokeEnd
  <2>2. Exact'
    BY <2>1
  <2> QED BY <1>0, <2>1, <2>2
<1>8. CASE UNCHANGED vars
  BY <1>0, <1>8 DEF vars
<1> QED BY <1>1, <1>2, <1>3, <1>4, <1>5, <1>6, <1>7, <1>8 DEF Next

LEMMA Invariance == Spec => []IInv
<1>1. Init => IInv
  BY InitInv
<1>2. IInv /\ [Next]_vars => IInv'
  BY StepInv
<1> QED BY <1>1, <1>2, PTL DEF Spec

-------------------------------------------------------------------------------

\* Every variable keeps its type.
THEOREM TypeCorrect == Spec => []TypeOK
<1>1. IInv => TypeOK
  BY DEF IInv
<1> QED BY <1>1, Invariance, PTL

\* However add(), remove() and _invoke() interleave, the end of an invocation brings
\* nothing back that was removed meanwhile and loses nothing that was added.
THEOREM CollectionExact == Spec => []CollectionIsExact
<1>1. IInv => CollectionIsExact
  BY DEF IInv, InvokeInv, Exact, Added, CollectionIsExact
<1> QED BY <1>1, Invariance, PTL

\* No later _invoke copies what remove() has hit.
THEOREM RemovedStaysOut == Spec => RemovedIsNotCopiedAgain
<1>1. IInv /\ [Next]_vars => [upc = "updated" /\ upc' = "invoking" => copy' \cap removed = {}]_vars
  <2> SUFFICES ASSUME IInv, [Next]_vars, upc = "updated", upc' = "invoking"
               PROVE  copy' \cap removed = {}
    OBVIOUS
  <2>1. InvokeCopy
    BY DEF Next, Add, RunNow, InvokeNext, Remove, Update, InvokeEnd, vars
  <2> QED BY <2>1 DEF InvokeCopy, IInv, Exact
<1> QED BY <1>1, Invariance, PTL DEF Spec, RemovedIsNotCopiedAgain

-------------------------------------------------------------------------------

\* The callback is still to run in the _invoke that the last _update() began.
Due(e) ==
  /\ Holds(e)
  /\ \/ upc = "updated" /\ e \in callbacks
     \/ upc = "invoking" /\ e \in todo

\* A task does not come back to a status it has had.
SinceInv ==
  \A e \in Entries : /\ status = "QUEUED" => since[e] \subseteq {"QUEUED"}
                     /\ status = "RUNNING" => since[e] \subseteq {"QUEUED", "RUNNING"}

\* A callback that is kept has run, or is due, once for every status its condition
\* names; one that is not kept ran when it was added.
CountInv ==
  /\ \A e \in Entries : apc[e] = "ranNow" => runs[e] = 1
  /\ \A e \in Added \ removed :
       /\ ~kind[e].once => Matches(e) = runs[e] + IF Due(e) THEN 1 ELSE 0
       /\ kind[e].once =>
            IF Due(e) THEN runs[e] = 0 /\ Matches(e) = 1
            ELSE runs[e] = IF Matches(e) > 1 THEN 1 ELSE Matches(e)

\* Counting the statuses of a condition: of one status, and with one more.
LEMMA CountSingle ==
  ASSUME NEW x, NEW c
  PROVE  Cardinality({x} \cap c) = IF x \in c THEN 1 ELSE 0
<1>1. CASE x \in c
  <2>1. {x} \cap c = {x}
    BY <1>1
  <2> QED BY <1>1, <2>1, FS_Singleton
<1>2. CASE x \notin c
  <2>1. {x} \cap c = {}
    BY <1>2
  <2> QED BY <1>2, <2>1, FS_EmptySet
<1> QED BY <1>1, <1>2

LEMMA CountOne ==
  ASSUME NEW S \in SUBSET Status, NEW c, NEW x \in Status \ S
  PROVE  /\ Cardinality(S \cap c) \in Nat
         /\ Cardinality((S \cup {x}) \cap c)
              = Cardinality(S \cap c) + IF x \in c THEN 1 ELSE 0
<1>1. IsFiniteSet(Status)
  <2>1. IsFiniteSet({"PENDING"}) /\ IsFiniteSet({"QUEUED"}) /\ IsFiniteSet({"RUNNING"})
        /\ IsFiniteSet({"SUCCEEDED"}) /\ IsFiniteSet({"FAILED"}) /\ IsFiniteSet({"CANCELLED"})
        /\ IsFiniteSet({"IGNORED"})
    BY FS_Singleton
  <2>2. IsFiniteSet({"PENDING"} \cup {"QUEUED"})
    BY <2>1, FS_Union
  <2>3. IsFiniteSet({"SUCCEEDED"} \cup {"FAILED"}) /\ IsFiniteSet({"CANCELLED"} \cup {"IGNORED"})
    BY <2>1, FS_Union
  <2>4. IsFiniteSet(({"PENDING"} \cup {"QUEUED"}) \cup {"RUNNING"})
    BY <2>1, <2>2, FS_Union
  <2>5. IsFiniteSet(({"SUCCEEDED"} \cup {"FAILED"}) \cup ({"CANCELLED"} \cup {"IGNORED"}))
    BY <2>3, FS_Union
  <2>6. Status = (({"PENDING"} \cup {"QUEUED"}) \cup {"RUNNING"})
                   \cup (({"SUCCEEDED"} \cup {"FAILED"}) \cup ({"CANCELLED"} \cup {"IGNORED"}))
    BY DEF Status, Idle, Completed
  <2> QED BY <2>4, <2>5, <2>6, FS_Union
<1>2. IsFiniteSet(S \cap c)
  <2>1. S \cap c \in SUBSET Status
    OBVIOUS
  <2> QED BY <1>1, <2>1, FS_Subset
<1>3. Cardinality(S \cap c) \in Nat
  BY <1>2, FS_CardinalityType
<1>4. CASE x \in c
  <2>1. (S \cup {x}) \cap c = (S \cap c) \cup {x} /\ x \notin S \cap c
    BY <1>4
  <2>2. Cardinality((S \cap c) \cup {x}) = Cardinality(S \cap c) + 1
    BY <1>2, <2>1, FS_AddElement
  <2> QED BY <1>3, <1>4, <2>1, <2>2
<1>5. CASE x \notin c
  <2>1. (S \cup {x}) \cap c = S \cap c
    BY <1>5
  <2> QED BY <1>3, <1>5, <2>1
<1> QED BY <1>3, <1>4, <1>5

\* Only a successor of the status is added to `since'.
LEMMA StepSince ==
  ASSUME IInv, SinceInv, [Next]_vars
  PROVE  SinceInv'
<1> USE DEF SinceInv, IInv, TypeOK
<1>1. ASSUME NEW e \in Entries, Add(e) PROVE SinceInv'
  BY <1>1 DEF Add
<1>2. ASSUME NEW e \in Entries, RunNow(e) PROVE SinceInv'
  BY <1>2 DEF RunNow
<1>3. ASSUME NEW e \in Entries, InvokeNext(e) PROVE SinceInv'
  BY <1>3 DEF InvokeNext
<1>4. ASSUME NEW g \in Groups, Remove(g) PROVE SinceInv'
  BY <1>4 DEF Remove
<1>5. ASSUME NEW s \in Status, Update(s) PROVE SinceInv'
  BY <1>5 DEF Update, Successors
<1>6. CASE InvokeCopy
  BY <1>6 DEF InvokeCopy
<1>7. CASE InvokeEnd
  BY <1>7 DEF InvokeEnd
<1>8. CASE UNCHANGED vars
  BY <1>8 DEF vars
<1> QED BY <1>1, <1>2, <1>3, <1>4, <1>5, <1>6, <1>7, <1>8 DEF Next

LEMMA StepCount ==
  ASSUME IInv, SinceInv, CountInv, [Next]_vars
  PROVE  CountInv'
<1>0. IInv'
  BY StepInv
<1> USE DEF CountInv, Due, Holds, Matches, Added
<1>1. ASSUME NEW e \in Entries, Add(e) PROVE CountInv'
  <2>1. /\ apc[e] = "new" /\ runs[e] = 0 /\ status \in Status
        /\ \A d \in Entries \ {e} : apc'[d] = apc[d] /\ since'[d] = since[d]
        /\ since'[e] = {status}
        /\ UNCHANGED <<status, kind, upc, todo, runs, removed>>
    BY <1>1 DEF Add, IInv, TypeOK, AddInv
  <2>2. e \notin todo
    BY <2>1 DEF IInv, InvokeInv
  <2>3. CASE status \in kind[e].condition
    <3>1. apc'[e] = "runNow" /\ callbacks' = callbacks
      BY <1>1, <2>3 DEF Add, IInv, TypeOK
    <3> QED BY <2>1, <3>1
  <2>4. CASE status \notin kind[e].condition
    <3>1. apc'[e] = "added" /\ callbacks' = callbacks \cup {e}
      BY <1>1, <2>4 DEF Add, IInv, TypeOK
    <3>2. Cardinality(since'[e] \cap kind[e].condition) = 0
      <4> DEFINE c == kind[e].condition
      <4>1. Cardinality({status} \cap c) = IF status \in c THEN 1 ELSE 0
        <5> HIDE DEF c
        <5> QED BY CountSingle
      <4> QED BY <2>1, <2>4, <4>1
    <3> QED BY <2>1, <2>2, <2>4, <3>1, <3>2
  <2> QED BY <2>3, <2>4
<1>2. ASSUME NEW e \in Entries, RunNow(e) PROVE CountInv'
  <2>1. /\ apc[e] = "runNow" /\ runs[e] = 0 /\ apc'[e] = "ranNow" /\ runs'[e] = 1
        /\ \A d \in Entries \ {e} : apc'[d] = apc[d] /\ runs'[d] = runs[d]
        /\ UNCHANGED <<status, callbacks, kind, upc, todo, since, removed>>
    BY <1>2 DEF RunNow, Ran, IInv, TypeOK, AddInv
  <2> QED BY <2>1
<1>3. ASSUME NEW e \in Entries, InvokeNext(e) PROVE CountInv'
  <2>1. /\ upc = "invoking" /\ e \in todo /\ todo' = todo \ {e} /\ apc[e] = "added"
        /\ UNCHANGED <<status, callbacks, kind, apc, upc, since, removed>>
        /\ kind[e].once => runs[e] = 0
    BY <1>3 DEF InvokeNext, IInv, InvokeInv
  <2>2. /\ runs[e] \in Nat
        /\ runs'[e] = runs[e] + IF Holds(e) THEN 1 ELSE 0
        /\ \A d \in Entries \ {e} : runs'[d] = runs[d]
    BY <1>3 DEF InvokeNext, Ran, IInv, TypeOK
  <2> QED BY <2>1, <2>2
<1>4. ASSUME NEW g \in Groups, Remove(g) PROVE CountInv'
  <2>1. /\ callbacks \ callbacks' \subseteq removed' /\ callbacks' \subseteq callbacks
        /\ removed \subseteq removed'
        /\ UNCHANGED <<status, kind, apc, upc, todo, runs, since>>
    BY <1>4 DEF Remove
  <2> QED BY <2>1
<1>5. ASSUME NEW s \in Status, Update(s) PROVE CountInv'
  <2>1. /\ upc = "idle" /\ upc' = "updated" /\ status' = s /\ s \in Successors[status]
        /\ \A e \in Added : since'[e] = since[e] \cup {s}
        /\ UNCHANGED <<callbacks, kind, apc, todo, runs, removed>>
    BY <1>5 DEF Update, IInv, TypeOK
  <2>2. \A e \in Entries : since[e] \in SUBSET Status /\ s \in Status \ since[e] /\ runs[e] \in Nat
    BY <2>1 DEF IInv, TypeOK, SinceInv, Successors
  <2>3. \A e \in Added \ removed : e \in callbacks <=> ~(kind[e].once /\ runs[e] > 0)
    BY <2>1 DEF IInv, InvokeInv, Exact
  <2>4. ASSUME NEW e \in Added \ removed
        PROVE  /\ Matches(e) \in Nat
               /\ Matches(e)' = Matches(e) + IF s \in kind[e].condition THEN 1 ELSE 0
    <3> DEFINE c == kind[e].condition
               S == since[e]
    <3>1. S \in SUBSET Status /\ s \in Status \ S
      BY <2>2
    <3>2. /\ Cardinality(S \cap c) \in Nat
          /\ Cardinality((S \cup {s}) \cap c) = Cardinality(S \cap c) + IF s \in c THEN 1 ELSE 0
      <4> HIDE DEF c, S
      <4> QED BY <3>1, CountOne
    <3>3. since'[e] = since[e] \cup {s} /\ kind'[e] = kind[e]
      BY <2>1
    <3> QED BY <3>2, <3>3
  <2>5. Added' = Added /\ removed' = removed
    BY <2>1
  <2> HIDE DEF Matches
  <2>6. ASSUME NEW e \in Added \ removed
        PROVE  /\ ~kind'[e].once => Matches(e)' = runs'[e] + IF Due(e)' THEN 1 ELSE 0
               /\ kind'[e].once =>
                    IF Due(e)' THEN runs'[e] = 0 /\ Matches(e)' = 1
                    ELSE runs'[e] = IF Matches(e)' > 1 THEN 1 ELSE Matches(e)'
    BY <2>1, <2>2, <2>3, <2>4
  <2> QED BY <2>1, <2>5, <2>6
<1>6. CASE InvokeCopy
  BY <1>6 DEF InvokeCopy
<1>7. CASE InvokeEnd
  BY <1>7 DEF InvokeEnd
<1>8. CASE UNCHANGED vars
  BY <1>8 DEF vars
<1> QED BY <1>1, <1>2, <1>3, <1>4, <1>5, <1>6, <1>7, <1>8 DEF Next

\* A callback runs as often as its condition came true after add(), at most once for
\* `once', and exactly once when the condition held already.
THEOREM RegisteredRuns == Spec => []RunsAsRegistered
<1>1. Init => SinceInv /\ CountInv
  BY DEF Init, SinceInv, CountInv, Added
<1>2. IInv /\ SinceInv /\ CountInv /\ [Next]_vars => SinceInv' /\ CountInv'
  BY StepSince, StepCount
<1>3. IInv /\ CountInv => RunsAsRegistered
  <2> SUFFICES ASSUME IInv, CountInv, upc = "idle", NEW e \in Entries \ removed
               PROVE  CASE apc[e] \in {"new", "runNow"} -> runs[e] = 0
                        [] apc[e] = "ranNow" -> runs[e] = 1
                        [] apc[e] = "added" ->
                             runs[e] = IF kind[e].once /\ Matches(e) > 1 THEN 1 ELSE Matches(e)
    BY DEF RunsAsRegistered
  <2>1. apc[e] \in {"new", "added", "runNow", "ranNow"} /\ runs[e] \in Nat /\ ~Due(e)
    BY DEF IInv, TypeOK, Due
  <2>2. apc[e] \in {"new", "runNow"} => runs[e] = 0
    BY DEF IInv, AddInv
  <2>3. apc[e] = "ranNow" => runs[e] = 1
    BY DEF CountInv
  <2>4. apc[e] = "added" => runs[e] = IF kind[e].once /\ Matches(e) > 1 THEN 1 ELSE Matches(e)
    BY <2>1 DEF CountInv, Added
  <2> QED BY <2>1, <2>2, <2>3, <2>4
<1> QED BY <1>1, <1>2, <1>3, Invariance, PTL DEF Spec
===============================================================================
