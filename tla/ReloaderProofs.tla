---------------------------- MODULE ReloaderProofs ----------------------------
(***************************************************************************)
(* Proofs about Reloader, for every number of callers, callbacks and       *)
(* versions of the file: one thread reloads at a time, get() never goes    *)
(* back, and the callbacks are told what get() returns.                    *)
(***************************************************************************)
EXTENDS Reloader, TLAPS

\* What is loaded is on disk, and not older than the value it will replace.
ValueInv ==
  /\ value <= file
  /\ \A t \in Threads :
       pc[t] = "publish" => value <= config[t] /\ config[t] <= file

InCallbacks(t) == pc[t] \in {"callbacks", "selfWait"}

\* A callback that was called is registered; it was told the current value last,
\* or the thread in the loop over the callbacks still has it to call.
CallbacksInv ==
  /\ \A b \in Callbacks : last[b] # 0 => b \in registered
  /\ \A t \in Threads : InCallbacks(t) =>
       /\ config[t] = value /\ todo[t] \subseteq registered
       /\ \A b \in Callbacks : last[b] \in {0, value} \/ b \in todo[t]
  /\ (\A t \in Threads : ~InCallbacks(t)) => \A b \in Callbacks : last[b] \in {0, value}

ReloadInv == TypeOK /\ ValueInv /\ CallbacksInv

LEMMA InitInv == Init => ReloadInv
<1> SUFFICES ASSUME Init PROVE ReloadInv
  OBVIOUS
<1> USE ReloaderAssumption DEF Init
<1>1. Inside = {} /\ pc \in [Threads -> PCs]
  BY DEF Inside, PCs
<1>2. 1 \in Versions
  BY DEF Versions
<1>3. TypeOK
  BY <1>1, <1>2 DEF TypeOK
<1>4. ValueInv /\ CallbacksInv
  BY DEF ValueInv, CallbacksInv, InCallbacks
<1> QED BY <1>3, <1>4 DEF ReloadInv

\* Threads that wake up were not inside, and are not afterwards.
LEMMA NotifyKeepsInside ==
  ASSUME pc \in [Threads -> PCs], NEW t \in Threads, NEW p \in PCs,
         pc' = [NotifyAll EXCEPT ![t] = p],
         {pc[t], p} \subseteq {"failed", "publish", "callbacks", "release"}
  PROVE  /\ pc' \in [Threads -> PCs] /\ pc'[t] = p
         /\ \A u \in Threads \ {t} :
              pc'[u] = IF pc[u] = "waiting" THEN "awake" ELSE pc[u]
         /\ Inside' = Inside
<1>1. /\ pc' \in [Threads -> PCs] /\ pc'[t] = p
      /\ \A u \in Threads \ {t} :
           pc'[u] = IF pc[u] = "waiting" THEN "awake" ELSE pc[u]
  BY DEF NotifyAll, PCs
<1>2. ASSUME NEW u \in Threads
      PROVE  u \in Inside <=> u \in Inside'
  BY <1>1 DEF Inside
<1> QED BY <1>1, <1>2 DEF Inside

LEMMA TypePreserved == TypeOK /\ [Next]_vars => TypeOK'
<1> SUFFICES ASSUME TypeOK, [Next]_vars PROVE TypeOK'
  OBVIOUS
<1> USE ReloaderAssumption DEF TypeOK, dataVars, pollVars
<1>1. CASE Modify
  BY <1>1 DEF Modify, Versions, Inside
<1>2. ASSUME NEW b \in Callbacks, Register(b)
      PROVE  TypeOK'
  BY <1>2 DEF Register, Inside
<1>3. ASSUME NEW t \in Threads, Enter(t)
      PROVE  TypeOK'
  BY <1>3 DEF Enter, Goto, PCs, Inside
<1>4. ASSUME NEW t \in Threads, ReloadStep(t)
      PROVE  TypeOK'
  <2> USE DEF PCs, Inside, Goto
  <2>1. CASE Wait(t)
    BY <2>1 DEF Wait
  <2>2. CASE Awake(t)
    BY <2>2 DEF Awake, After
  <2>3. CASE Acquire(t)
    BY <2>3 DEF Acquire, Threads
  <2>4. ASSUME NEW raises \in BOOLEAN, Load(t, raises)
        PROVE  TypeOK'
    BY <2>4 DEF Load
  <2>5. CASE Fail(t)
    <3>1. Inside' = Inside /\ pc' \in [Threads -> PCs]
      <4> HIDE DEF Inside
      <4> QED BY <2>5, NotifyKeepsInside DEF Fail
    <3> QED BY <2>5, <3>1 DEF Fail
  <2>6. CASE Publish(t)
    <3>1. Inside' = Inside /\ pc' \in [Threads -> PCs]
      <4> HIDE DEF Inside
      <4> QED BY <2>6, NotifyKeepsInside DEF Publish
    <3> QED BY <2>6, <3>1 DEF Publish
  <2>7. ASSUME NEW b \in Callbacks, Call(t, b) \/ CallReload(t, b)
        PROVE  TypeOK'
    BY <2>7 DEF Call, CallReload
  <2>8. CASE EndCallbacks(t)
    BY <2>8 DEF EndCallbacks
  <2>9. CASE Release(t)
    BY <2>9 DEF Release, After, Threads
  <2> QED BY <1>4, <2>1, <2>2, <2>3, <2>4, <2>5, <2>6, <2>7, <2>8, <2>9 DEF ReloadStep
<1>5. CASE PollStep \/ Start \/ Stop
  <2> USE DEF Goto, PCs, Inside
  <2>0. Poller \in Threads
    BY DEF Threads
  <2>1. CASE Begin
    BY <2>0, <2>1 DEF Begin
  <2>2. CASE Test
    BY <2>0, <2>2 DEF Test
  <2>3. CASE Poll
    BY <2>0, <2>3 DEF Poll
  <2>4. CASE EnterPoller
    BY <2>0, <2>4 DEF EnterPoller
  <2>5. CASE Polled
    BY <2>0, <2>5 DEF Polled
  <2>6. CASE Start
    BY <2>0, <2>6 DEF Start
  <2>7. CASE Stop
    BY <2>7 DEF Stop
  <2> QED BY <1>5, <2>1, <2>2, <2>3, <2>4, <2>5, <2>6, <2>7 DEF PollStep
<1>6. CASE UNCHANGED vars
  BY <1>6 DEF vars, Inside
<1> QED BY <1>1, <1>2, <1>3, <1>4, <1>5, <1>6 DEF Next

-------------------------------------------------------------------------------

\* _reload_lock keeps every other thread out of the part that reloads.
LEMMA OneInside ==
  ASSUME TypeOK, NEW t \in Threads, t \in Inside, NEW u \in Threads, u \in Inside
  PROVE  u = t
BY DEF TypeOK

LEMMA ValuePreserved == TypeOK /\ ValueInv /\ [Next]_vars => ValueInv'
<1> SUFFICES ASSUME TypeOK, ValueInv, [Next]_vars PROVE ValueInv'
  OBVIOUS
<1> USE ReloaderAssumption DEF ValueInv, dataVars, pollVars
<1>0. /\ file \in Nat /\ value \in Nat /\ config \in [Threads -> Nat]
      /\ pc \in [Threads -> PCs] /\ Poller \in Threads
  BY DEF TypeOK, Versions, Threads
<1>1. CASE Modify
  BY <1>0, <1>1 DEF Modify
<1>2. ASSUME NEW t \in Threads, NEW raises \in BOOLEAN, Load(t, raises)
      PROVE  ValueInv'
  BY <1>0, <1>2 DEF Load, Goto
<1>3. ASSUME NEW t \in Threads, Publish(t)
      PROVE  ValueInv'
  <2>1. pc'[t] = "callbacks" /\ \A u \in Threads \ {t} : pc'[u] = "publish" => pc[u] = "publish"
    BY <1>0, <1>3 DEF Publish, NotifyAll
  <2>2. \A u \in Threads : pc'[u] # "publish"
    BY <1>3, <2>1, OneInside DEF Publish, Inside
  <2> QED BY <1>0, <1>3, <2>2 DEF Publish
<1>4. CASE /\ UNCHANGED <<file, value>>
           /\ \A u \in Threads : pc'[u] = "publish" => pc[u] = "publish" /\ config'[u] = config[u]
  BY <1>0, <1>4
<1>5. ASSUME NEW t \in Threads, Enter(t) \/ ReloadStep(t),
             ~ \E raises \in BOOLEAN : Load(t, raises), ~Publish(t)
      PROVE  ValueInv'
  <2>1. /\ UNCHANGED <<file, value>>
        /\ \A u \in Threads : pc'[u] = "publish" => pc[u] = "publish" /\ config'[u] = config[u]
    BY <1>0, <1>5
       DEF Enter, ReloadStep, Wait, Awake, Acquire, Fail, Call, CallReload, EndCallbacks,
           Release, Goto, After, NotifyAll
  <2> QED BY <1>4, <2>1
<1>6. CASE PollStep \/ Start \/ Stop \/ (\E b \in Callbacks : Register(b)) \/ UNCHANGED vars
  <2>1. /\ UNCHANGED <<file, value, config>>
        /\ \A u \in Threads : pc'[u] = "publish" => pc[u] = "publish"
    BY <1>0, <1>6 DEF PollStep, Begin, Test, Poll, EnterPoller, Polled, Start, Stop, Register,
                      Goto, vars
  <2> QED BY <1>4, <2>1
<1> QED BY <1>1, <1>2, <1>3, <1>5, <1>6 DEF Next, ReloadStep

LEMMA CallbacksPreserved == ReloadInv /\ [Next]_vars => CallbacksInv'
<1> SUFFICES ASSUME ReloadInv, [Next]_vars PROVE CallbacksInv'
  OBVIOUS
<1> USE ReloaderAssumption DEF ReloadInv, CallbacksInv, InCallbacks, dataVars, pollVars
<1>0. /\ pc \in [Threads -> PCs] /\ config \in [Threads -> {0} \cup Versions]
      /\ todo \in [Threads -> SUBSET Callbacks] /\ last \in [Callbacks -> {0} \cup Versions]
      /\ registered \subseteq Callbacks /\ Poller \in Threads
  BY DEF TypeOK, Threads
<1>1. CASE /\ UNCHANGED <<value, registered, last>>
           /\ \A u \in Threads :
                /\ InCallbacks(u)' <=> InCallbacks(u)
                /\ InCallbacks(u) => config'[u] = config[u] /\ todo'[u] = todo[u]
  BY <1>1
<1>2. ASSUME NEW b \in Callbacks, Register(b)
      PROVE  CallbacksInv'
  BY <1>0, <1>2 DEF Register
<1>3. ASSUME NEW t \in Threads, Publish(t)
      PROVE  CallbacksInv'
  <2>1. \A u \in Threads : u # t => ~InCallbacks(u)
    BY <1>3, OneInside DEF Publish, Inside
  <2>2. pc'[t] = "callbacks" /\ \A u \in Threads : u # t => ~InCallbacks(u)'
    BY <1>0, <1>3, <2>1 DEF Publish, NotifyAll
  <2>3. \A b \in Callbacks : last[b] = 0 \/ b \in registered
    OBVIOUS
  <2> QED BY <1>0, <1>3, <2>2, <2>3 DEF Publish
<1>4. ASSUME NEW t \in Threads, NEW b \in Callbacks, Call(t, b) \/ CallReload(t, b)
      PROVE  CallbacksInv'
  <2>1. InCallbacks(t) /\ InCallbacks(t)' /\ b \in todo[t]
    BY <1>0, <1>4 DEF Call, CallReload, Goto
  <2>2. \A u \in Threads : u # t => ~InCallbacks(u) /\ ~InCallbacks(u)'
    <3>1. \A u \in Threads : u # t => ~InCallbacks(u)
      BY <2>1, OneInside DEF Inside
    <3> QED BY <1>0, <1>4, <3>1 DEF Call, CallReload, Goto
  <2>3. /\ UNCHANGED <<value, registered, config>>
        /\ last' = [last EXCEPT ![b] = value] /\ todo[t] \ {b} \subseteq todo'[t]
        /\ todo'[t] \subseteq todo[t]
    BY <1>0, <1>4, <2>1 DEF Call, CallReload
  <2> QED BY <1>0, <2>1, <2>2, <2>3
<1>5. ASSUME NEW t \in Threads, EndCallbacks(t)
      PROVE  CallbacksInv'
  <2>1. \A u \in Threads : u # t => ~InCallbacks(u)
    BY <1>5, OneInside DEF EndCallbacks, Goto, Inside
  <2>2. \A u \in Threads : ~InCallbacks(u)'
    BY <1>0, <1>5, <2>1 DEF EndCallbacks, Goto
  <2>3. \A b \in Callbacks : last[b] \in {0, value}
    BY <1>5 DEF EndCallbacks, Goto
  <2> QED BY <1>5, <2>2, <2>3 DEF EndCallbacks
<1>6. ASSUME NEW t \in Threads,
             \/ Enter(t) \/ Wait(t) \/ Awake(t) \/ Acquire(t) \/ Fail(t) \/ Release(t)
             \/ \E raises \in BOOLEAN : Load(t, raises)
      PROVE  CallbacksInv'
  <2>1. /\ UNCHANGED <<value, registered, last>>
        /\ \A u \in Threads :
             /\ InCallbacks(u)' <=> InCallbacks(u)
             /\ InCallbacks(u) => config'[u] = config[u] /\ todo'[u] = todo[u]
    BY <1>0, <1>6 DEF Enter, Wait, Awake, Acquire, Fail, Release, Load, Goto, After, NotifyAll
  <2> QED BY <1>1, <2>1
<1>7. CASE Modify \/ PollStep \/ Start \/ Stop \/ UNCHANGED vars
  <2>1. /\ UNCHANGED <<value, registered, last, config, todo>>
        /\ \A u \in Threads : InCallbacks(u)' <=> InCallbacks(u)
    BY <1>0, <1>7 DEF Modify, PollStep, Begin, Test, Poll, EnterPoller, Polled, Start, Stop,
                      Goto, vars
  <2> QED BY <1>1, <2>1
<1> QED BY <1>2, <1>3, <1>4, <1>5, <1>6, <1>7 DEF Next, ReloadStep

LEMMA Inductive == Spec => []ReloadInv
<1>1. ReloadInv /\ [Next]_vars => ReloadInv'
  BY TypePreserved, ValuePreserved, CallbacksPreserved DEF ReloadInv
<1> QED BY <1>1, InitInv, PTL DEF Spec

-------------------------------------------------------------------------------

\* The types are right, and one thread at a time is inside _reload_lock, for every
\* number of threads.
THEOREM TypeCorrect == Spec => []TypeOK
<1>1. ReloadInv => TypeOK
  BY DEF ReloadInv
<1> QED BY <1>1, Inductive, PTL

\* Whatever the number of threads that reload, and however often the file changes,
\* get() never returns an older configuration after a newer one.
THEOREM NeverGoesBack == Spec => ValueNeverGoesBack
<1>1. ReloadInv /\ [Next]_vars => [value' >= value]_value
  <2> SUFFICES ASSUME ReloadInv, Next, value' # value PROVE value' >= value
    BY DEF vars, dataVars
  <2>1. PICK t \in Threads : Publish(t)
    BY DEF Next, Modify, Register, Enter, ReloadStep, Wait, Awake, Acquire, Load, Fail, Call,
           CallReload, EndCallbacks, Release, PollStep, Begin, Test, Poll, EnterPoller, Polled,
           Start, Stop, dataVars
  <2>2. value' = config[t] /\ value <= config[t]
    BY <2>1 DEF Publish, ReloadInv, ValueInv
  <2>3. value \in Nat /\ config[t] \in Nat
    BY DEF ReloadInv, TypeOK, Versions
  <2> QED BY <2>2, <2>3
<1> QED BY <1>1, Inductive, PTL DEF Spec, ValueNeverGoesBack

\* Between two reloads, every callback that was ever called has been told the value
\* that get() returns.
THEOREM CaughtUp == Spec => []CallbacksAreCaughtUp
<1>1. ReloadInv => CallbacksAreCaughtUp
  <2> SUFFICES ASSUME ReloadInv, holder = None PROVE \A b \in Callbacks : last[b] \in {0, value}
    BY DEF CallbacksAreCaughtUp
  <2>1. \A t \in Threads : ~InCallbacks(t)
    BY DEF ReloadInv, TypeOK, Inside, InCallbacks
  <2> QED BY <2>1 DEF ReloadInv, CallbacksInv
<1> QED BY <1>1, Inductive, PTL
===============================================================================
