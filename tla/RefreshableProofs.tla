--------------------------- MODULE RefreshableProofs ---------------------------
(***************************************************************************)
(* Proofs about Refreshable, for every set of threads, subscribers and     *)
(* watchers and any number of updates.                                     *)
(***************************************************************************)
EXTENDS Refreshable, TLAPS

Known == Subscribers \cup {Refresh}

SeqInv ==
  /\ subs \in Seq(Known) /\ csubs \in Seq(Watchers)
  /\ todo \in [Threads -> Seq(Known)] /\ ctodo \in [Threads -> Seq(Watchers)]

\* Only a thread that is in a loop has something left of it.
LoopInv ==
  \A t \in Threads : /\ pc[t] \in {"idle", "mapped"} => todo[t] = <<>>
                     /\ pc[t] # "cnotify" => ctodo[t] = <<>>

\* map() registers `refresh' before it returns the child.
MapInv ==
  /\ mapping # Done => csubs = <<>>
  /\ mapping = Done => Refresh \in ToSet(subs)
  /\ \A t \in Threads : mapping = t => pc[t] = "mapped" \/ Refresh \in ToSet(subs)

\* A subscriber that has not seen the latest value is in the loop of some thread.
FreshInv ==
  /\ \A s \in Subscribers :
       s \in ToSet(subs) => seen[s] = current \/ \E t \in Threads : s \in ToSet(todo[t])
  /\ \A w \in Watchers :
       w \in ToSet(csubs) => seen[w] = child \/ \E t \in Threads : w \in ToSet(ctodo[t])

\* Without an overlap at most one thread is in `refresh'; until it, or a later one, has
\* updated the child, the latest value of the parent is on its way.
AloneInv ==
  ~overlap => \A t, u \in Threads : pc[t] = "refresh" /\ pc[u] = "refresh" => t = u

FollowInv ==
  Refresh \in ToSet(subs) /\ ~overlap =>
    \/ \E t \in Threads : Refresh \in ToSet(todo[t])
    \/ \E t \in Threads : pc[t] = "refresh" /\ value[t] = current
    \/ child = current /\ \A t \in Threads : pc[t] # "refresh"

IInv == TypeOK /\ SeqInv /\ LoopInv /\ MapInv /\ FreshInv /\ AloneInv /\ FollowInv

-------------------------------------------------------------------------------

\* The sets of the sequences that the loops are built from.
LEMMA EmptyIsNobody == \A x : x \notin ToSet(<<>>)
BY DEF ToSet

LEMMA AppendAddsOne ==
  ASSUME NEW S, NEW s \in Seq(S), NEW x \in S
  PROVE  /\ Append(s, x) \in Seq(S)
         /\ ToSet(Append(s, x)) = ToSet(s) \cup {x}
<1>1. /\ Append(s, x) \in Seq(S)
      /\ Len(Append(s, x)) = Len(s) + 1
      /\ DOMAIN s = 1 .. Len(s) /\ DOMAIN Append(s, x) = 1 .. (Len(s) + 1)
      /\ Len(s) \in Nat
      /\ \A i \in 1 .. Len(s) : Append(s, x)[i] = s[i]
      /\ Append(s, x)[Len(s) + 1] = x
  OBVIOUS
<1> QED BY <1>1 DEF ToSet

LEMMA OneIsItself ==
  ASSUME NEW S, NEW x \in S
  PROVE  <<x>> \in Seq(S) /\ ToSet(<<x>>) = {x}
BY DEF ToSet

LEMMA HeadAndTail ==
  ASSUME NEW S, NEW s \in Seq(S), s # <<>>
  PROVE  /\ Head(s) \in S /\ Tail(s) \in Seq(S)
         /\ ToSet(s) = {Head(s)} \cup ToSet(Tail(s))
<1>1. /\ Len(s) \in Nat \ {0} /\ Tail(s) \in Seq(S) /\ Len(Tail(s)) = Len(s) - 1
      /\ Head(s) = s[1] /\ s[1] \in S
      /\ DOMAIN s = 1 .. Len(s) /\ DOMAIN Tail(s) = 1 .. (Len(s) - 1)
      /\ \A i \in 1 .. (Len(s) - 1) : Tail(s)[i] = s[i + 1]
  OBVIOUS
<1>2. \A x : x \in ToSet(s) => x = Head(s) \/ x \in ToSet(Tail(s))
  <2> SUFFICES ASSUME NEW i \in 1 .. Len(s), i # 1
               PROVE  s[i] \in ToSet(Tail(s))
    BY <1>1 DEF ToSet
  <2>1. i - 1 \in 1 .. (Len(s) - 1) /\ (i - 1) + 1 = i
    BY <1>1
  <2> QED BY <1>1, <2>1 DEF ToSet
<1>3. \A x : x \in ToSet(Tail(s)) => x \in ToSet(s)
  <2> SUFFICES ASSUME NEW i \in 1 .. (Len(s) - 1)
               PROVE  Tail(s)[i] \in ToSet(s)
    BY <1>1 DEF ToSet
  <2>1. i + 1 \in 1 .. Len(s)
    BY <1>1
  <2> QED BY <1>1, <2>1 DEF ToSet
<1>4. Head(s) \in ToSet(s)
  BY <1>1 DEF ToSet
<1> QED BY <1>1, <1>2, <1>3, <1>4

-------------------------------------------------------------------------------

LEMMA InitInv == Init => IInv
<1> SUFFICES ASSUME Init PROVE IInv
  OBVIOUS
<1>1. SeqInv
  BY DEF Init, SeqInv
<1>2. TypeOK
  <2>1. MaxUpdates \in Nat
    BY RefreshableAssumption
  <2>2. /\ ToSet(subs) = {} /\ ToSet(csubs) = {}
        /\ \A t \in Threads : ToSet(todo[t]) = {} /\ ToSet(ctodo[t]) = {}
    BY EmptyIsNobody DEF Init
  <2>3. /\ current \in 1 .. (MaxUpdates + 1) /\ child \in 0 .. current
        /\ value \in [Threads -> 0 .. current] /\ seen \in [Subscribers \cup Watchers -> 0 .. current]
    BY <2>1 DEF Init
  <2> QED BY <2>2, <2>3 DEF Init, TypeOK
<1>3. LoopInv /\ MapInv /\ FreshInv /\ AloneInv /\ FollowInv
  BY RefreshableAssumption, EmptyIsNobody DEF Init, LoopInv, MapInv, FreshInv, AloneInv, FollowInv
<1> QED BY <1>1, <1>2, <1>3 DEF IInv

\* What is left of the loops after an action of t, as sets.
LoopStep(t) ==
  /\ SeqInv'
  /\ ToSet(subs) \subseteq ToSet(subs') /\ ToSet(csubs) \subseteq ToSet(csubs')
  /\ ToSet(subs') \subseteq Known /\ ToSet(csubs') \subseteq Watchers
  /\ \A u \in Threads : /\ ToSet(todo'[u]) \subseteq ToSet(subs')
                        /\ ToSet(ctodo'[u]) \subseteq ToSet(csubs')

\* The loops hold sequences of subscribers, and none that was not registered.
LEMMA StepSeq ==
  ASSUME IInv, NEW t \in Threads, Step(t)
  PROVE  LoopStep(t)
<1> USE DEF IInv, SeqInv, TypeOK, LoopStep, parentVars, childVars
<1>1. CASE Update(t)
  BY <1>1 DEF Update, Goto, Known
<1>2. ASSUME NEW s \in Subscribers, Subscribe(t, s) PROVE LoopStep(t)
  <2>0. s \in Known
    BY DEF Known
  <2>1. /\ subs' = Append(subs, s) /\ todo' = [todo EXCEPT ![t] = <<s>>]
        /\ UNCHANGED <<csubs, ctodo>>
    BY <1>2 DEF Subscribe
  <2>2. subs' \in Seq(Known) /\ ToSet(subs') = ToSet(subs) \cup {s}
    BY <2>0, <2>1, AppendAddsOne
  <2>3. <<s>> \in Seq(Known) /\ ToSet(<<s>>) = {s}
    BY <2>0, OneIsItself
  <2>4. SeqInv'
    BY <2>1, <2>2, <2>3
  <2>5. \A u \in Threads : ToSet(todo'[u]) \subseteq ToSet(subs')
    BY <2>1, <2>2, <2>3
  <2>6. ToSet(subs') \subseteq Known /\ ToSet(csubs') \subseteq Watchers
    BY <2>0, <2>1, <2>2 DEF Known
  <2> QED BY <2>1, <2>2, <2>4, <2>5, <2>6
<1>3. CASE Map(t)
  BY <1>3 DEF Map, Goto, Known
<1>4. CASE MapSubscribe(t)
  <2>0. Refresh \in Known
    BY DEF Known
  <2>1. /\ subs' = Append(subs, Refresh) /\ todo' = [todo EXCEPT ![t] = <<Refresh>>]
        /\ UNCHANGED <<csubs, ctodo>>
    BY <1>4 DEF MapSubscribe
  <2>2. subs' \in Seq(Known) /\ ToSet(subs') = ToSet(subs) \cup {Refresh}
    BY <2>0, <2>1, AppendAddsOne
  <2>3. <<Refresh>> \in Seq(Known) /\ ToSet(<<Refresh>>) = {Refresh}
    BY <2>0, OneIsItself
  <2>4. SeqInv'
    BY <2>1, <2>2, <2>3
  <2>5. \A u \in Threads : ToSet(todo'[u]) \subseteq ToSet(subs')
    BY <2>1, <2>2, <2>3
  <2>6. ToSet(subs') \subseteq Known /\ ToSet(csubs') \subseteq Watchers
    BY <2>0, <2>1, <2>2 DEF Known
  <2> QED BY <2>1, <2>2, <2>4, <2>5, <2>6
<1>5. ASSUME NEW s \in Watchers, Watch(t, s) PROVE LoopStep(t)
  <2>1. /\ csubs' = Append(csubs, s) /\ ctodo' = [ctodo EXCEPT ![t] = <<s>>]
        /\ UNCHANGED <<subs, todo>>
    BY <1>5 DEF Watch, parentVars
  <2>2. csubs' \in Seq(Watchers) /\ ToSet(csubs') = ToSet(csubs) \cup {s}
    BY <2>1, AppendAddsOne
  <2>3. <<s>> \in Seq(Watchers) /\ ToSet(<<s>>) = {s}
    BY OneIsItself
  <2>4. SeqInv'
    BY <2>1, <2>2, <2>3
  <2>5. \A u \in Threads : ToSet(ctodo'[u]) \subseteq ToSet(csubs')
    BY <2>1, <2>2, <2>3
  <2>6. ToSet(subs') \subseteq Known /\ ToSet(csubs') \subseteq Watchers
    BY <2>1, <2>2 DEF Known
  <2> QED BY <2>1, <2>2, <2>4, <2>5, <2>6
<1>6. CASE Call(t)
  BY <1>6, HeadAndTail DEF Call, Known
<1>7. CASE CallRefresh(t)
  BY <1>7, HeadAndTail DEF CallRefresh, Goto, Known
<1>8. CASE UpdateChild(t)
  BY <1>8 DEF UpdateChild, Goto, Known
<1>9. CASE CallWatcher(t)
  BY <1>9, HeadAndTail DEF CallWatcher, Known
<1>10. CASE ReturnChild(t)
  BY <1>10 DEF ReturnChild, Goto, Known
<1>11. CASE Return(t)
  BY <1>11 DEF Return, Goto, Known
<1> QED BY <1>1, <1>2, <1>3, <1>4, <1>5, <1>6, <1>7, <1>8, <1>9, <1>10, <1>11 DEF Step

LEMMA StepType ==
  ASSUME IInv, NEW t \in Threads, Step(t)
  PROVE  TypeOK'
<1>1. LoopStep(t)
  BY StepSeq
<1> USE RefreshableAssumption DEF IInv, SeqInv, TypeOK, parentVars, childVars
<1> USE <1>1 DEF LoopStep
<1>2. CASE Update(t)
  BY <1>2 DEF Update, Goto
<1>3. ASSUME NEW s \in Subscribers, Subscribe(t, s) PROVE TypeOK'
  BY <1>3 DEF Subscribe, Goto, Known
<1>4. CASE Map(t)
  BY <1>4 DEF Map, Goto
<1>5. CASE MapSubscribe(t)
  <2>1. pc' = [pc EXCEPT ![t] = "notify"]
    BY <1>5 DEF MapSubscribe, Goto
  <2>2. UNCHANGED <<current, child, mapping, value, seen, overlap>>
    BY <1>5 DEF MapSubscribe
  <2> QED BY <2>1, <2>2 DEF Known
<1>6. ASSUME NEW s \in Watchers, Watch(t, s) PROVE TypeOK'
  <2>1. pc' = [pc EXCEPT ![t] = "cnotify"]
    BY <1>6 DEF Watch, Goto
  <2>2. UNCHANGED <<current, child, mapping, value, seen, overlap>>
    BY <1>6 DEF Watch
  <2> QED BY <2>1, <2>2 DEF Known
<1>7. CASE Call(t)
  BY <1>7, HeadAndTail DEF Call
<1>8. CASE CallRefresh(t)
  BY <1>8 DEF CallRefresh, Goto
<1>9. CASE UpdateChild(t)
  BY <1>9 DEF UpdateChild, Goto
<1>10. CASE CallWatcher(t)
  BY <1>10, HeadAndTail DEF CallWatcher
<1>11. CASE ReturnChild(t)
  BY <1>11 DEF ReturnChild, Goto
<1>12. CASE Return(t)
  BY <1>12 DEF Return, Goto
<1> QED BY <1>2, <1>3, <1>4, <1>5, <1>6, <1>7, <1>8, <1>9, <1>10, <1>11, <1>12 DEF Step

\* What registering s in the loop of t, and calling the next of it, does to the sets.
LEMMA AddSets ==
  ASSUME IInv, NEW t \in Threads, NEW s \in Known,
         subs' = Append(subs, s), todo' = [todo EXCEPT ![t] = <<s>>]
  PROVE  /\ ToSet(subs') = ToSet(subs) \cup {s}
         /\ ToSet(todo'[t]) = {s}
         /\ \A u \in Threads : u # t => todo'[u] = todo[u]
<1>1. subs \in Seq(Known) /\ todo \in [Threads -> Seq(Known)]
  BY DEF IInv, SeqInv
<1>2. ToSet(subs') = ToSet(subs) \cup {s}
  BY <1>1, AppendAddsOne
<1>3. ToSet(<<s>>) = {s}
  BY OneIsItself
<1> QED BY <1>1, <1>2, <1>3

LEMMA CallSets ==
  ASSUME IInv, NEW t \in Threads, todo[t] # <<>>, todo' = [todo EXCEPT ![t] = Tail(@)]
  PROVE  /\ Head(todo[t]) \in Known
         /\ ToSet(todo[t]) = {Head(todo[t])} \cup ToSet(todo'[t])
         /\ \A u \in Threads : u # t => todo'[u] = todo[u]
<1>1. todo \in [Threads -> Seq(Known)]
  BY DEF IInv, SeqInv
<1>2. todo'[t] = Tail(todo[t]) /\ todo[t] \in Seq(Known)
  BY <1>1
<1>3. Head(todo[t]) \in Known /\ ToSet(todo[t]) = {Head(todo[t])} \cup ToSet(Tail(todo[t]))
  BY <1>2, HeadAndTail
<1> QED BY <1>1, <1>2, <1>3

LEMMA StepLoop ==
  ASSUME IInv, NEW t \in Threads, Step(t)
  PROVE  LoopInv'
<1> USE DEF IInv, LoopInv, TypeOK, SeqInv, parentVars, childVars
<1>1. CASE Update(t)
  BY <1>1 DEF Update, Goto
<1>2. ASSUME NEW s \in Subscribers, Subscribe(t, s) PROVE LoopInv'
  BY <1>2 DEF Subscribe, Goto
<1>3. CASE Map(t)
  BY <1>3 DEF Map, Goto
<1>4. CASE MapSubscribe(t)
  BY <1>4 DEF MapSubscribe, Goto
<1>5. ASSUME NEW s \in Watchers, Watch(t, s) PROVE LoopInv'
  BY <1>5 DEF Watch, Goto
<1>6. CASE Call(t)
  BY <1>6 DEF Call
<1>7. CASE CallRefresh(t)
  BY <1>7 DEF CallRefresh, Goto
<1>8. CASE UpdateChild(t)
  BY <1>8 DEF UpdateChild, Goto
<1>9. CASE CallWatcher(t)
  BY <1>9 DEF CallWatcher
<1>10. CASE ReturnChild(t)
  BY <1>10 DEF ReturnChild, Goto
<1>11. CASE Return(t)
  BY <1>11 DEF Return, Goto
<1> QED BY <1>1, <1>2, <1>3, <1>4, <1>5, <1>6, <1>7, <1>8, <1>9, <1>10, <1>11 DEF Step

LEMMA StepMap ==
  ASSUME IInv, NEW t \in Threads, Step(t)
  PROVE  MapInv'
<1>1. LoopStep(t)
  BY StepSeq
<1>0. ASSUME MapSubscribe(t) PROVE Refresh \in ToSet(subs')
  <2>1. subs \in Seq(Known) /\ Refresh \in Known
    BY DEF IInv, SeqInv, Known
  <2> QED BY <1>0, <2>1, AppendAddsOne DEF MapSubscribe
<1> USE RefreshableAssumption, EmptyIsNobody DEF IInv, MapInv, LoopInv, TypeOK, SeqInv, LoopStep, parentVars, childVars
<1>2. CASE Update(t)
  BY <1>2, <1>1 DEF Update, Goto
<1>3. ASSUME NEW s \in Subscribers, Subscribe(t, s) PROVE MapInv'
  BY <1>3, <1>1 DEF Subscribe, Goto
<1>4. CASE Map(t)
  BY <1>4, <1>1 DEF Map, Goto
<1>5. CASE MapSubscribe(t)
  BY <1>0, <1>1, <1>5 DEF MapSubscribe, Goto
<1>6. ASSUME NEW s \in Watchers, Watch(t, s) PROVE MapInv'
  BY <1>6, <1>1 DEF Watch, Goto
<1>7. CASE Call(t)
  BY <1>7, <1>1 DEF Call
<1>8. CASE CallRefresh(t)
  BY <1>8, <1>1 DEF CallRefresh, Goto
<1>9. CASE UpdateChild(t)
  BY <1>9, <1>1 DEF UpdateChild, Goto
<1>10. CASE CallWatcher(t)
  BY <1>10, <1>1 DEF CallWatcher
<1>11. CASE ReturnChild(t)
  BY <1>11, <1>1 DEF ReturnChild, Goto
<1>12. CASE Return(t)
  BY <1>12, <1>1 DEF Return, Goto
<1> QED BY <1>2, <1>3, <1>4, <1>5, <1>6, <1>7, <1>8, <1>9, <1>10, <1>11, <1>12 DEF Step

LEMMA StepFresh ==
  ASSUME IInv, NEW t \in Threads, Step(t)
  PROVE  FreshInv'
<1> USE RefreshableAssumption, EmptyIsNobody DEF IInv, FreshInv, MapInv, LoopInv, TypeOK, SeqInv, parentVars, childVars
<1>1. CASE Update(t)
  BY <1>1 DEF Update, Goto
<1>2. ASSUME NEW s \in Subscribers, Subscribe(t, s) PROVE FreshInv'
  <2>1. /\ ToSet(subs') = ToSet(subs) \cup {s} /\ ToSet(todo'[t]) = {s}
        /\ \A u \in Threads : u # t => todo'[u] = todo[u]
    BY <1>2, AddSets DEF Subscribe, Known
  <2>2. todo[t] = <<>> /\ UNCHANGED <<current, child, csubs, ctodo, seen>>
    BY <1>2 DEF Subscribe, Goto
  <2> QED BY <2>1, <2>2
<1>3. CASE Map(t)
  BY <1>3 DEF Map, Goto
<1>4. CASE MapSubscribe(t)
  <2>1. /\ ToSet(subs') = ToSet(subs) \cup {Refresh} /\ ToSet(todo'[t]) = {Refresh}
        /\ \A u \in Threads : u # t => todo'[u] = todo[u]
    BY <1>4, AddSets DEF MapSubscribe, Known
  <2>2. todo[t] = <<>> /\ UNCHANGED <<current, child, csubs, ctodo, seen>>
    BY <1>4 DEF MapSubscribe, Goto
  <2> QED BY <2>1, <2>2
<1>5. ASSUME NEW s \in Watchers, Watch(t, s) PROVE FreshInv'
  <2>1. /\ csubs' = Append(csubs, s) /\ ctodo' = [ctodo EXCEPT ![t] = <<s>>] /\ ctodo[t] = <<>>
        /\ UNCHANGED <<current, child, subs, todo, seen>>
    BY <1>5 DEF Watch, Goto
  <2>2. ToSet(csubs') = ToSet(csubs) \cup {s}
    BY <2>1, AppendAddsOne
  <2>3. ToSet(ctodo'[t]) = {s} /\ \A u \in Threads : u # t => ctodo'[u] = ctodo[u]
    BY <2>1, OneIsItself
  <2> QED BY <2>1, <2>2, <2>3
<1>6. CASE Call(t)
  <2> DEFINE h == Head(todo[t])
  <2>1. /\ h \in Known /\ ToSet(todo[t]) = {h} \cup ToSet(todo'[t])
        /\ \A u \in Threads : u # t => todo'[u] = todo[u]
    BY <1>6, CallSets DEF Call
  <2>2. h \in Subscribers /\ seen' = [seen EXCEPT ![h] = current]
    BY <1>6, <2>1 DEF Call, Known
  <2>3. UNCHANGED <<current, subs, child, csubs, ctodo>>
    BY <1>6 DEF Call
  <2>4. h \notin Watchers /\ seen'[h] = current
    BY <2>2
  <2>5. \A s \in Subscribers \cup Watchers : s # h => seen'[s] = seen[s]
    BY <2>2
  <2> HIDE DEF h
  <2> QED BY <2>1, <2>3, <2>4, <2>5
<1>7. CASE CallRefresh(t)
  <2>1. /\ ToSet(todo[t]) = {Refresh} \cup ToSet(todo'[t])
        /\ \A u \in Threads : u # t => todo'[u] = todo[u]
    BY <1>7, CallSets DEF CallRefresh
  <2>2. UNCHANGED <<current, subs, child, csubs, ctodo, seen>>
    BY <1>7 DEF CallRefresh
  <2> QED BY <2>1, <2>2
<1>8. CASE UpdateChild(t)
  BY <1>8 DEF UpdateChild, Goto
<1>9. CASE CallWatcher(t)
  <2> DEFINE h == Head(ctodo[t])
  <2>1. /\ ctodo[t] \in Seq(Watchers) /\ ctodo[t] # <<>> /\ ctodo'[t] = Tail(ctodo[t])
        /\ \A u \in Threads : u # t => ctodo'[u] = ctodo[u]
        /\ seen' = [seen EXCEPT ![h] = child]
        /\ UNCHANGED <<current, subs, child, csubs, todo>>
    BY <1>9 DEF CallWatcher
  <2>2. h \in Watchers /\ ToSet(ctodo[t]) = {h} \cup ToSet(ctodo'[t])
    BY <2>1, HeadAndTail
  <2>3. h \notin Subscribers /\ seen'[h] = child
    BY <2>1, <2>2
  <2>4. \A s \in Subscribers \cup Watchers : s # h => seen'[s] = seen[s]
    BY <2>1
  <2> HIDE DEF h
  <2> QED BY <2>1, <2>2, <2>3, <2>4
<1>10. CASE ReturnChild(t)
  BY <1>10 DEF ReturnChild, Goto
<1>11. CASE Return(t)
  BY <1>11 DEF Return, Goto
<1> QED BY <1>1, <1>2, <1>3, <1>4, <1>5, <1>6, <1>7, <1>8, <1>9, <1>10, <1>11 DEF Step

LEMMA StepAlone ==
  ASSUME IInv, NEW t \in Threads, Step(t)
  PROVE  AloneInv'
<1> USE DEF IInv, AloneInv, TypeOK, parentVars, childVars
<1>1. CASE Update(t)
  BY <1>1 DEF Update, Goto
<1>2. ASSUME NEW s \in Subscribers, Subscribe(t, s) PROVE AloneInv'
  BY <1>2 DEF Subscribe, Goto
<1>3. CASE Map(t)
  BY <1>3 DEF Map, Goto
<1>4. CASE MapSubscribe(t)
  BY <1>4 DEF MapSubscribe, Goto
<1>5. ASSUME NEW s \in Watchers, Watch(t, s) PROVE AloneInv'
  BY <1>5 DEF Watch, Goto
<1>6. CASE Call(t)
  BY <1>6 DEF Call
<1>7. CASE CallRefresh(t)
  BY <1>7 DEF CallRefresh, Goto
<1>8. CASE UpdateChild(t)
  BY <1>8 DEF UpdateChild, Goto
<1>9. CASE CallWatcher(t)
  BY <1>9 DEF CallWatcher
<1>10. CASE ReturnChild(t)
  BY <1>10 DEF ReturnChild, Goto
<1>11. CASE Return(t)
  BY <1>11 DEF Return, Goto
<1> QED BY <1>1, <1>2, <1>3, <1>4, <1>5, <1>6, <1>7, <1>8, <1>9, <1>10, <1>11 DEF Step

LEMMA StepFollow ==
  ASSUME IInv, NEW t \in Threads, Step(t)
  PROVE  FollowInv'
<1> USE RefreshableAssumption, EmptyIsNobody DEF IInv, FollowInv, AloneInv, LoopInv, TypeOK, SeqInv, parentVars, childVars
<1>1. CASE Update(t)
  BY <1>1 DEF Update, Goto
<1>2. ASSUME NEW s \in Subscribers, Subscribe(t, s) PROVE FollowInv'
  <2>1. /\ ToSet(subs') = ToSet(subs) \cup {s} /\ s # Refresh
        /\ \A u \in Threads : u # t => todo'[u] = todo[u]
    BY <1>2, AddSets DEF Subscribe, Known
  <2>2. /\ todo[t] = <<>> /\ pc' = [pc EXCEPT ![t] = "notify"] /\ pc[t] = "idle"
        /\ UNCHANGED <<current, child, value, overlap>>
    BY <1>2 DEF Subscribe, Goto
  <2> QED BY <2>1, <2>2
<1>3. CASE Map(t)
  BY <1>3 DEF Map, Goto
<1>4. CASE MapSubscribe(t)
  BY <1>4, AppendAddsOne, OneIsItself DEF MapSubscribe, Goto
<1>5. ASSUME NEW s \in Watchers, Watch(t, s) PROVE FollowInv'
  BY <1>5 DEF Watch, Goto
<1>6. CASE Call(t)
  <2>1. /\ ToSet(todo[t]) = {Head(todo[t])} \cup ToSet(todo'[t]) /\ Head(todo[t]) # Refresh
        /\ \A u \in Threads : u # t => todo'[u] = todo[u]
    BY <1>6, CallSets DEF Call
  <2>2. UNCHANGED <<current, subs, child, pc, value, overlap>>
    BY <1>6 DEF Call
  <2> QED BY <2>1, <2>2
<1>7. CASE CallRefresh(t)
  BY <1>7, HeadAndTail DEF CallRefresh, Goto
<1>8. CASE UpdateChild(t)
  BY <1>8 DEF UpdateChild, Goto
<1>9. CASE CallWatcher(t)
  BY <1>9 DEF CallWatcher
<1>10. CASE ReturnChild(t)
  BY <1>10 DEF ReturnChild, Goto
<1>11. CASE Return(t)
  BY <1>11 DEF Return, Goto
<1> QED BY <1>1, <1>2, <1>3, <1>4, <1>5, <1>6, <1>7, <1>8, <1>9, <1>10, <1>11 DEF Step

LEMMA Invariance == Spec => []IInv
<1>1. Init => IInv
  BY InitInv
<1>2. IInv /\ [Next]_vars => IInv'
  <2> SUFFICES ASSUME IInv, [Next]_vars PROVE IInv'
    OBVIOUS
  <2>1. ASSUME NEW t \in Threads, Step(t) PROVE IInv'
    BY <2>1, StepSeq, StepType, StepLoop, StepMap, StepFresh, StepAlone, StepFollow DEF IInv, LoopStep
  <2>2. CASE UNCHANGED vars
    BY <2>2 DEF IInv, TypeOK, SeqInv, LoopInv, MapInv, FreshInv, AloneInv, FollowInv,
                vars, parentVars, childVars
  <2> QED BY <2>1, <2>2 DEF Next
<1> QED BY <1>1, <1>2, PTL DEF Spec

-------------------------------------------------------------------------------

\* Every variable keeps its type; no loop holds a subscriber that was not registered.
THEOREM TypeCorrect == Spec => []TypeOK
<1>1. IInv => TypeOK
  BY DEF IInv
<1> QED BY <1>1, Invariance, PTL

\* When no call is in progress every subscriber, of the parent and of the child, has seen
\* the latest value: an older value that a slower update() delivers is never its last.
THEOREM Fresh == Spec => []SubscribersAreFresh
<1>1. IInv => SubscribersAreFresh
  <2> SUFFICES ASSUME IInv, Quiet PROVE SubscribersAreFresh
    BY DEF SubscribersAreFresh
  <2>1. \A t \in Threads : todo[t] = <<>> /\ ctodo[t] = <<>>
    BY DEF IInv, LoopInv, Quiet
  <2>2. \A s \in Subscribers : s \in ToSet(subs) => seen[s] = current
    BY <2>1, EmptyIsNobody DEF IInv, FreshInv
  <2>3. \A w \in Watchers : w \in ToSet(csubs) => seen[w] = child
    BY <2>1, EmptyIsNobody DEF IInv, FreshInv
  <2>4. \A i \in 1 .. Len(subs) : subs[i] \in ToSet(subs) /\ subs[i] \in Subscribers \cup {Refresh}
    BY DEF IInv, SeqInv, ToSet, Known
  <2>5. \A i \in 1 .. Len(csubs) : csubs[i] \in ToSet(csubs) /\ csubs[i] \in Watchers
    BY DEF IInv, SeqInv, ToSet
  <2> QED BY <2>2, <2>3, <2>4, <2>5 DEF SubscribersAreFresh
<1> QED BY <1>1, Invariance, PTL

\* The child of map() has the value of its parent when no call is in progress, unless
\* the latest call of `refresh' overlapped another one.
THEOREM ChildFollows == Spec => []ChildFollowsUnlessOverlap
<1>1. IInv => ChildFollowsUnlessOverlap
  <2> SUFFICES ASSUME IInv, Quiet, mapping = Done, ~overlap PROVE child = current
    BY DEF ChildFollowsUnlessOverlap
  <2>1. \A t \in Threads : todo[t] = <<>> /\ pc[t] # "refresh"
    BY DEF IInv, LoopInv, Quiet
  <2> QED BY <2>1, EmptyIsNobody DEF IInv, MapInv, FollowInv
<1> QED BY <1>1, Invariance, PTL
===============================================================================
