------------------------------ MODULE Refreshable ------------------------------
(***************************************************************************)
(* nr.refreshable: a Refreshable, its subscribers, and the child that      *)
(* map() makes of it, with threads that call update(), subscribe() and     *)
(* map().                                                                  *)
(*                                                                         *)
(* The lock of a Refreshable is held for one action at a time and never    *)
(* while a subscriber runs.  Values are numbered in the order in which     *)
(* they are set, so a smaller one is an older one; the mapper leaves the   *)
(* number of its argument on its result.                                   *)
(***************************************************************************)
EXTENDS Naturals, Sequences, SequencesExt

CONSTANTS
  Threads,       \* threads that use the Refreshable
  Subscribers,   \* subscribers of the parent, which read get() when called
  Watchers,      \* subscribers of the child, which read its get()
  MaxUpdates,    \* bound on the calls of update() on the parent
  Refresh,       \* the subscriber that map() registers
  None, Done     \* nobody has called map() yet; map() has returned

ASSUME RefreshableAssumption ==
  /\ Refresh \notin Subscribers
  /\ Watchers \cap (Subscribers \cup {Refresh}) = {}
  /\ MaxUpdates \in Nat
  /\ {None, Done} \cap Threads = {} /\ None # Done

VARIABLES
  current, subs,      \* the parent: _current and _subscribers
  child, csubs,       \* the child: the same; its value is 0 before map()
  mapping,            \* the thread in map(), None or Done
  pc,                 \* per thread: where it is
  todo,               \* per thread: what is left of its loop over subscribers
  ctodo,              \* per thread: the same in the update() of the child
  value,              \* per thread: what `refresh' has mapped
  seen,               \* per subscriber of either: the value it read last
  overlap             \* the call of `refresh' begun last overlapped another

vars == <<current, subs, child, csubs, mapping, pc, todo, ctodo, value, seen, overlap>>
parentVars == <<current, subs>>
childVars == <<child, csubs>>

Init ==
  /\ current = 1 /\ subs = <<>>
  /\ child = 0 /\ csubs = <<>>
  /\ mapping = None
  /\ pc = [t \in Threads |-> "idle"]
  /\ todo = [t \in Threads |-> <<>>]
  /\ ctodo = [t \in Threads |-> <<>>]
  /\ value = [t \in Threads |-> 0]
  /\ seen = [s \in Subscribers \cup Watchers |-> 0]
  /\ overlap = FALSE

Goto(t, from, to) ==
  /\ pc[t] = from
  /\ pc' = [pc EXCEPT ![t] = to]

-------------------------------------------------------------------------------

\* update(), under the lock: the loop runs over a copy of the subscribers.
Update(t) ==
  /\ current <= MaxUpdates
  /\ Goto(t, "idle", "notify")
  /\ current' = current + 1
  /\ todo' = [todo EXCEPT ![t] = subs]
  /\ UNCHANGED <<subs, childVars, mapping, ctodo, value, seen, overlap>>

\* subscribe(): registered under the lock, and called once outside of it.
Subscribe(t, s) ==
  /\ ~Contains(subs, s)
  /\ Goto(t, "idle", "notify")
  /\ subs' = Append(subs, s)
  /\ todo' = [todo EXCEPT ![t] = <<s>>]
  /\ UNCHANGED <<current, childVars, mapping, ctodo, value, seen, overlap>>

\* map(): the child starts with the mapped value of the parent ...
Map(t) ==
  /\ mapping = None
  /\ mapping' = t
  /\ child' = current
  /\ Goto(t, "idle", "mapped")
  /\ UNCHANGED <<parentVars, csubs, todo, ctodo, value, seen, overlap>>

\* Mutant: `refresh' is registered but not called.
MapSubscribeQuietly(t) ==
  /\ Goto(t, "mapped", "idle")
  /\ subs' = Append(subs, Refresh)
  /\ UNCHANGED <<current, childVars, mapping, todo, ctodo, value, seen, overlap>>

\* ... and `refresh' is subscribed.
MapSubscribe(t) ==
  /\ Goto(t, "mapped", "notify")
  /\ subs' = Append(subs, Refresh)
  /\ todo' = [todo EXCEPT ![t] = <<Refresh>>]
  /\ UNCHANGED <<current, childVars, mapping, ctodo, value, seen, overlap>>

\* subscribe() of the child: map() has returned it.
Watch(t, s) ==
  /\ mapping = Done
  /\ ~Contains(csubs, s)
  /\ Goto(t, "idle", "cnotify")
  /\ csubs' = Append(csubs, s)
  /\ ctodo' = [ctodo EXCEPT ![t] = <<s>>]
  /\ UNCHANGED <<parentVars, child, mapping, todo, value, seen, overlap>>

-------------------------------------------------------------------------------

\* Mutant: an exception of a subscriber ends the loop.
CallRaises(t) ==
  /\ pc[t] = "notify"
  /\ todo[t] # <<>> /\ Head(todo[t]) # Refresh
  /\ todo' = [todo EXCEPT ![t] = <<>>]
  /\ seen' = [seen EXCEPT ![Head(todo[t])] = current]
  /\ UNCHANGED <<parentVars, childVars, mapping, pc, ctodo, value, overlap>>

\* A subscriber of the parent is called; it may raise, which ends its call
\* and not the loop.
Call(t) ==
  /\ pc[t] = "notify"
  /\ todo[t] # <<>> /\ Head(todo[t]) # Refresh
  /\ todo' = [todo EXCEPT ![t] = Tail(@)]
  /\ seen' = [seen EXCEPT ![Head(todo[t])] = current]
  /\ UNCHANGED <<parentVars, childVars, mapping, pc, ctodo, value, overlap>>

\* The call of `refresh' reads the parent ...
CallRefresh(t) ==
  /\ todo[t] # <<>> /\ Head(todo[t]) = Refresh
  /\ Goto(t, "notify", "refresh")
  /\ todo' = [todo EXCEPT ![t] = Tail(@)]
  /\ value' = [value EXCEPT ![t] = current]
  /\ overlap' = \E u \in Threads : pc[u] = "refresh"
  /\ UNCHANGED <<parentVars, childVars, mapping, ctodo, seen>>

\* ... and updates the child with what it has mapped.
UpdateChild(t) ==
  /\ Goto(t, "refresh", "cnotify")
  /\ child' = value[t]
  /\ ctodo' = [ctodo EXCEPT ![t] = csubs]
  /\ value' = [value EXCEPT ![t] = 0]
  /\ UNCHANGED <<parentVars, csubs, mapping, todo, seen, overlap>>

CallWatcher(t) ==
  /\ pc[t] = "cnotify"
  /\ ctodo[t] # <<>>
  /\ ctodo' = [ctodo EXCEPT ![t] = Tail(@)]
  /\ seen' = [seen EXCEPT ![Head(ctodo[t])] = child]
  /\ UNCHANGED <<parentVars, childVars, mapping, pc, todo, value, overlap>>

\* The end of the child's update(): back in the loop of the parent, if any.
ReturnChild(t) ==
  /\ ctodo[t] = <<>>
  /\ Goto(t, "cnotify", "notify")
  /\ UNCHANGED <<parentVars, childVars, mapping, todo, ctodo, value, seen, overlap>>

Return(t) ==
  /\ todo[t] = <<>>
  /\ Goto(t, "notify", "idle")
  /\ mapping' = IF mapping = t THEN Done ELSE mapping
  /\ UNCHANGED <<parentVars, childVars, todo, ctodo, value, seen, overlap>>

Step(t) ==
  \/ Update(t)
  \/ \E s \in Subscribers : Subscribe(t, s)
  \/ Map(t)
  \/ MapSubscribe(t)
  \/ \E s \in Watchers : Watch(t, s)
  \/ Call(t)
  \/ CallRefresh(t)
  \/ UpdateChild(t)
  \/ CallWatcher(t)
  \/ ReturnChild(t)
  \/ Return(t)

Next == \E t \in Threads : Step(t)

Spec == Init /\ [][Next]_vars

-------------------------------------------------------------------------------

\* Every variable keeps its type, the child is never ahead of its parent, and no
\* subscriber is called that was not registered.
TypeOK ==
  /\ current \in 1..(MaxUpdates + 1)
  /\ child \in 0..current
  /\ mapping \in Threads \cup {None, Done}
  /\ pc \in [Threads -> {"idle", "notify", "mapped", "refresh", "cnotify"}]
  /\ value \in [Threads -> 0..current]
  /\ seen \in [Subscribers \cup Watchers -> 0..current]
  /\ overlap \in BOOLEAN
  /\ ToSet(subs) \subseteq Subscribers \cup {Refresh}
  /\ ToSet(csubs) \subseteq Watchers
  /\ \A t \in Threads : /\ ToSet(todo[t]) \subseteq ToSet(subs)
                        /\ ToSet(ctodo[t]) \subseteq ToSet(csubs)

Quiet == \A t \in Threads : pc[t] = "idle"

\* When no call is in progress, every subscriber has seen the current value, however
\* its subscribe() and the update()s interleaved: a subscriber that reads get() is
\* called after every update, or registered before it is called.
SubscribersAreFresh ==
  Quiet => /\ \A i \in 1..Len(subs) : subs[i] # Refresh => seen[subs[i]] = current
           /\ \A i \in 1..Len(csubs) : seen[csubs[i]] = child

\* The child follows its parent unless the latest call of `refresh' overlapped
\* another one, of a second update() or of the map() itself: the next call that
\* does not overlap makes up for it.
ChildFollowsUnlessOverlap == Quiet /\ mapping = Done /\ ~overlap => child = current
===============================================================================
