-------------------------------- MODULE Proxies --------------------------------
(***************************************************************************)
(* nr.proxy: a lazy or eager `proxy' that threads dereference, bind and    *)
(* override, and the stacks of a threadlocal or a contextlocal.            *)
(***************************************************************************)
EXTENDS Naturals, Sequences, SequencesExt, FiniteSets

CONSTANTS
  Threads,     \* threads, and the contexts in which they run
  Objects,     \* what the function of the proxy and callers of set_value() can give
  MaxDepth,    \* bound on the length of a stack
  None, Unbound

VARIABLES
  class,     \* of the object: "proxy", "threadlocal" or "contextlocal"
  func,      \* "local" or None
  lazy, cache,
  pc,        \* per thread: "idle", "call" (in the function), "store";
             \* "lazy", "cache" in set_value()
  result,    \* per thread: what it has in hand, Unbound for a RuntimeError
  override,  \* history: the object of the last set_value(), or None
  overlap,   \* history: a function was running beside another one or beside set_value()
  ref,       \* per context: the list it refers to, None before the first push
  stack,     \* the lists: who pushed each of their values
  kin        \* history: pairs of contexts, one copied from the other after a push

proxyVars == <<class, func, lazy, cache, pc, result, override, overlap>>
stackVars == <<class, ref, stack, kin>>
vars == <<class, func, lazy, cache, pc, result, override, overlap, ref, stack, kin>>

Init ==
  /\ class \in {"proxy", "threadlocal", "contextlocal"}
  /\ func \in {"local", None} /\ lazy \in BOOLEAN /\ cache = None
  /\ pc = [t \in Threads |-> "idle"] /\ result = [t \in Threads |-> None]
  /\ override = None /\ overlap = FALSE
  /\ ref = [c \in Threads |-> None]
  /\ stack = [c \in Threads |-> <<>>] /\ kin = {}

Computing == {t \in Threads : pc[t] \in {"call", "store"}}
Goto(t, to) == pc' = [pc EXCEPT ![t] = to]

\* _get_current_object(): the cache if there is one, else the function is called.
Get(t) ==
  /\ class = "proxy" /\ pc[t] = "idle"
  /\ \/ /\ lazy /\ cache # None
        /\ result' = [result EXCEPT ![t] = cache] /\ UNCHANGED <<pc, overlap>>
     \/ /\ ~(lazy /\ cache # None) /\ func = None
        /\ result' = [result EXCEPT ![t] = Unbound] /\ UNCHANGED <<pc, overlap>>
     \/ /\ ~(lazy /\ cache # None) /\ func # None /\ Goto(t, "call")
        /\ overlap' = (overlap \/ Computing # {}) /\ UNCHANGED result
  /\ UNCHANGED <<func, lazy, cache, override, stackVars>>

\* The function returns, None perhaps.
Called(t, obj) ==
  /\ pc[t] = "call"
  /\ result' = [result EXCEPT ![t] = obj]
  /\ Goto(t, IF lazy THEN "store" ELSE "idle")
  /\ UNCHANGED <<func, lazy, cache, override, overlap, stackVars>>

\* The cache is written without looking at it again.
Store(t) ==
  /\ pc[t] = "store" /\ Goto(t, "idle")
  /\ cache' = result[t]
  /\ UNCHANGED <<func, lazy, result, override, overlap, stackVars>>

\* set_value() makes three assignments; a thread in between finds an eager proxy unbound.
SetFunc(t, obj) ==
  /\ class = "proxy" /\ pc[t] = "idle" /\ Goto(t, "lazy")
  /\ func' = None /\ result' = [result EXCEPT ![t] = obj]
  /\ overlap' = (overlap \/ Computing # {})
  /\ UNCHANGED <<lazy, cache, override, stackVars>>

SetLazy(t) ==
  /\ pc[t] = "lazy" /\ Goto(t, "cache") /\ lazy' = TRUE
  /\ UNCHANGED <<func, cache, result, override, overlap, stackVars>>

SetCache(t) ==
  /\ pc[t] = "cache" /\ Goto(t, "idle")
  /\ cache' = result[t] /\ override' = result[t]
  /\ UNCHANGED <<func, lazy, result, overlap, stackVars>>

\* bind() assigns to an attribute, which __setattr__ forwards to the current object: it
\* dereferences the proxy and changes nothing of it.
Bind(t) == Get(t)

-------------------------------------------------------------------------------
\* The list of a context that has none is made by its first push.
List(c) == IF ref[c] = None THEN c ELSE ref[c]

\* _push(): the list is changed in place, and set only when it is new.
Push(c) ==
  /\ class # "proxy" /\ Len(stack[List(c)]) < MaxDepth
  /\ stack' = [stack EXCEPT ![List(c)] = Append(@, c)]
  /\ ref' = [ref EXCEPT ![c] = List(c)]
  /\ UNCHANGED <<proxyVars, kin>>

\* _pop(); _empty() and the current object look at the same list.
Pop(c) ==
  /\ ref[c] # None /\ stack[ref[c]] # <<>>
  /\ stack' = [stack EXCEPT ![ref[c]] = Front(@)]
  /\ UNCHANGED <<proxyVars, ref, kin>>

\* A task is created: its context, d, starts with the references of c.
CopyContext(c, d) ==
  /\ class = "contextlocal" /\ ref[c] # None /\ ref[d] = None
  /\ ref' = [ref EXCEPT ![d] = ref[c]]
  /\ kin' = kin \cup {<<c, d>>, <<d, c>>}
               \cup {<<d, e>> : e \in {e \in Threads : <<c, e>> \in kin}}
               \cup {<<e, d>> : e \in {e \in Threads : <<c, e>> \in kin}}
  /\ UNCHANGED <<proxyVars, stack>>

Next ==
  \/ \E t \in Threads : Get(t) \/ Store(t) \/ Bind(t) \/ SetLazy(t) \/ SetCache(t)
  \/ \E t \in Threads, obj \in Objects \cup {None} : Called(t, obj) \/ SetFunc(t, obj)
  \/ \E c \in Threads : Push(c) \/ Pop(c)
  \/ \E c, d \in Threads : CopyContext(c, d)

Spec == Init /\ [][Next]_vars

-------------------------------------------------------------------------------
\* What set_value() gave is permanent, unless the function was running then
\* (__init__.py:230-243).
OverrideIsPermanent == override # None /\ ~overlap => lazy /\ cache = override

\* A lazy proxy gives the same object to all, unless two threads were the first.
LazyIsOne ==
  lazy /\ ~overlap /\ func # None =>
    \A t \in Threads : pc[t] # "store" => result[t] \in {None, cache}

\* The values that a context finds on its stack were pushed by itself, or by contexts that
\* share its list since they were copied (__init__.py:350).
StacksAreSeparate ==
  \A c, d \in Threads :
    ref[c] # None /\ d \in ToSet(stack[ref[c]]) => d = c \/ <<c, d>> \in kin

-------------------------------------------------------------------------------
\* The inductive invariants: what set_value() leaves unbound is never computed again, and
\* contexts that refer to the same list are related.
ContextsAreNotNone == None \notin Threads

TypeOK ==
  /\ pc \in [Threads -> {"idle", "call", "store", "lazy", "cache"}] /\ DOMAIN result = Threads
  /\ ref \in [Threads -> Threads \cup {None}] /\ stack \in [Threads -> Seq(Threads)]

SettersUnbind ==
  /\ override # None => func = None /\ lazy
  /\ \A t \in Threads : /\ pc[t] \in {"lazy", "cache"} => func = None
                        /\ pc[t] = "cache" => lazy

OneComputes ==
  ~overlap => /\ func = None => Computing = {}
              /\ \A t, u \in Computing : t = u
              /\ lazy /\ Computing # {} => cache = None

SharersAreKin ==
  /\ \A c, d \in Threads : ref[c] # None /\ ref[d] = ref[c] => c = d \/ <<c, d>> \in kin
  /\ \A c \in Threads : ref[c] = None => stack[c] = <<>> /\ \A d \in Threads : ref[d] # c

IInv ==
  /\ TypeOK /\ SettersUnbind /\ OneComputes /\ OverrideIsPermanent /\ LazyIsOne
  /\ SharersAreKin /\ StacksAreSeparate
===============================================================================
