---------------------------- MODULE SeparationProofs ----------------------------
(***************************************************************************)
(* Proofs that who asks gets what is his: a proxy is one object to all and *)
(* a stack that of its context, a configuration is the file of its time,   *)
(* an application has instances of its own entities, and a call over HTTP  *)
(* has the arguments of its caller and the answer to them.  Each component *)
(* has an inductive invariant, with lemmas that its initial states have it,*)
(* that its steps keep it and what it means, which ConcurrentProofs uses   *)
(* again for MCConcurrent, where the components are composed.  The         *)
(* parameters are arbitrary; what a proof needs of one is a hypothesis,    *)
(* and MCConcurrent assumes it of its arguments.                           *)
(***************************************************************************)
EXTENDS Naturals, Sequences, FiniteSets, FiniteSetTheorems, WellFoundedInduction, TLAPS

CONSTANTS None,
  Threads, Objects, MaxDepth, Unbound,                          \* Proxies
  Configs, Loggers, Configured, MaxTime, MaxHandlers,           \* AppConfig
  Apps, Names, Dbs, Converters,                                 \* AppDb
  Interfaces, Annotations, Literals, Unroutable, Values, Exceptions    \* RestCall

VARIABLES
  class, func, lazy, cache, pc, asked, override, overlap, ref, stack, kin,
  file, now, env, app, config, lastLoad, stage, read, toInstall, root, levels, changed, outcome,
  entities, refs, origin, bound, members, failed, db, tables, converters, installed, got,
  routes, heap, resolved, phase, call, request, response, ran, end

Proxy == INSTANCE Proxies WITH result <- asked
App == INSTANCE AppConfig WITH Apps <- Configured
Orm == INSTANCE AppDb WITH ref <- refs, result <- got
Rest == INSTANCE RestCall WITH stage <- phase, outcome <- end

\* Numbers have a least one among them: the library's Min is one of them, and below the rest.
LEMMA LeastNumber ==
  ASSUME NEW S \in SUBSET Nat, S # {}
  PROVE  Rest!Min(S) \in S /\ \A x \in S : Rest!Min(S) <= x
<1>1. \E x \in S : \A y \in S : ~ (<<y, x>> \in OpToRel(<, Nat))
  <2> HIDE DEF OpToRel
  <2> QED
    BY NatLessThanWellFounded, WFMin
<1>2. \E x \in S : \A y \in S : x <= y
  <2>1. PICK x \in S : \A y \in S : ~ (<<y, x>> \in OpToRel(<, Nat))
    BY <1>1
  <2>2. ASSUME NEW y \in S  PROVE  <<y, x>> \in OpToRel(<, Nat) <=> y < x
    <3>1. <<y, x>> \in Nat \X Nat /\ <<y, x>>[1] = y /\ <<y, x>>[2] = x
      OBVIOUS
    <3> QED
      BY <3>1, Zenon DEF OpToRel
  <2>3. \A y \in S : ~ (y < x)
    BY <2>1, <2>2, Zenon
  <2> QED
    BY <2>3
<1> QED
  BY <1>2, Zenon DEF Rest!Min

-------------------------------------------------------------------------------
(* 1. nr.proxy *)

\* The stacks and the proxy have no variable in common.
ProxyCall ==
  \/ \E t \in Threads : Proxy!Get(t) \/ Proxy!Store(t) \/ Proxy!SetLazy(t) \/ Proxy!SetCache(t)
  \/ \E t \in Threads : \E obj \in Objects \cup {None} : Proxy!Called(t, obj) \/ Proxy!SetFunc(t, obj)
StackCall ==
  \/ \E c \in Threads : Proxy!Push(c) \/ Proxy!Pop(c)
  \/ \E c, d \in Threads : Proxy!CopyContext(c, d)

LEMMA CallsAreOfOne ==
  ASSUME Proxy!Next
  PROVE  (ProxyCall /\ UNCHANGED <<ref, stack, kin>>) \/ (StackCall /\ UNCHANGED Proxy!proxyVars)
<1>1. ASSUME NEW t \in Threads, Proxy!Get(t) \/ Proxy!Store(t) \/ Proxy!Bind(t) \/ Proxy!SetLazy(t) \/ Proxy!SetCache(t)
      PROVE  ProxyCall /\ UNCHANGED <<ref, stack, kin>>
  BY <1>1 DEF ProxyCall, Proxy!Get, Proxy!Store, Proxy!Bind, Proxy!SetLazy, Proxy!SetCache, Proxy!stackVars
<1>2. ASSUME NEW t \in Threads, NEW obj \in Objects \cup {None}, Proxy!Called(t, obj) \/ Proxy!SetFunc(t, obj)
      PROVE  ProxyCall /\ UNCHANGED <<ref, stack, kin>>
  BY <1>2 DEF ProxyCall, Proxy!Called, Proxy!SetFunc, Proxy!stackVars
<1>3. ASSUME NEW c \in Threads, Proxy!Push(c) \/ Proxy!Pop(c)
      PROVE  StackCall /\ UNCHANGED Proxy!proxyVars
  BY <1>3 DEF StackCall, Proxy!Push, Proxy!Pop
<1>4. ASSUME NEW c \in Threads, NEW d \in Threads, Proxy!CopyContext(c, d)
      PROVE  StackCall /\ UNCHANGED Proxy!proxyVars
  BY <1>4 DEF StackCall, Proxy!CopyContext
<1> QED
  BY <1>1, <1>2, <1>3, <1>4 DEF Proxy!Next

ProxyParts == Proxy!SettersUnbind /\ Proxy!OneComputes /\ Proxy!OverrideIsPermanent /\ Proxy!LazyIsOne

\* Once func is None no thread computes any more, so what set_value() stored last stays.
LEMMA ProxyStep ==
  ASSUME Proxy!TypeOK, ProxyParts, ProxyCall, UNCHANGED <<ref, stack>>
  PROVE  Proxy!TypeOK' /\ ProxyParts'
<1> USE DEF Proxy!TypeOK, Proxy!SettersUnbind, Proxy!OneComputes, Proxy!OverrideIsPermanent, Proxy!LazyIsOne,
            Proxy!Computing, Proxy!Goto, ProxyParts
<1>1. ASSUME NEW t \in Threads, Proxy!Get(t)  PROVE  Proxy!TypeOK' /\ ProxyParts'
  BY <1>1 DEF Proxy!Get
<1>2. ASSUME NEW t \in Threads, Proxy!Store(t)  PROVE  Proxy!TypeOK' /\ ProxyParts'
  BY <1>2 DEF Proxy!Store
<1>3. ASSUME NEW t \in Threads, Proxy!SetLazy(t)  PROVE  Proxy!TypeOK' /\ ProxyParts'
  BY <1>3 DEF Proxy!SetLazy
<1>4. ASSUME NEW t \in Threads, Proxy!SetCache(t)  PROVE  Proxy!TypeOK' /\ ProxyParts'
  BY <1>4 DEF Proxy!SetCache
<1>5. ASSUME NEW t \in Threads, NEW obj, Proxy!Called(t, obj)  PROVE  Proxy!TypeOK' /\ ProxyParts'
  BY <1>5 DEF Proxy!Called
<1>6. ASSUME NEW t \in Threads, NEW obj, Proxy!SetFunc(t, obj)  PROVE  Proxy!TypeOK' /\ ProxyParts'
  BY <1>6 DEF Proxy!SetFunc
<1> QED
  BY <1>1, <1>2, <1>3, <1>4, <1>5, <1>6 DEF ProxyCall

\* What a push and a pop make of who is on a list.
LEMMA ListContents ==
  ASSUME NEW s \in Seq(Threads)
  PROVE  /\ \A c \in Threads : Append(s, c) \in Seq(Threads) /\ Proxy!ToSet(Append(s, c)) = Proxy!ToSet(s) \cup {c}
         /\ s # <<>> => Proxy!Front(s) \in Seq(Threads) /\ Proxy!ToSet(Proxy!Front(s)) \subseteq Proxy!ToSet(s)
         /\ Proxy!ToSet(<<>>) = {}
<1>1. ASSUME NEW c \in Threads
      PROVE  Append(s, c) \in Seq(Threads) /\ Proxy!ToSet(Append(s, c)) = Proxy!ToSet(s) \cup {c}
  <2>1. /\ DOMAIN Append(s, c) = 1 .. Len(s) + 1 /\ DOMAIN s = 1 .. Len(s) /\ Len(s) \in Nat
        /\ \A i \in 1 .. Len(s) : Append(s, c)[i] = s[i]
        /\ Append(s, c)[Len(s) + 1] = c
    OBVIOUS
  <2>2. ASSUME NEW i \in 1 .. Len(s) + 1  PROVE  i \in 1 .. Len(s) \/ i = Len(s) + 1
    BY <2>1
  <2> QED
    BY <2>1, <2>2 DEF Proxy!ToSet
<1>2. ASSUME s # <<>>
      PROVE  Proxy!Front(s) \in Seq(Threads) /\ Proxy!ToSet(Proxy!Front(s)) \subseteq Proxy!ToSet(s)
  <2>1. Proxy!Front(s) \in Seq(Threads) /\ \A i \in DOMAIN Proxy!Front(s) : i \in DOMAIN s /\ Proxy!Front(s)[i] = s[i]
    BY <1>2 DEF Proxy!Front
  <2> QED
    BY <2>1 DEF Proxy!ToSet
<1>3. Proxy!ToSet(<<>>) = {}
  <2>1. DOMAIN <<>> = {}
    OBVIOUS
  <2> QED
    BY <2>1, Zenon DEF Proxy!ToSet
<1> QED
  BY <1>1, <1>2, <1>3

\* A list is shared by contexts that are kin only, so what is on it was pushed by kin.
LEMMA StackStep ==
  ASSUME Proxy!ContextsAreNotNone, Proxy!TypeOK, Proxy!SharersAreKin, Proxy!StacksAreSeparate,
         StackCall, UNCHANGED <<pc, asked>>
  PROVE  Proxy!TypeOK' /\ Proxy!SharersAreKin' /\ Proxy!StacksAreSeparate'
<1> USE DEF Proxy!ContextsAreNotNone, Proxy!TypeOK
<1>1. ASSUME NEW c \in Threads, Proxy!Push(c)
      PROVE  Proxy!TypeOK' /\ Proxy!SharersAreKin' /\ Proxy!StacksAreSeparate'
  <2> DEFINE L == Proxy!List(c)
  <2>1. L \in Threads /\ stack[L] \in Seq(Threads)
    BY DEF Proxy!List
  <2>2. /\ stack' = [stack EXCEPT ![L] = Append(@, c)] /\ ref' = [ref EXCEPT ![c] = L] /\ UNCHANGED kin
    BY <1>1 DEF Proxy!Push
  <2>3. \A e \in Threads : ref'[e] = L => e = c \/ <<e, c>> \in kin
    BY <2>2 DEF Proxy!List, Proxy!SharersAreKin
  <2>4. Proxy!TypeOK'
    BY <1>1, <2>1, <2>2, ListContents
  <2>5. Proxy!SharersAreKin'
    BY <2>1, <2>2 DEF Proxy!List, Proxy!SharersAreKin
  <2>6. ASSUME NEW e \in Threads, NEW d \in Threads, ref'[e] # None, d \in Proxy!ToSet(stack'[ref'[e]])
        PROVE  d = e \/ <<e, d>> \in kin
    <3>1. CASE ref'[e] # L
      BY <3>1, <2>1, <2>2, <2>6 DEF Proxy!StacksAreSeparate, Proxy!List
    <3>2. CASE ref'[e] = L
      <4>1. d = c \/ d \in Proxy!ToSet(stack[L])
        <5>1. stack'[L] = Append(stack[L], c)
          <6> HIDE DEF L
          <6> QED
            BY <2>1, <2>2
        <5>2. d \in Proxy!ToSet(Append(stack[L], c))
          BY <3>2, <2>6, <5>1, Zenon
        <5>3. Proxy!ToSet(Append(stack[L], c)) = Proxy!ToSet(stack[L]) \cup {c}
          BY <2>1, ListContents
        <5> QED
          BY <5>2, <5>3
      <4>2. CASE ref[c] = None
        <5>1. L = c /\ stack[c] = <<>>
          BY <4>2 DEF Proxy!List, Proxy!SharersAreKin
        <5>2. Proxy!ToSet(stack[L]) = {}
          BY <5>1, ListContents
        <5>3. e = c
          BY <3>2, <4>2, <5>1, <2>2 DEF Proxy!SharersAreKin
        <5> QED
          BY <4>1, <5>2, <5>3
      <4>3. CASE ref[c] # None
        BY <3>2, <4>1, <4>3, <2>2, <2>3 DEF Proxy!List, Proxy!StacksAreSeparate
      <4> QED
        BY <4>2, <4>3
    <3> QED
      BY <3>1, <3>2
  <2> QED
    BY <2>2, <2>4, <2>5, <2>6 DEF Proxy!StacksAreSeparate
<1>2. ASSUME NEW c \in Threads, Proxy!Pop(c)
      PROVE  Proxy!TypeOK' /\ Proxy!SharersAreKin' /\ Proxy!StacksAreSeparate'
  <2>1. /\ ref[c] \in Threads /\ stack[ref[c]] \in Seq(Threads) /\ stack[ref[c]] # <<>>
        /\ stack' = [stack EXCEPT ![ref[c]] = Proxy!Front(@)] /\ UNCHANGED <<ref, kin>>
    BY <1>2 DEF Proxy!Pop
  <2>2. Proxy!TypeOK'
    BY <1>2, <2>1, ListContents
  <2>3. Proxy!SharersAreKin'
    BY <2>1 DEF Proxy!SharersAreKin
  <2>4. \A l \in Threads : Proxy!ToSet(stack'[l]) \subseteq Proxy!ToSet(stack[l])
    BY <2>1, ListContents
  <2> QED
    BY <2>1, <2>2, <2>3, <2>4 DEF Proxy!StacksAreSeparate
<1>3. ASSUME NEW c \in Threads, NEW d \in Threads, Proxy!CopyContext(c, d)
      PROVE  Proxy!TypeOK' /\ Proxy!SharersAreKin' /\ Proxy!StacksAreSeparate'
  <2>1. /\ ref[c] # None /\ ref[d] = None /\ ref' = [ref EXCEPT ![d] = ref[c]] /\ UNCHANGED stack
        /\ kin \subseteq kin' /\ <<c, d>> \in kin' /\ <<d, c>> \in kin'
        /\ \A e \in Threads : <<c, e>> \in kin => <<d, e>> \in kin' /\ <<e, d>> \in kin'
    BY <1>3 DEF Proxy!CopyContext
  <2>2. Proxy!TypeOK'
    BY <1>3, <2>1
  <2>3. Proxy!SharersAreKin'
    BY <2>1 DEF Proxy!SharersAreKin
  <2>4. Proxy!StacksAreSeparate'
    BY <2>1 DEF Proxy!StacksAreSeparate
  <2> QED
    BY <2>2, <2>3, <2>4
<1> QED
  BY <1>1, <1>2, <1>3 DEF StackCall

LEMMA ProxyInit == ASSUME Proxy!ContextsAreNotNone, Proxy!Init  PROVE Proxy!IInv
BY DEF Proxy!Init, Proxy!IInv, Proxy!TypeOK, Proxy!SettersUnbind, Proxy!OneComputes, Proxy!OverrideIsPermanent,
       Proxy!LazyIsOne, Proxy!SharersAreKin, Proxy!StacksAreSeparate, Proxy!Computing, Proxy!ContextsAreNotNone

LEMMA ProxyKeeps ==
  ASSUME Proxy!ContextsAreNotNone, Proxy!IInv, [Proxy!Next]_(Proxy!vars)  PROVE Proxy!IInv'
<1> USE DEF Proxy!IInv
<1>1. CASE ProxyCall /\ UNCHANGED <<ref, stack, kin>>
  <2>1. Proxy!TypeOK' /\ ProxyParts'
    BY <1>1, ProxyStep DEF ProxyParts
  <2>2. Proxy!SharersAreKin' /\ Proxy!StacksAreSeparate'
    BY <1>1 DEF Proxy!SharersAreKin, Proxy!StacksAreSeparate
  <2> QED
    BY <2>1, <2>2 DEF ProxyParts
<1>2. CASE StackCall /\ UNCHANGED Proxy!proxyVars
  <2>1. Proxy!TypeOK' /\ Proxy!SharersAreKin' /\ Proxy!StacksAreSeparate'
    BY <1>2, StackStep DEF Proxy!proxyVars
  <2>2. ProxyParts'
    BY <1>2 DEF ProxyParts, Proxy!proxyVars, Proxy!SettersUnbind, Proxy!OneComputes, Proxy!OverrideIsPermanent,
                Proxy!LazyIsOne, Proxy!Computing
  <2> QED
    BY <2>1, <2>2 DEF ProxyParts
<1>3. CASE UNCHANGED Proxy!vars
  BY <1>3 DEF Proxy!vars, Proxy!TypeOK, Proxy!SettersUnbind, Proxy!OneComputes, Proxy!OverrideIsPermanent,
              Proxy!LazyIsOne, Proxy!SharersAreKin, Proxy!StacksAreSeparate, Proxy!Computing
<1> QED
  BY <1>1, <1>2, <1>3, CallsAreOfOne

LEMMA ProxyMeans ==
  ASSUME Proxy!IInv  PROVE Proxy!OverrideIsPermanent /\ Proxy!LazyIsOne /\ Proxy!StacksAreSeparate
BY DEF Proxy!IInv

\* Unless threads compute at once, what set_value() gave is permanent and a lazy proxy gives
\* one object to all, for any number of threads (nr/proxy/__init__.py:230-243).
THEOREM ProxyIsOneObject ==
  ASSUME Proxy!ContextsAreNotNone
  PROVE  Proxy!Spec => [](Proxy!OverrideIsPermanent /\ Proxy!LazyIsOne)
<1>1. Proxy!Init => Proxy!IInv
  BY ProxyInit
<1>2. Proxy!IInv /\ [Proxy!Next]_(Proxy!vars) => Proxy!IInv'
  BY ProxyKeeps
<1>3. Proxy!IInv => Proxy!OverrideIsPermanent /\ Proxy!LazyIsOne
  BY ProxyMeans
<1> QED
  BY <1>1, <1>2, <1>3, PTL DEF Proxy!Spec

\* A context finds what it pushed itself, or what contexts it is related to by a copy did
\* (nr/proxy/__init__.py:350).
THEOREM StacksStaySeparate ==
  ASSUME Proxy!ContextsAreNotNone
  PROVE  Proxy!Spec => []Proxy!StacksAreSeparate
<1>1. Proxy!Init => Proxy!IInv
  BY ProxyInit
<1>2. Proxy!IInv /\ [Proxy!Next]_(Proxy!vars) => Proxy!IInv'
  BY ProxyKeeps
<1>3. Proxy!IInv => Proxy!StacksAreSeparate
  BY ProxyMeans
<1> QED
  BY <1>1, <1>2, <1>3, PTL DEF Proxy!Spec

-------------------------------------------------------------------------------
(* 2. nr.appfire: the configuration of an application *)

\* The clock is ahead of every file, so an edit gives a file a time it never had; whatever is
\* loaded is the file of its time.
LEMMA AppConfigStep ==
  ASSUME App!NoneIsNoTime, App!IInv, App!Next
  PROVE  App!IInv'
<1> USE DEF App!IInv, App!FilesAreOlder, App!ReadIsFile, App!LoadedIsNotNewer, App!ChangedIsTold, App!NoneIsNoTime
<1>1. CASE App!Edit
  <2>1. /\ now' = now + 1 /\ now \in Nat /\ UNCHANGED <<config, lastLoad, stage, read>> /\ changed' = None
        /\ file' # None => file'.mtime = now
    BY <1>1 DEF App!Edit
  <2> QED
    BY <2>1
<1>2. CASE App!App
  <2>1. /\ UNCHANGED <<file, now, read>> /\ changed' = None
        /\ \/ UNCHANGED <<config, lastLoad, stage>>
           \/ config' = None /\ stage' = "read"
    BY <1>2 DEF App!App
  <2> QED
    BY <2>1
<1>3. CASE App!Reload
  BY <1>3 DEF App!Reload
<1>4. CASE App!Read
  <2>1. /\ UNCHANGED <<file, now, config, lastLoad>> /\ changed' = None
        /\ \/ stage' = "idle"
           \/ read' = file /\ file # None /\ file.conf # None
    BY <1>4 DEF App!Read
  <2> QED
    BY <2>1
<1>5. CASE App!Stat
  <2>1. UNCHANGED <<file, now, read, changed>> /\ stage = "stat" /\ stage' # "stat"
    BY <1>5 DEF App!Stat
  <2>2. \/ UNCHANGED <<config, lastLoad>>
        \/ file # None /\ lastLoad' = file.mtime /\ config' = read
    BY <1>5 DEF App!Stat
  <2> QED
    BY <2>1, <2>2
<1>6. CASE App!Changed
  BY <1>6 DEF App!Changed
<1>7. ASSUME NEW a, App!Launch(a)  PROVE  App!IInv'
  BY <1>7 DEF App!Launch
<1>8. ASSUME NEW replace, App!Install(replace)  PROVE  App!IInv'
  BY <1>8 DEF App!Install
<1> QED
  BY <1>1, <1>2, <1>3, <1>4, <1>5, <1>6, <1>7, <1>8 DEF App!Next

LEMMA AppConfigInit == ASSUME App!NoneIsNoTime, App!Init  PROVE App!IInv
BY DEF App!NoneIsNoTime, App!Init, App!IInv, App!FilesAreOlder, App!ReadIsFile, App!LoadedIsNotNewer, App!ChangedIsTold

LEMMA AppConfigKeeps == ASSUME App!NoneIsNoTime, App!IInv, [App!Next]_(App!vars)  PROVE App!IInv'
<1>1. ASSUME UNCHANGED App!vars  PROVE App!IInv'
  BY <1>1 DEF App!vars, App!IInv, App!FilesAreOlder, App!ReadIsFile, App!LoadedIsNotNewer, App!ChangedIsTold
<1> QED
  BY <1>1, AppConfigStep

LEMMA AppConfigMeans == ASSUME App!IInv  PROVE App!LoadedIsNotNewer /\ App!ChangedIsTold
BY DEF App!IInv

\* The configuration that an application has is the file of its time, and never of a later
\* time than is remembered; what changed() says stays true until an edit, for any files,
\* applications and loggers (nr.appfire loader.py:45-60).
THEOREM LoadedIsTheFile ==
  ASSUME App!NoneIsNoTime
  PROVE  App!Spec => [](App!LoadedIsNotNewer /\ App!ChangedIsTold)
<1>1. App!Init => App!IInv
  BY AppConfigInit
<1>2. App!IInv /\ [App!Next]_(App!vars) => App!IInv'
  BY AppConfigKeeps
<1>3. App!IInv => App!LoadedIsNotNewer /\ App!ChangedIsTold
  BY AppConfigMeans
<1> QED
  BY <1>1, <1>2, <1>3, PTL DEF App!Spec

-------------------------------------------------------------------------------
(* 3. nr.utils.ponyorm.AppDatabase *)

\* Each call preserves what the proofs need of applications, classes and converters.
LEMMA AppsInit == ASSUME Orm!NoneIsNotMade, Orm!Init PROVE Orm!IInv
<1> USE DEF Orm!Init, Orm!NoneIsNotMade
<1>1. Orm!TypeOK
  BY DEF Orm!TypeOK
<1>2. Orm!BasesAreEarlier /\ Orm!RegisteredOnce /\ Orm!InstalledApart
  BY DEF Orm!BasesAreEarlier, Orm!InOrder, Orm!RegisteredOnce, Orm!InstalledApart
<1>3. Orm!RefsAreKin /\ Orm!MembersAreOwn /\ Orm!InstalledAll
  BY DEF Orm!RefsAreKin, Orm!MembersAreOwn, Orm!InstalledAll
<1> QED
  BY <1>1, <1>2, <1>3 DEF Orm!IInv

LEMMA MakeKeeps ==
  ASSUME Orm!NoneIsNotMade, Orm!IInv, NEW a \in Apps, Orm!Make(a) PROVE Orm!IInv'
<1> USE DEF Orm!Make, Orm!Called, Orm!NoneIsNotMade, Orm!IInv
<1>1. Orm!TypeOK'
  BY DEF Orm!TypeOK
<1>2. Orm!RefsAreKin'
  BY DEF Orm!RefsAreKin, Orm!TypeOK
<1>3. Orm!BasesAreEarlier' /\ Orm!RegisteredOnce' /\ Orm!MembersAreOwn'
  BY DEF Orm!BasesAreEarlier, Orm!RegisteredOnce, Orm!MembersAreOwn
<1>4. Orm!InstalledApart' /\ Orm!InstalledAll'
  BY DEF Orm!InstalledApart, Orm!InstalledAll
<1> QED
  BY <1>1, <1>2, <1>3, <1>4


LEMMA DeclareKeepsOrder ==
  ASSUME NEW s \in Seq(Orm!Entity), NEW e \in Orm!Entity, NEW t, t = Append(s, e),
         \A i \in DOMAIN s : s[i].name # e.name,
         e.base # None => \E i \in DOMAIN s : s[i].name = e.base,
         Orm!InOrder(s)
  PROVE  Orm!InOrder(t) /\ t \in Seq(Orm!Entity)
<1> DEFINE k == Len(s) + 1
<1>1. /\ Len(s) \in Nat /\ DOMAIN s = 1 .. Len(s) /\ DOMAIN t = 1 .. k /\ t \in Seq(Orm!Entity)
      /\ t[k] = e /\ \A j \in 1 .. Len(s) : t[j] = s[j]
  OBVIOUS
<1> HIDE DEF k
<1>2. \A j \in 1 .. k : j = k \/ j \in 1 .. Len(s)
  BY <1>1 DEF k
<1>3. \A j \in 1 .. Len(s) : j \in 1 .. k /\ j < k
  BY <1>1 DEF k
<1>4. k \in 1 .. k
  BY <1>1 DEF k
<1> SUFFICES ASSUME NEW i \in 1 .. k
             PROVE  /\ \A j \in 1 .. k : t[j].name = t[i].name => i = j
                    /\ t[i].base # None => \E j \in 1 .. k : j < i /\ t[j].name = t[i].base
  BY <1>1 DEF Orm!InOrder
<1>5. CASE i = k
  BY <1>1, <1>2, <1>3, <1>4, <1>5
<1>6. CASE i \in 1 .. Len(s)
  <2>1. /\ \A j \in 1 .. Len(s) : s[j].name = s[i].name => i = j
        /\ s[i].base # None => \E j \in 1 .. Len(s) : j < i /\ s[j].name = s[i].base
    BY <1>1, <1>6 DEF Orm!InOrder
  <2>2. \A j \in 1 .. k : t[j].name = t[i].name => i = j
    BY <2>1, <1>1, <1>2, <1>6
  <2>3. t[i].base # None => \E j \in 1 .. k : j < i /\ t[j].name = t[i].base
    BY <2>1, <1>1, <1>3, <1>6
  <2> QED
    BY <2>2, <2>3
<1> QED
  BY <1>2, <1>5, <1>6

LEMMA DeclareKeeps ==
  ASSUME Orm!NoneIsNotMade, Orm!IInv, NEW a \in Apps, NEW n \in Names,
         NEW base \in Names \cup {None}, Orm!Declare(a, n, base)
  PROVE  Orm!IInv'
<1> USE DEF Orm!Declare, Orm!Called, Orm!NoneIsNotMade, Orm!IInv
<1> DEFINE e == [name |-> n, base |-> base]
<1>1. e \in Orm!Entity /\ e.name = n /\ e.base = base
  BY DEF Orm!Entity
<1> HIDE DEF e
<1>2. entities \in [Apps -> Seq(Orm!Entity)] /\ entities[a] \in Seq(Orm!Entity)
  BY DEF Orm!TypeOK
<1>3. entities' = [entities EXCEPT ![a] = Append(entities[a], e)]
  BY DEF e
<1>4. /\ \A i \in DOMAIN entities[a] : entities[a][i].name # e.name
      /\ e.base # None => \E i \in DOMAIN entities[a] : entities[a][i].name = e.base
  BY <1>1 DEF Orm!Declared
<1>5. Orm!InOrder(entities[a])
  BY DEF Orm!BasesAreEarlier
<1>6. Orm!InOrder(Append(entities[a], e)) /\ Append(entities[a], e) \in Seq(Orm!Entity)
  BY <1>1, <1>2, <1>4, <1>5, DeclareKeepsOrder
<1>7. Orm!TypeOK'
  BY <1>2, <1>3, <1>6 DEF Orm!TypeOK
<1>8. Orm!BasesAreEarlier'
  <2>1. \A b \in Apps : entities'[b] = IF b = a THEN Append(entities[a], e) ELSE entities[b]
    BY <1>2, <1>3
  <2> QED
    BY <1>6, <2>1, Zenon DEF Orm!BasesAreEarlier
<1>9. Orm!RefsAreKin' /\ Orm!RegisteredOnce' /\ Orm!MembersAreOwn'
  BY DEF Orm!RefsAreKin, Orm!RegisteredOnce, Orm!MembersAreOwn
<1>10. Orm!InstalledApart' /\ Orm!InstalledAll'
  BY DEF Orm!InstalledApart, Orm!InstalledAll
<1> QED
  BY <1>7, <1>8, <1>9, <1>10

LEMMA CloneKeeps ==
  ASSUME Orm!NoneIsNotMade, Orm!IInv, NEW a \in Apps, NEW b \in Apps, Orm!Clone(a, b)
  PROVE  Orm!IInv'
<1> USE DEF Orm!NoneIsNotMade, Orm!IInv
<1>1. CASE entities' = entities /\ refs' = refs /\ origin' = origin
  <2>1. UNCHANGED <<entities, refs, origin, bound, members, failed, db, tables, converters, installed>>
    BY <1>1 DEF Orm!Clone
  <2> QED
    BY <2>1 DEF Orm!TypeOK, Orm!BasesAreEarlier, Orm!RefsAreKin, Orm!MembersAreOwn,
                Orm!RegisteredOnce, Orm!InstalledApart, Orm!InstalledAll
<1>2. CASE /\ origin' = [origin EXCEPT ![b] = origin[a]]
           /\ entities' = [entities EXCEPT ![b] = entities[a]]
           /\ refs' = [refs EXCEPT ![b] = refs[a]]
  <2>1. /\ UNCHANGED <<bound, members, failed, db, tables, converters, installed>>
        /\ origin[a] # None /\ origin[b] = None
    BY DEF Orm!Clone
  <2>2. Orm!TypeOK'
    BY <1>2, <2>1 DEF Orm!TypeOK
  <2>3. Orm!BasesAreEarlier'
    <3>1. \A c \in Apps : entities'[c] = IF c = b THEN entities[a] ELSE entities[c]
      BY <1>2 DEF Orm!TypeOK
    <3> QED
      BY <3>1, Zenon DEF Orm!BasesAreEarlier
  <2>4. Orm!RefsAreKin'
    <3>1. \A c \in Apps : /\ refs'[c] = IF c = b THEN refs[a] ELSE refs[c]
                          /\ origin'[c] = IF c = b THEN origin[a] ELSE origin[c]
      BY <1>2 DEF Orm!TypeOK
    <3>2. \A c \in Apps, n \in Names : refs[c][n] # None => refs[c][n] \in Apps /\ refs[c][n] # b
      BY <2>1 DEF Orm!RefsAreKin, Orm!TypeOK
    <3> QED
      BY <3>1, <3>2, <2>1 DEF Orm!RefsAreKin
  <2>5. Orm!MembersAreOwn'
    <3>1. members[b] = {}
      BY <2>1 DEF Orm!RefsAreKin, Orm!MembersAreOwn, Orm!TypeOK
    <3> QED
      BY <1>2, <2>1, <3>1 DEF Orm!MembersAreOwn, Orm!TypeOK
  <2>6. Orm!RegisteredOnce' /\ Orm!InstalledApart' /\ Orm!InstalledAll'
    BY <2>1 DEF Orm!RegisteredOnce, Orm!InstalledApart, Orm!InstalledAll
  <2> QED
    BY <2>2, <2>3, <2>4, <2>5, <2>6
<1> QED
  BY <1>1, <1>2, Zenon DEF Orm!Clone

LEMMA Concatenated ==
  ASSUME NEW S, NEW s \in Seq(S), NEW u \in Seq(S), NEW t, t = s \o u
  PROVE  /\ Len(s) \in Nat /\ Len(u) \in Nat /\ DOMAIN t = 1 .. Len(s) + Len(u)
         /\ DOMAIN s = 1 .. Len(s)
         /\ \A i \in 1 .. Len(s) : t[i] = s[i]
         /\ \A i \in 1 .. Len(u) : t[Len(s) + i] = u[i]
         /\ \A i \in DOMAIN t : i \in 1 .. Len(s) \/ i - Len(s) \in 1 .. Len(u)
<1>1. Len(s) \in Nat /\ Len(u) \in Nat /\ DOMAIN s = 1 .. Len(s)
  OBVIOUS
<1>2. DOMAIN t = 1 .. Len(s) + Len(u)
  OBVIOUS
<1>3. \A i \in 1 .. Len(s) : t[i] = s[i]
  OBVIOUS
<1>4. \A i \in 1 .. Len(u) : t[Len(s) + i] = u[i]
  OBVIOUS
<1>5. \A i \in DOMAIN t : i \in 1 .. Len(s) \/ i - Len(s) \in 1 .. Len(u)
  BY <1>1, <1>2
<1> QED
  BY <1>1, <1>2, <1>3, <1>4, <1>5

\* bind_to() gives what it binds to nobody who had it before.
LEMMA BindKeeps ==
  ASSUME Orm!NoneIsNotMade, Orm!IInv, NEW a \in Apps, NEW d \in Dbs, Orm!BindTo(a, d)
  PROVE  Orm!IInv'
<1> USE DEF Orm!NoneIsNotMade, Orm!IInv
<1> DEFINE new == [i \in DOMAIN converters[a] |-> <<a, converters[a][i]>>]
           part == Orm!BoundPart(a, d)
<1>1. CASE bound[a] # None
  <2>1. UNCHANGED <<entities, refs, origin, bound, members, failed, db, tables, converters, installed>>
    BY <1>1 DEF Orm!BindTo
  <2> QED
    BY <2>1 DEF Orm!TypeOK, Orm!BasesAreEarlier, Orm!RefsAreKin, Orm!MembersAreOwn,
                Orm!RegisteredOnce, Orm!InstalledApart, Orm!InstalledAll
<1>2. CASE bound[a] = None
  <2>1. /\ origin[a] # None /\ UNCHANGED <<entities, origin, converters>>
        /\ bound' = [bound EXCEPT ![a] = d]
        /\ members' = [members EXCEPT ![a] = part]
        /\ db' = [db EXCEPT ![d] = [n \in Names |-> IF n \in part THEN a ELSE db[d][n]]]
        /\ tables' = [tables EXCEPT ![d] = tables[d] \cup {<<origin[a], n>> : n \in part}]
        /\ refs' = [refs EXCEPT ![a] = [n \in Names |-> IF n \in part THEN a ELSE refs[a][n]]]
        /\ failed' = [failed EXCEPT ![a] = Orm!Clash(a, d) # {}]
        /\ installed' = IF Orm!Clash(a, d) # {} THEN installed
                        ELSE [installed EXCEPT ![d] = installed[d] \o new]
    BY <1>2 DEF Orm!BindTo
  <2>2. part \subseteq Names /\ \A n \in part : db[d][n] = None
    <3>1. entities[a] \in Seq(Orm!Entity)
      BY DEF Orm!TypeOK
    <3>2. \A i \in DOMAIN entities[a] : i \in Nat /\ entities[a][i].name \in Names
      <4>1. \A i \in DOMAIN entities[a] : i \in Nat /\ entities[a][i] \in Orm!Entity
        BY <3>1
      <4> QED
        BY <4>1 DEF Orm!Entity
    <3>3. ASSUME NEW n \in part  PROVE  n \in Names /\ db[d][n] = None
      <4>1. PICK i \in DOMAIN entities[a] : /\ n = entities[a][i].name
                                            /\ \A j \in Orm!Clash(a, d) : i < j
        BY DEF Orm!BoundPart
      <4>2. i \notin Orm!Clash(a, d)
        BY <3>2, <4>1
      <4> QED
        BY <3>2, <4>1, <4>2 DEF Orm!Clash
    <3> QED
      BY <3>3
  <2> HIDE DEF part
  <2>3. converters[a] \in Seq(Converters) /\ installed[d] \in Seq(Apps \X Converters)
    BY DEF Orm!TypeOK
  <2>4. /\ new \in Seq(Apps \X Converters) /\ Len(new) = Len(converters[a]) /\ DOMAIN new = 1 .. Len(new)
        /\ \A i \in 1 .. Len(new) : new[i] = <<a, converters[a][i]>>
    BY <2>3
  <2> HIDE DEF new
  <2>5. Orm!TypeOK'
    BY <2>1, <2>2, <2>3, <2>4 DEF Orm!TypeOK
  <2>6. Orm!BasesAreEarlier' /\ Orm!RegisteredOnce'
    BY <2>1 DEF Orm!BasesAreEarlier, Orm!RegisteredOnce
  <2>7. Orm!RefsAreKin'
    BY <1>2, <2>1, <2>2 DEF Orm!RefsAreKin, Orm!TypeOK
  <2>8. Orm!MembersAreOwn'
    BY <2>1, <2>2 DEF Orm!MembersAreOwn, Orm!TypeOK
  <2>9. bound'[a] = d /\ \A b \in Apps : b # a => bound'[b] = bound[b] /\ failed'[b] = failed[b]
    BY <2>1 DEF Orm!TypeOK
  <2>10. \A e \in Dbs : \A i \in DOMAIN installed[e] :
           /\ installed[e][i] \in Apps \X Converters /\ installed[e][i][1] # a
           /\ bound'[installed[e][i][1]] = e
           /\ installed[e][i][2] \in Orm!ToSet(converters'[installed[e][i][1]])
    <3>1. \A e \in Dbs : \A i \in DOMAIN installed[e] : installed[e][i] \in Apps \X Converters
      BY DEF Orm!TypeOK
    <3> QED
      BY <1>2, <2>1, <2>9, <3>1 DEF Orm!InstalledApart
  <2>11. CASE Orm!Clash(a, d) # {}
    <3>1. installed' = installed /\ failed'[a]
      BY <2>1, <2>11 DEF Orm!TypeOK
    <3>2. Orm!InstalledApart'
      BY <2>10, <3>1 DEF Orm!InstalledApart
    <3>3. Orm!InstalledAll'
      BY <2>1, <2>9, <3>1 DEF Orm!InstalledAll
    <3> QED
      BY <2>5, <2>6, <2>7, <2>8, <3>2, <3>3
  <2>12. CASE Orm!Clash(a, d) = {}
    <3> DEFINE s == installed[d]
               t == installed'[d]
    <3>1. t = s \o new /\ \A e \in Dbs : e # d => installed'[e] = installed[e]
      BY <2>1, <2>12 DEF Orm!TypeOK
    <3>2. /\ Len(s) \in Nat /\ Len(new) \in Nat /\ DOMAIN t = 1 .. Len(s) + Len(new)
          /\ DOMAIN s = 1 .. Len(s)
          /\ \A i \in 1 .. Len(s) : t[i] = s[i]
          /\ \A i \in 1 .. Len(new) : t[Len(s) + i] = new[i]
          /\ \A i \in DOMAIN t : i \in 1 .. Len(s) \/ i - Len(s) \in 1 .. Len(new)
      <4>1. s \in Seq(Apps \X Converters) /\ new \in Seq(Apps \X Converters) /\ t = s \o new
        BY <2>3, <2>4, <3>1
      <4> HIDE DEF s, t
      <4> QED
        BY <4>1, Concatenated
    <3>3. \A i \in 1 .. Len(new) : /\ new[i] = <<a, converters[a][i]>> /\ new[i][1] = a
                                    /\ new[i][2] = converters[a][i] /\ i \in DOMAIN converters[a]
      BY <2>3, <2>4
    <3>4. \A i \in DOMAIN t : i \notin 1 .. Len(s) =>
            /\ i - Len(s) \in DOMAIN converters[a]
            /\ t[i][1] = a /\ t[i][2] = converters[a][i - Len(s)]
      <4>1. \A i \in DOMAIN t : i = Len(s) + (i - Len(s))
        BY <3>2
      <4> QED
        <5> HIDE DEF s, t
        <5> QED
          BY <3>2, <3>3, <4>1
    <3> HIDE DEF s, t
    <3>5. \A i \in 1 .. Len(s) : /\ t[i] = s[i] /\ t[i][1] # a /\ bound'[t[i][1]] = d
                                 /\ t[i][2] \in Orm!ToSet(converters'[t[i][1]])
                                 /\ \A j \in 1 .. Len(s) : t[i] = t[j] => i = j
      BY <2>10, <3>2 DEF s, Orm!InstalledApart
    <3>6. Orm!InstalledApart'
      <4>1. ASSUME NEW i \in DOMAIN t
            PROVE  /\ \A j \in DOMAIN t : t[i] = t[j] => i = j
                   /\ bound'[t[i][1]] = d
                   /\ t[i][2] \in Orm!ToSet(converters'[t[i][1]])
        <5>1. CASE i \in 1 .. Len(s)
          BY <5>1, <3>4, <3>5
        <5>2. CASE i \notin 1 .. Len(s)
          <6>1. t[i][1] = a /\ t[i][2] = converters[a][i - Len(s)] /\ i - Len(s) \in DOMAIN converters[a]
            BY <5>2, <3>4
          <6>2. t[i][2] \in Orm!ToSet(converters'[a])
            BY <6>1, <2>1 DEF Orm!ToSet
          <6>3. ASSUME NEW j \in DOMAIN t, t[i] = t[j]  PROVE  i = j
            <7>1. j \notin 1 .. Len(s)
              BY <6>1, <6>3, <3>5
            <7>2. i - Len(s) = j - Len(s)
              BY <6>1, <6>3, <7>1, <3>4 DEF Orm!RegisteredOnce
            <7> QED
              BY <7>2, <3>2
          <6> QED
            BY <6>1, <6>2, <6>3, <2>9
        <5> QED
          BY <5>1, <5>2
      <4>2. ASSUME NEW e \in Dbs, e # d, NEW i \in DOMAIN installed'[e]
            PROVE  /\ \A j \in DOMAIN installed'[e] : installed'[e][i] = installed'[e][j] => i = j
                   /\ bound'[installed'[e][i][1]] = e
                   /\ installed'[e][i][2] \in Orm!ToSet(converters'[installed'[e][i][1]])
        BY <4>2, <3>1, <2>10 DEF Orm!InstalledApart
      <4> QED
        BY <4>1, <4>2 DEF Orm!InstalledApart, t
    <3>7. Orm!InstalledAll'
      <4>1. ASSUME NEW c \in Orm!ToSet(converters[a])  PROVE  <<a, c>> \in Orm!ToSet(t)
        <5>1. PICK i \in DOMAIN converters[a] : c = converters[a][i]
          BY DEF Orm!ToSet
        <5>2. i \in 1 .. Len(new)
          BY <2>3, <2>4
        <5>3. t[Len(s) + i] = <<a, c>> /\ Len(s) + i \in DOMAIN t
          BY <3>2, <3>3, <5>1, <5>2
        <5> QED
          BY <5>3 DEF Orm!ToSet
      <4>2. ASSUME NEW e \in Dbs  PROVE Orm!ToSet(installed[e]) \subseteq Orm!ToSet(installed'[e])
        <5>1. CASE e = d
          <6>1. \A i \in DOMAIN s : i \in DOMAIN t /\ t[i] = s[i]
            BY <3>2
          <6> QED
            BY <5>1, <6>1 DEF Orm!ToSet, s, t
        <5>2. CASE e # d
          BY <5>2, <3>1
        <5> QED
          BY <5>1, <5>2
      <4> QED
        BY <4>1, <4>2, <2>1, <2>9 DEF Orm!InstalledAll, Orm!TypeOK, t
    <3> QED
      BY <2>5, <2>6, <2>7, <2>8, <3>6, <3>7
  <2> QED
    BY <2>11, <2>12
<1> QED
  BY <1>1, <1>2

LEMMA RegisterKeeps ==
  ASSUME Orm!NoneIsNotMade, Orm!IInv, NEW a \in Apps, NEW c \in Converters,
         Orm!RegisterConverter(a, c)
  PROVE  Orm!IInv'
<1> USE DEF Orm!NoneIsNotMade, Orm!IInv
<1> DEFINE s == converters[a]
           t == converters'[a]
<1>1. /\ c \notin Orm!ToSet(converters[a])
      /\ converters' = [converters EXCEPT ![a] = Append(converters[a], c)]
      /\ installed' = IF bound[a] = None THEN installed
                      ELSE [installed EXCEPT ![bound[a]] = Append(installed[bound[a]], <<a, c>>)]
      /\ UNCHANGED <<entities, refs, origin, bound, members, failed, db, tables>>
  BY DEF Orm!RegisterConverter
<1>2. s \in Seq(Converters) /\ t = Append(s, c) /\ \A b \in Apps : b # a => converters'[b] = converters[b]
  BY <1>1 DEF Orm!TypeOK
<1>3. /\ Len(s) \in Nat /\ DOMAIN s = 1 .. Len(s) /\ DOMAIN t = 1 .. Len(s) + 1 /\ t[Len(s) + 1] = c
      /\ \A i \in 1 .. Len(s) : t[i] = s[i]
      /\ \A i \in DOMAIN t : i \in DOMAIN s \/ i = Len(s) + 1
  <2> HIDE DEF s, t
  <2> QED
    BY <1>2
<1>4. Orm!ToSet(t) = Orm!ToSet(s) \cup {c}
  <2> HIDE DEF s, t
  <2> QED
    BY <1>3 DEF Orm!ToSet
<1>5. Orm!TypeOK'
  BY <1>1 DEF Orm!TypeOK
<1>6. Orm!BasesAreEarlier' /\ Orm!RefsAreKin' /\ Orm!MembersAreOwn'
  BY <1>1 DEF Orm!BasesAreEarlier, Orm!RefsAreKin, Orm!MembersAreOwn
<1>7. Orm!RegisteredOnce'
  <2>1. \A i, j \in DOMAIN t : t[i] = t[j] => i = j
    <3>1. \A i, j \in DOMAIN s : s[i] = s[j] => i = j
      BY DEF Orm!RegisteredOnce
    <3>2. \A i \in DOMAIN s : s[i] # c
      BY <1>1 DEF Orm!ToSet
    <3> HIDE DEF s, t
    <3> QED
      BY <1>3, <3>1, <3>2
  <2> QED
    BY <1>2, <2>1 DEF Orm!RegisteredOnce
<1>8. \A d \in Dbs : \A i \in DOMAIN installed[d] :
        /\ bound'[installed[d][i][1]] = d
        /\ installed[d][i][2] \in Orm!ToSet(converters'[installed[d][i][1]])
        /\ installed[d][i] # <<a, c>>
  <2>1. \A d \in Dbs : \A i \in DOMAIN installed[d] : installed[d][i] \in Apps \X Converters
    BY DEF Orm!TypeOK
  <2> QED
    BY <1>1, <1>2, <1>4, <2>1 DEF Orm!InstalledApart
<1>9. CASE bound[a] = None
  <2>1. Orm!InstalledApart'
    BY <1>1, <1>8, <1>9 DEF Orm!InstalledApart
  <2>2. Orm!InstalledAll'
    BY <1>1, <1>2, <1>9 DEF Orm!InstalledAll
  <2> QED
    BY <1>5, <1>6, <1>7, <2>1, <2>2
<1>10. CASE bound[a] # None
  <2> DEFINE d == bound[a]
             u == installed[d]
             v == installed'[d]
  <2>1. /\ d \in Dbs /\ u \in Seq(Apps \X Converters) /\ v = Append(u, <<a, c>>)
        /\ \A e \in Dbs : e # d => installed'[e] = installed[e]
    BY <1>1, <1>10 DEF Orm!TypeOK
  <2>2. \A i \in DOMAIN u : /\ bound'[u[i][1]] = d /\ u[i] # <<a, c>>
                            /\ u[i][2] \in Orm!ToSet(converters'[u[i][1]])
                            /\ \A j \in DOMAIN u : u[i] = u[j] => i = j
    BY <2>1, <1>8 DEF Orm!InstalledApart
  <2>3. /\ Len(u) \in Nat /\ DOMAIN u = 1 .. Len(u) /\ DOMAIN v = 1 .. Len(u) + 1
        /\ v[Len(u) + 1] = <<a, c>>
        /\ \A i \in 1 .. Len(u) : v[i] = u[i]
        /\ \A i \in DOMAIN v : i \in DOMAIN u \/ i = Len(u) + 1
    <3> HIDE DEF u, v
    <3> QED
      BY <2>1
  <2>4. bound'[a] = d /\ c \in Orm!ToSet(converters'[a])
    BY <1>1, <1>4
  <2>5. Orm!ToSet(v) = Orm!ToSet(u) \cup {<<a, c>>}
    <3> HIDE DEF u, v
    <3>1. Len(u) + 1 \in DOMAIN v /\ \A i \in DOMAIN u : i \in DOMAIN v /\ u[i] = v[i]
      BY <2>3
    <3>2. \A i \in DOMAIN v : v[i] \in Orm!ToSet(u) \cup {<<a, c>>}
      BY <2>3 DEF Orm!ToSet
    <3> QED
      BY <2>3, <3>1, <3>2, Zenon DEF Orm!ToSet
  <2>6. Orm!InstalledApart'
    <3>1. ASSUME NEW i \in DOMAIN v
          PROVE  /\ \A j \in DOMAIN v : v[i] = v[j] => i = j
                 /\ bound'[v[i][1]] = d
                 /\ v[i][2] \in Orm!ToSet(converters'[v[i][1]])
      <4> HIDE DEF u, v, d
      <4>1. CASE i = Len(u) + 1
        BY <4>1, <2>2, <2>3, <2>4
      <4>2. CASE i \in DOMAIN u
        BY <4>2, <2>2, <2>3
      <4> QED
        BY <4>1, <4>2, <2>3
    <3>2. ASSUME NEW e \in Dbs, e # d, NEW i \in DOMAIN installed'[e]
          PROVE  /\ \A j \in DOMAIN installed'[e] : installed'[e][i] = installed'[e][j] => i = j
                 /\ bound'[installed'[e][i][1]] = e
                 /\ installed'[e][i][2] \in Orm!ToSet(converters'[installed'[e][i][1]])
      BY <3>2, <2>1, <1>8 DEF Orm!InstalledApart
    <3> QED
      BY <3>1, <3>2 DEF Orm!InstalledApart, v
  <2>7. Orm!InstalledAll'
    <3>1. ASSUME NEW b \in Apps, bound[b] # None, ~failed[b], NEW x \in Orm!ToSet(converters'[b])
          PROVE  <<b, x>> \in Orm!ToSet(installed'[bound[b]])
      <4>1. bound[b] \in Dbs
        BY <3>1 DEF Orm!TypeOK
      <4>2. Orm!ToSet(installed[bound[b]]) \subseteq Orm!ToSet(installed'[bound[b]])
        BY <4>1, <2>1, <2>5
      <4>3. CASE x \in Orm!ToSet(converters[b])
        BY <3>1, <4>2, <4>3 DEF Orm!InstalledAll
      <4>4. CASE x \notin Orm!ToSet(converters[b])
        BY <3>1, <4>4, <1>2, <1>4, <2>5
      <4> QED
        BY <4>3, <4>4
    <3> QED
      BY <3>1, <1>1 DEF Orm!InstalledAll
  <2> QED
    BY <1>5, <1>6, <1>7, <2>6, <2>7
<1> QED
  BY <1>9, <1>10

\* The other calls change tables at most.
LEMMA TablesKeep ==
  ASSUME Orm!IInv, tables' \in [Dbs -> SUBSET (Apps \X Names)],
         UNCHANGED <<entities, refs, origin, bound, members, failed, db, converters, installed>>
  PROVE  Orm!IInv'
BY DEF Orm!IInv, Orm!TypeOK, Orm!BasesAreEarlier, Orm!RefsAreKin, Orm!MembersAreOwn,
       Orm!RegisteredOnce, Orm!InstalledApart, Orm!InstalledAll

LEMMA AppsStep ==
  ASSUME Orm!NoneIsNotMade, Orm!IInv, [Orm!Next]_(Orm!vars)  PROVE  Orm!IInv'
<1>1. ASSUME NEW a \in Apps, Orm!Make(a)  PROVE  Orm!IInv'
  BY <1>1, MakeKeeps
<1>2. ASSUME NEW a \in Apps, NEW n \in Names, NEW base \in Names \cup {None}, Orm!Declare(a, n, base)
      PROVE  Orm!IInv'
  BY <1>2, DeclareKeeps
<1>3. ASSUME NEW a \in Apps, NEW n, Orm!Instantiate(a, n)  PROVE  Orm!IInv'
  <2>1. tables' = tables /\ tables \in [Dbs -> SUBSET (Apps \X Names)]
    BY <1>3 DEF Orm!Instantiate, Orm!IInv, Orm!TypeOK
  <2> QED
    BY <1>3, <2>1, TablesKeep DEF Orm!Instantiate
<1>4. ASSUME NEW a \in Apps, NEW n, NEW byName, Orm!DropTable(a, n, byName)  PROVE  Orm!IInv'
  <2>1. tables' \in [Dbs -> SUBSET (Apps \X Names)]
    <3>1. tables \in [Dbs -> SUBSET (Apps \X Names)]
      BY DEF Orm!IInv, Orm!TypeOK
    <3>2. tables' = tables \/ tables' = [tables EXCEPT ![bound[a]] = tables[bound[a]] \ {<<origin[a], n>>}]
      BY <1>4 DEF Orm!DropTable
    <3>3. bound[a] \in Dbs
      BY <1>4 DEF Orm!DropTable, Orm!IInv, Orm!TypeOK
    <3> QED
      BY <3>1, <3>2, <3>3
  <2> QED
    BY <1>4, <2>1, TablesKeep DEF Orm!DropTable
<1>5. ASSUME NEW a \in Apps, Orm!DropAllTables(a)  PROVE  Orm!IInv'
  <2>1. tables' \in [Dbs -> SUBSET (Apps \X Names)]
    BY <1>5 DEF Orm!DropAllTables, Orm!IInv, Orm!TypeOK
  <2> QED
    BY <1>5, <2>1, TablesKeep DEF Orm!DropAllTables
<1>6. ASSUME NEW a \in Apps, NEW b \in Apps, Orm!Clone(a, b)  PROVE  Orm!IInv'
  BY <1>6, CloneKeeps
<1>7. ASSUME NEW a \in Apps, NEW d \in Dbs, Orm!BindTo(a, d)  PROVE  Orm!IInv'
  BY <1>7, BindKeeps
<1>8. ASSUME NEW a \in Apps, NEW c \in Converters, Orm!RegisterConverter(a, c)  PROVE  Orm!IInv'
  BY <1>8, RegisterKeeps
<1>9. CASE UNCHANGED Orm!vars
  <2>1. tables' \in [Dbs -> SUBSET (Apps \X Names)]
    BY <1>9 DEF Orm!vars, Orm!IInv, Orm!TypeOK
  <2> QED
    BY <1>9, <2>1, TablesKeep DEF Orm!vars
<1> QED
  BY <1>1, <1>2, <1>3, <1>4, <1>5, <1>6, <1>7, <1>8, <1>9, Zenon DEF Orm!Next

LEMMA SameCardinality == \A S : Orm!Cardinality(S) = Cardinality(S)
BY DEF Orm!Cardinality, Cardinality

LEMMA InvMeansInstalledOnce == Orm!NoneIsNotMade => (Orm!IInv => Orm!InstalledOnce)
<1> SUFFICES ASSUME Orm!NoneIsNotMade, Orm!IInv, NEW a \in Apps, NEW d \in Dbs, NEW c \in Converters
             PROVE  LET times == Orm!Cardinality({i \in DOMAIN installed[d] : installed[d][i] = <<a, c>>}) IN
                    /\ times <= 1
                    /\ times = 1 => bound[a] = d /\ c \in Orm!ToSet(converters[a])
                    /\ bound[a] = d /\ ~failed[a] /\ c \in Orm!ToSet(converters[a]) => times = 1
  BY Zenon DEF Orm!InstalledOnce
<1> DEFINE at == {i \in DOMAIN installed[d] : installed[d][i] = <<a, c>>}
<1>1. \A i, j \in at : i = j
  BY DEF Orm!IInv, Orm!InstalledApart
<1>2. CASE at = {}
  <2>1. Orm!Cardinality(at) = 0
    BY <1>2, FS_EmptySet, SameCardinality
  <2>2. ~ (bound[a] = d /\ ~failed[a] /\ c \in Orm!ToSet(converters[a]))
    BY <1>2 DEF Orm!IInv, Orm!InstalledAll, Orm!ToSet, Orm!NoneIsNotMade
  <2> QED
    BY <2>1, <2>2
<1>3. CASE at # {}
  <2>1. PICK i \in at : at = {i}
    BY <1>1, <1>3
  <2>2. Orm!Cardinality(at) = 1
    BY <2>1, FS_Singleton, SameCardinality
  <2>3. bound[a] = d /\ c \in Orm!ToSet(converters[a])
    BY <2>1 DEF Orm!IInv, Orm!InstalledApart
  <2> QED
    BY <2>2, <2>3
<1> QED
  BY <1>2, <1>3

\* The bound entity of a class is found along its bases, since these come earlier.
Follows(a, f, i) ==
  LET e == entities[a][i] IN
  f[e.name] = IF refs[a][e.name] # None THEN <<refs[a][e.name], e.name>>
              ELSE IF e.base = None THEN None ELSE f[e.base]
Upto(a, k) == \E f : DOMAIN f = Orm!Declared(a) /\ \A i \in 1 .. k : Follows(a, f, i)

LEMMA OneMore ==
  ASSUME Orm!IInv, NEW a \in Apps, NEW k \in 1 .. Len(entities[a]), Upto(a, k - 1)  PROVE  Upto(a, k)
<1> DEFINE s == entities[a]
           n == s[k].name
<1>1. /\ s \in Seq(Orm!Entity) /\ Orm!InOrder(s) /\ Len(s) \in Nat /\ DOMAIN s = 1 .. Len(s)
  BY DEF Orm!IInv, Orm!TypeOK, Orm!BasesAreEarlier
<1>2. PICK f : DOMAIN f = Orm!Declared(a) /\ \A i \in 1 .. k - 1 : Follows(a, f, i)
  BY DEF Upto
<1> DEFINE v == IF refs[a][n] # None THEN <<refs[a][n], n>>
                ELSE IF s[k].base = None THEN None ELSE f[s[k].base]
           g == [m \in Orm!Declared(a) |-> IF m = n THEN v ELSE f[m]]
<1>3. \A i \in 1 .. Len(s) : s[i].name \in Orm!Declared(a)
  BY <1>1 DEF Orm!Declared
<1>4. ASSUME NEW i \in 1 .. k, s[i].base # None
      PROVE  s[i].base \in Orm!Declared(a) /\ s[i].base # n
  <2>1. i \in DOMAIN s /\ k \in DOMAIN s
    BY <1>1
  <2>2. PICK j \in DOMAIN s : j < i /\ s[j].name = s[i].base
    BY <1>1, <1>4, <2>1 DEF Orm!InOrder
  <2>3. j # k
    BY <1>1, <2>1, <2>2
  <2> QED
    BY <1>1, <1>3, <2>1, <2>2, <2>3 DEF Orm!InOrder
<1>5. \A i \in 1 .. k - 1 : i \in 1 .. k /\ i \in 1 .. Len(s) /\ s[i].name # n
  BY <1>1 DEF Orm!InOrder
<1>6. k \in 1 .. k /\ k \in 1 .. Len(s) /\ \A i \in 1 .. k : i = k \/ i \in 1 .. k - 1
  BY <1>1
<1> HIDE DEF n, v, s
<1>7. DOMAIN g = Orm!Declared(a) /\ \A m \in Orm!Declared(a) : m # n => g[m] = f[m]
  OBVIOUS
<1>8. \A i \in 1 .. k - 1 : Follows(a, g, i)
  <2> SUFFICES ASSUME NEW i \in 1 .. k - 1  PROVE  Follows(a, g, i)
    OBVIOUS
  <2>1. Follows(a, f, i) /\ g[s[i].name] = f[s[i].name]
    BY <1>2, <1>3, <1>5, <1>7
  <2>2. s[i].base # None => g[s[i].base] = f[s[i].base]
    BY <1>4, <1>5, <1>7
  <2> HIDE DEF g
  <2> QED
    BY <2>1, <2>2 DEF Follows, s
<1>9. Follows(a, g, k)
  <2>1. n \in Orm!Declared(a) /\ g[n] = v
    BY <1>3, <1>6 DEF n
  <2>2. s[k].base # None => g[s[k].base] = f[s[k].base]
    BY <1>4, <1>6, <1>7
  <2> HIDE DEF g
  <2> QED
    BY <2>1, <2>2 DEF Follows, s, v, n
<1> HIDE DEF g
<1> QED
  BY <1>6, <1>7, <1>8, <1>9 DEF Upto

LEMMA AllOfThem ==
  ASSUME Orm!IInv, NEW a \in Apps  PROVE  Upto(a, Len(entities[a]))
<1> DEFINE L == Len(entities[a])
           none == [m \in Orm!Declared(a) |-> None]
           Bad == {k \in 0 .. L : ~ Upto(a, k)}
<1>1. L \in Nat
  BY DEF Orm!IInv, Orm!TypeOK
<1>2. Upto(a, 0)
  <2>1. DOMAIN none = Orm!Declared(a) /\ \A i \in 1 .. 0 : Follows(a, none, i)
    OBVIOUS
  <2> QED
    BY <2>1 DEF Upto
<1> SUFFICES ASSUME Bad # {}  PROVE  FALSE
  BY <1>1
<1> HIDE DEF L
<1>3. Bad \in SUBSET Nat
  BY <1>1
<1>4. PICK k \in Bad : \A j \in Bad : k <= j
  BY <1>3, LeastNumber
<1>5. k # 0 /\ k \in 0 .. L
  BY <1>2, <1>4
<1>6. k - 1 \in 0 .. L /\ ~ (k <= k - 1) /\ k \in 1 .. L
  BY <1>1, <1>5
<1>7. Upto(a, k - 1)
  BY <1>4, <1>6
<1> QED
  BY <1>4, <1>6, <1>7, OneMore DEF L

LEMMA OfIsTheEntity ==
  ASSUME Orm!IInv, NEW a \in Apps, NEW i \in DOMAIN entities[a]
  PROVE  Orm!Of(a, entities[a][i].name) = entities[a][i]
<1> DEFINE s == entities[a]
<1>1. s[i] \in Orm!ToSet(s) /\ s[i].name = s[i].name
  BY DEF Orm!ToSet
<1>2. \A e \in Orm!ToSet(s) : e.name = s[i].name => e = s[i]
  BY DEF Orm!ToSet, Orm!IInv, Orm!BasesAreEarlier, Orm!InOrder
<1> QED
  BY <1>1, <1>2 DEF Orm!Of

\* The function of Orm!Resolved.
Found(a) ==
  CHOOSE r : r = [m \in Orm!Declared(a) |->
    IF refs[a][m] # None THEN <<refs[a][m], m>>
    ELSE IF Orm!Of(a, m).base = None THEN None ELSE r[Orm!Of(a, m).base]]

LEMMA ResolvedIsFound ==
  ASSUME Orm!IInv, NEW a \in Apps
  PROVE  /\ \A n : Orm!Resolved(a, n) = Found(a)[n]
         /\ \A i \in 1 .. Len(entities[a]) : Follows(a, Found(a), i)
<1> DEFINE s == entities[a]
           Goes(r) == r = [m \in Orm!Declared(a) |->
                        IF refs[a][m] # None THEN <<refs[a][m], m>>
                        ELSE IF Orm!Of(a, m).base = None THEN None ELSE r[Orm!Of(a, m).base]]
<1>0. DOMAIN s = 1 .. Len(s)
  BY DEF Orm!IInv, Orm!TypeOK
<1>1. \A n : Orm!Resolved(a, n) = Found(a)[n]
  BY DEF Orm!Resolved, Found
<1>2. PICK f : DOMAIN f = Orm!Declared(a) /\ \A i \in 1 .. Len(s) : Follows(a, f, i)
  BY AllOfThem DEF Upto
<1>3. Goes([m \in Orm!Declared(a) |-> f[m]])
  <2> DEFINE g == [m \in Orm!Declared(a) |-> f[m]]
  <2> SUFFICES ASSUME NEW m \in Orm!Declared(a)
               PROVE  g[m] = IF refs[a][m] # None THEN <<refs[a][m], m>>
                             ELSE IF Orm!Of(a, m).base = None THEN None ELSE g[Orm!Of(a, m).base]
    OBVIOUS
  <2>1. PICK i \in 1 .. Len(s) : m = s[i].name
    BY <1>0 DEF Orm!Declared
  <2>2. Orm!Of(a, m) = s[i] /\ Follows(a, f, i) /\ g[m] = f[m]
    BY <1>0, <1>2, <2>1, OfIsTheEntity
  <2>3. s[i].base # None => g[s[i].base] = f[s[i].base]
    <3>1. s[i].base # None => s[i].base \in Orm!Declared(a)
      BY <1>0, <2>1 DEF Orm!IInv, Orm!BasesAreEarlier, Orm!InOrder, Orm!Declared
    <3> HIDE DEF s
    <3> QED
      BY <3>1
  <2> HIDE DEF g, s
  <2> QED
    BY <2>1, <2>2, <2>3 DEF Follows, s
<1>4. Goes(Found(a))
  <2>1. \E r : Goes(r)
    BY <1>3
  <2>2. Found(a) = CHOOSE r : Goes(r)
    BY DEF Found
  <2> HIDE DEF Goes
  <2> QED
    BY <2>1, <2>2
<1>5. ASSUME NEW i \in 1 .. Len(s)  PROVE  Follows(a, Found(a), i)
  <2>1. s[i].name \in Orm!Declared(a) /\ Orm!Of(a, s[i].name) = s[i]
    BY <1>0, OfIsTheEntity DEF Orm!Declared
  <2> QED
    BY <1>4, <2>1 DEF Follows
<1> QED
  BY <1>1, <1>5

\* What is found is the bound entity of some class.
LEMMA FoundIsARef ==
  ASSUME Orm!IInv, NEW a \in Apps, NEW i \in 1 .. Len(entities[a])
  PROVE  LET found == Found(a)[entities[a][i].name] IN
         \/ found = None
         \/ \E m \in Names : refs[a][m] # None /\ found = <<refs[a][m], m>>
<1> DEFINE s == entities[a]
           Right(k) == LET found == Found(a)[s[k].name] IN
                         \/ found = None
                         \/ \E m \in Names : refs[a][m] # None /\ found = <<refs[a][m], m>>
           Bad == {k \in 1 .. Len(s) : ~ Right(k)}
<1>1. /\ s \in Seq(Orm!Entity) /\ Orm!InOrder(s) /\ DOMAIN s = 1 .. Len(s)
      /\ \A k \in 1 .. Len(s) : s[k] \in Orm!Entity
  BY DEF Orm!IInv, Orm!TypeOK, Orm!BasesAreEarlier
<1>2. \A k \in 1 .. Len(s) : s[k].name \in Names
  BY <1>1 DEF Orm!Entity
<1> SUFFICES ASSUME Bad # {}  PROVE  FALSE
  OBVIOUS
<1>3. Bad \in SUBSET Nat
  OBVIOUS
<1>4. PICK k \in Bad : \A j \in Bad : k <= j
  BY <1>3, LeastNumber
<1>5. k \in 1 .. Len(s) /\ ~ Right(k)
  BY <1>4
<1>6. Follows(a, Found(a), k)
  BY <1>5, ResolvedIsFound
<1>7. refs[a][s[k].name] = None /\ s[k].base # None /\ Found(a)[s[k].name] = Found(a)[s[k].base]
  BY <1>2, <1>5, <1>6 DEF Follows
<1>8. PICK j \in 1 .. Len(s) : j < k /\ s[j].name = s[k].base
  BY <1>1, <1>5, <1>7 DEF Orm!InOrder
<1>9. Right(j)
  <2>1. ~ (k <= j)
    BY <1>1, <1>5, <1>8
  <2> HIDE DEF Right
  <2> QED
    BY <1>4, <1>8, <2>1
<1> QED
  BY <1>5, <1>7, <1>8, <1>9

LEMMA InvMeansInstancesAreOwn == Orm!NoneIsNotMade => (Orm!IInv => Orm!InstancesAreOwn)
<1> SUFFICES ASSUME Orm!NoneIsNotMade, Orm!IInv, NEW a \in Apps, NEW n \in Orm!Declared(a),
                    Orm!Resolved(a, n) # None
             PROVE  LET owner == Orm!Resolved(a, n)[1] IN
                    /\ owner = a => bound[a] # None /\ db[bound[a]][Orm!Resolved(a, n)[2]] = a
                    /\ owner # a => origin[owner] = origin[a] /\ (bound[a] = None \/ n \notin members[a])
                    /\ n \in members[a] => Orm!Resolved(a, n) = <<a, n>>
  BY DEF Orm!InstancesAreOwn
<1>1. DOMAIN entities[a] = 1 .. Len(entities[a])
  BY DEF Orm!IInv, Orm!TypeOK
<1>2. PICK i \in 1 .. Len(entities[a]) : n = entities[a][i].name
  BY <1>1 DEF Orm!Declared
<1>3. PICK m \in Names : refs[a][m] # None /\ Orm!Resolved(a, n) = <<refs[a][m], m>>
  <2>1. Orm!Resolved(a, n) = Found(a)[entities[a][i].name]
    BY <1>2, ResolvedIsFound
  <2> QED
    BY <2>1, FoundIsARef
<1>4. refs[a][n] # None => Orm!Resolved(a, n) = <<refs[a][n], n>>
  BY <1>2, ResolvedIsFound DEF Follows
<1>5. n \in members[a] => refs[a][n] = a /\ a # None
  BY DEF Orm!IInv, Orm!MembersAreOwn, Orm!NoneIsNotMade
<1>6. /\ origin[refs[a][m]] = origin[a]
      /\ refs[a][m] = a => bound[a] # None /\ db[bound[a]][m] = a
  BY <1>3 DEF Orm!IInv, Orm!RefsAreKin
<1>7. n \in members[a] => Orm!Resolved(a, n) = <<a, n>> /\ refs[a][m] = a
  BY <1>3, <1>4, <1>5
<1> QED
  BY <1>3, <1>6, <1>7

\* Applications that share databases, derive entities and are cloned each get instances of their
\* own entities, and each of their converters once where they are bound, for any numbers of them
\* (appdb.py:80-255).
THEOREM InstancesStayOwn ==
  ASSUME Orm!NoneIsNotMade
  PROVE  Orm!Spec => [](Orm!InstancesAreOwn /\ Orm!InstalledOnce)
<1>1. Orm!Init => Orm!IInv
  BY AppsInit
<1>2. Orm!IInv /\ [Orm!Next]_(Orm!vars) => Orm!IInv'
  BY AppsStep
<1>3. Orm!IInv => Orm!InstancesAreOwn /\ Orm!InstalledOnce
  BY InvMeansInstancesAreOwn, InvMeansInstalledOnce
<1> QED
  BY <1>1, <1>2, <1>3, PTL DEF Orm!Spec

-------------------------------------------------------------------------------
(* 4. nr.databind.rest *)

LEMMA UpTo ==
  ASSUME NEW n \in Nat, NEW Q, 0 \in Q, \A i \in 1 .. n : i - 1 \in Q => i \in Q
  PROVE  \A i \in 0 .. n : i \in Q
<1> DEFINE Bad == {i \in 0 .. n : i \notin Q}
<1> SUFFICES ASSUME Bad # {}  PROVE  FALSE
  OBVIOUS
<1>1. Bad \in SUBSET Nat
  OBVIOUS
<1>2. \E x \in Bad : \A y \in Bad : ~ (<<y, x>> \in OpToRel(<, Nat))
  <2> HIDE DEF OpToRel, Bad
  <2> QED
    BY <1>1, NatLessThanWellFounded, WFMin
<1>3. PICK k \in Bad : \A j \in Bad : ~ (<<j, k>> \in OpToRel(<, Nat))
  BY <1>2
<1>4. k # 0 /\ k - 1 \in 0 .. n /\ k \in 1 .. n
  OBVIOUS
<1>5. k - 1 \notin Bad
  <2>1. <<k - 1, k>> \in OpToRel(<, Nat)
    <3>1. <<k - 1, k>> \in Nat \X Nat /\ <<k - 1, k>>[1] < <<k - 1, k>>[2]
      BY <1>4
    <3> QED
      BY <3>1, Zenon DEF OpToRel
  <2> QED
    BY <1>3, <2>1
<1> QED
  BY <1>4, <1>5

-------------------------------------------------------------------------------
\* The two recursive functions are what they say.
LEMMA Resolves ==
  ASSUME NEW h, NEW r, Len(r.params) \in Nat
  PROVE  /\ Rest!Resolving(h, r)[0] = h
         /\ \A i \in 1 .. Len(r.params) :
              Rest!Resolving(h, r)[i] = Rest!Fill(Rest!Resolving(h, r)[i - 1], r, i)
<1> DEFINE n == Len(r.params)
           Goes(f, k) == DOMAIN f = 0 .. n /\ f[0] = h
                         /\ \A i \in 1 .. k : f[i] = Rest!Fill(f[i - 1], r, i)
           Is(f) == f = [i \in 0 .. n |-> IF i = 0 THEN h ELSE Rest!Fill(f[i - 1], r, i)]
           Q == {k \in 0 .. n : \E f : Goes(f, k)}
<1>1. 0 \in Q
  <2>1. Goes([i \in 0 .. n |-> h], 0)
    OBVIOUS
  <2> HIDE DEF Goes
  <2> QED
    BY <2>1
<1>2. ASSUME NEW k \in 1 .. n, k - 1 \in Q  PROVE  k \in Q
  <2>1. PICK f : Goes(f, k - 1)
    BY <1>2
  <2> DEFINE g == [i \in 0 .. n |-> IF i = k THEN Rest!Fill(f[k - 1], r, k) ELSE f[i]]
  <2>2. \A i \in 1 .. k : i - 1 \in 0 .. n /\ i - 1 # k /\ i \in 0 .. n /\ (i # k => i \in 1 .. k - 1)
    OBVIOUS
  <2>3. DOMAIN g = 0 .. n /\ g[0] = h
    BY <2>1
  <2>4. \A i \in 1 .. k : g[i] = Rest!Fill(g[i - 1], r, i)
    BY <2>1, <2>2
  <2> HIDE DEF g
  <2>5. Goes(g, k)
    BY <2>3, <2>4
  <2> HIDE DEF Goes
  <2> QED
    BY <2>5
<1>3. n \in Q
  <2>1. n \in Nat /\ n \in 0 .. n
    OBVIOUS
  <2> HIDE DEF Q, n
  <2>2. \A k \in 1 .. n : k - 1 \in Q => k \in Q
    BY <1>2
  <2> QED
    BY <1>1, <2>1, <2>2, UpTo
<1>4. PICK f : Goes(f, n)
  BY <1>3
<1>5. \A i \in 0 .. n : i # 0 => i \in 1 .. n
  OBVIOUS
<1>6. Is([i \in 0 .. n |-> f[i]])
  BY <1>4, <1>5
<1>7. Is(Rest!Resolving(h, r))
  <2>1. Rest!Resolving(h, r) = CHOOSE x : Is(x)
    BY DEF Rest!Resolving
  <2> HIDE DEF Is
  <2> QED
    BY <1>6, <2>1
<1>8. ASSUME NEW g, Is(g)
      PROVE  g[0] = h /\ \A i \in 1 .. n : g[i] = Rest!Fill(g[i - 1], r, i)
  <2> DEFINE F(i) == IF i = 0 THEN h ELSE Rest!Fill(g[i - 1], r, i)
  <2>1. g = [i \in 0 .. n |-> F(i)]
    BY <1>8
  <2>2. F(0) = h /\ \A i \in 1 .. n : i \in 0 .. n /\ F(i) = Rest!Fill(g[i - 1], r, i)
    OBVIOUS
  <2> HIDE DEF F
  <2> QED
    BY <2>1, <2>2
<1> QED
  BY <1>7, <1>8

LEMMA ResolvesAll ==
  ASSUME NEW h, Len(routes) \in Nat
  PROVE  /\ Rest!ResolvingAll(h)[0] = h
         /\ \A k \in 1 .. Len(routes) :
              Rest!ResolvingAll(h)[k] =
                Rest!Resolving(Rest!ResolvingAll(h)[k - 1], routes[k])[Len(routes[k].params)]
<1> DEFINE n == Len(routes)
           Next(g, k) == Rest!Resolving(g, routes[k])[Len(routes[k].params)]
           Goes(f, k) == DOMAIN f = 0 .. n /\ f[0] = h
                         /\ \A i \in 1 .. k : f[i] = Next(f[i - 1], i)
           Is(f) == f = [i \in 0 .. n |-> IF i = 0 THEN h ELSE Next(f[i - 1], i)]
           Q == {k \in 0 .. n : \E f : Goes(f, k)}
<1>8. ASSUME NEW f, Is(f)
      PROVE  f[0] = h /\ \A k \in 1 .. n : f[k] = Next(f[k - 1], k)
  <2> HIDE DEF Next
  <2> QED
    BY <1>8
<1>7. Is(Rest!ResolvingAll(h))
  <2>1. Rest!ResolvingAll(h) = CHOOSE x : Is(x)
    BY DEF Rest!ResolvingAll
  <2> HIDE DEF Next
  <2>2. 0 \in Q
    <3>1. Goes([i \in 0 .. n |-> h], 0)
      OBVIOUS
    <3> HIDE DEF Goes
    <3> QED
      BY <3>1
  <2>3. ASSUME NEW k \in 1 .. n, k - 1 \in Q  PROVE  k \in Q
    <3>1. PICK f : Goes(f, k - 1)
      BY <2>3
    <3> DEFINE g == [i \in 0 .. n |-> IF i = k THEN Next(f[k - 1], k) ELSE f[i]]
    <3>2. \A i \in 1 .. k : i - 1 \in 0 .. n /\ i - 1 # k /\ i \in 0 .. n /\ (i # k => i \in 1 .. k - 1)
      OBVIOUS
    <3>3. DOMAIN g = 0 .. n /\ g[0] = h
      BY <3>1
    <3>4. \A i \in 1 .. k : g[i] = Next(g[i - 1], i)
      BY <3>1, <3>2
    <3> HIDE DEF g
    <3>5. Goes(g, k)
      BY <3>3, <3>4
    <3> HIDE DEF Goes
    <3> QED
      BY <3>5
  <2>4. n \in Q
    <3>1. n \in Nat /\ n \in 0 .. n
      OBVIOUS
    <3> HIDE DEF Q, n
    <3>2. \A k \in 1 .. n : k - 1 \in Q => k \in Q
      BY <2>3
    <3> QED
      BY <2>2, <3>1, <3>2, UpTo
  <2>5. PICK f : Goes(f, n)
    BY <2>4
  <2>6. \A i \in 0 .. n : i # 0 => i \in 1 .. n
    OBVIOUS
  <2>7. Is([i \in 0 .. n |-> f[i]])
    BY <2>5, <2>6
  <2> HIDE DEF Is
  <2> QED
    BY <2>1, <2>7
<1> QED
  BY <1>7, <1>8

-------------------------------------------------------------------------------
\* Routes, parameters and the objects they stand for.
LEMMA RouteFacts ==
  ASSUME Rest!InterfacesAreSound, routes \in Interfaces
  PROVE  /\ Len(routes) \in Nat /\ DOMAIN routes = 1 .. Len(routes)
         /\ \A k \in DOMAIN routes :
              /\ routes[k] \in Rest!ToSet(routes)
              /\ Len(routes[k].params) \in Nat
              /\ DOMAIN routes[k].params = 1 .. Len(routes[k].params)
         /\ \A k, l \in DOMAIN routes : routes[k].name = routes[l].name => k = l
         /\ \A k \in DOMAIN routes : \A i, j \in DOMAIN routes[k].params :
              routes[k].params[i].name = routes[k].params[j].name => i = j
<1>1. Rest!Sound(routes)
  BY DEF Rest!InterfacesAreSound
<1>2. Len(routes) \in Nat /\ DOMAIN routes = 1 .. Len(routes)
  BY <1>1 DEF Rest!Sound
<1>3. \A k \in DOMAIN routes : routes[k] \in Rest!ToSet(routes)
  BY DEF Rest!ToSet
<1>4. \A r \in Rest!ToSet(routes) : r.params \in Seq(Rest!ToSet(r.params))
  BY <1>1, Zenon DEF Rest!Sound
<1>5. \A k \in DOMAIN routes : Len(routes[k].params) \in Nat
                               /\ DOMAIN routes[k].params = 1 .. Len(routes[k].params)
  BY <1>3, <1>4
<1>6. \A k, l \in DOMAIN routes : routes[k].name = routes[l].name => k = l
  BY <1>1, Zenon DEF Rest!Sound
<1>7. \A k \in DOMAIN routes : \A i, j \in DOMAIN routes[k].params :
        routes[k].params[i].name = routes[k].params[j].name => i = j
  BY <1>1, <1>3, Zenon DEF Rest!Sound
<1> QED
  BY <1>2, <1>3, <1>5, <1>6, <1>7

LEMMA ParamFacts ==
  ASSUME Rest!InterfacesAreSound, routes \in Interfaces,
         NEW k \in DOMAIN routes, NEW i \in DOMAIN routes[k].params
  PROVE  /\ routes[k].params[i].name # None
         /\ <<routes[k].name, routes[k].params[i].name>> \notin DOMAIN Annotations
         /\ routes[k].params[i].ann \in {None} \cup DOMAIN Annotations
         /\ routes[k].params[i].default # None => routes[k].params[i].default.kind # "error"
<1>1. routes[k] \in Rest!ToSet(routes) /\ Rest!Sound(routes)
  BY DEF Rest!ToSet, Rest!InterfacesAreSound
<1> QED
  BY <1>1, Zenon DEF Rest!Sound

LEMMA IdFacts ==
  ASSUME Rest!InterfacesAreSound, routes \in Interfaces,
         NEW k \in DOMAIN routes, NEW i \in DOMAIN routes[k].params
  PROVE  IF Rest!IsOwn(routes[k], i)
         THEN /\ Rest!Id(routes[k], i) = <<routes[k].name, routes[k].params[i].name>>
              /\ Rest!Id(routes[k], i) \notin DOMAIN Annotations
         ELSE /\ Rest!Id(routes[k], i) = routes[k].params[i].ann
              /\ Rest!Id(routes[k], i) \in DOMAIN Annotations
<1>1. /\ <<routes[k].name, routes[k].params[i].name>> \notin DOMAIN Annotations
      /\ routes[k].params[i].ann \in {None} \cup DOMAIN Annotations
  BY ParamFacts
<1> QED
  BY <1>1 DEF Rest!IsOwn, Rest!Id

LEMMA OwnIdsDiffer ==
  ASSUME Rest!InterfacesAreSound, routes \in Interfaces,
         NEW k \in DOMAIN routes, NEW i \in DOMAIN routes[k].params, Rest!IsOwn(routes[k], i),
         NEW l \in DOMAIN routes, NEW j \in DOMAIN routes[l].params, Rest!IsOwn(routes[l], j),
         Rest!Id(routes[k], i) = Rest!Id(routes[l], j)
  PROVE  k = l /\ i = j
<1>1. routes[k].name = routes[l].name /\ routes[k].params[i].name = routes[l].params[j].name
  BY IdFacts
<1>2. k = l
  BY <1>1, RouteFacts
<1> QED
  BY <1>1, <1>2, RouteFacts

LEMMA PlaceFacts ==
  /\ \A u \in Rest!Places : /\ u = <<u[1], u[2]>> /\ u[1] \in DOMAIN routes
                            /\ u[2] \in DOMAIN routes[u[1]].params
  /\ \A k \in DOMAIN routes : \A i \in DOMAIN routes[k].params : <<k, i>> \in Rest!Places
BY DEF Rest!Places

-------------------------------------------------------------------------------
\* The parameters up to the i-th of the k-th route.
PlacesTo(k, i) == {u \in Rest!Places : u[1] < k \/ (u[1] = k /\ u[2] <= i)}

\* What Filled says of an annotation.
IsRight(h, ann, done) ==
  /\ h[ann] = [in |-> h[ann].in, type |-> h[ann].type, optional |-> h[ann].optional,
               name |-> h[ann].name, default |-> h[ann].default]
  /\ h[ann].in = Annotations[ann].in /\ h[ann].optional \in BOOLEAN
  /\ \/ h[ann].default = Annotations[ann].default
     \/ h[ann].in # "body" /\ \E u \in Rest!WithDefault(Rest!Users(ann)) : h[ann].default = Rest!ParamOf(u).default
  /\ Rest!NameIsFirst(h, ann, done)
  /\ h[ann].in \in {"query", "header"} =>
       /\ \A u \in Rest!Places :
            Rest!IsLast(u, Rest!WithDefault(Rest!Users(ann) \cap done)) => h[ann].default = Rest!ParamOf(u).default
       /\ \A u \in Rest!WithDefault(Rest!Users(ann) \cap done) :
            Rest!ParamOf(u).default.kind = "none" => h[ann].optional

LEMMA PlacesNext ==
  ASSUME Rest!InterfacesAreSound, routes \in Interfaces,
         NEW k \in DOMAIN routes, NEW i \in DOMAIN routes[k].params
  PROVE  /\ PlacesTo(k, i) = PlacesTo(k, i - 1) \cup {<<k, i>>}
         /\ <<k, i>> \in Rest!Places /\ <<k, i>> \notin PlacesTo(k, i - 1)
         /\ \A u \in Rest!Places : Rest!Before(u, <<k, i>>) <=> u \in PlacesTo(k, i - 1)
<1>1. k \in Nat /\ i \in Nat
  BY RouteFacts
<1>2. \A u \in Rest!Places : u[1] \in Nat /\ u[2] \in Nat /\ u = <<u[1], u[2]>>
  BY RouteFacts, PlaceFacts
<1>3. <<k, i>> \in Rest!Places
  BY PlaceFacts
<1>4. \A u \in Rest!Places : u[2] <= i <=> u[2] <= i - 1 \/ u[2] = i
  BY <1>1, <1>2
<1>5. \A u \in Rest!Places : u \in PlacesTo(k, i) <=> u \in PlacesTo(k, i - 1) \/ u = <<k, i>>
  BY <1>1, <1>2, <1>4 DEF PlacesTo
<1>6. \A u \in Rest!Places : u[2] < i <=> u[2] <= i - 1
  BY <1>1, <1>2
<1>7. \A u \in Rest!Places : Rest!Before(u, <<k, i>>) <=> u \in PlacesTo(k, i - 1)
  BY <1>6 DEF PlacesTo, Rest!Before
<1>8. <<k, i>> \notin PlacesTo(k, i - 1)
  BY <1>1 DEF PlacesTo
<1>9. PlacesTo(k, i) \subseteq Rest!Places /\ PlacesTo(k, i - 1) \subseteq Rest!Places
  BY DEF PlacesTo
<1> QED
  BY <1>3, <1>5, <1>7, <1>8, <1>9

\* Filling in one more: an own object is new, one of an annotation changes in its name, its
\* default and whether it is optional.
LEMMA FillOwn ==
  ASSUME Rest!InterfacesAreSound, routes \in Interfaces, Rest!AnnotationsAreSound,
         NEW k \in DOMAIN routes, NEW i \in DOMAIN routes[k].params, NEW h,
         Rest!IsOwn(routes[k], i), Rest!Filled(h, PlacesTo(k, i - 1))
  PROVE  Rest!Filled(Rest!Fill(h, routes[k], i), PlacesTo(k, i))
<1> DEFINE g == Rest!Fill(h, routes[k], i)
           id == Rest!Id(routes[k], i)
<1>1. PlacesTo(k, i) = PlacesTo(k, i - 1) \cup {<<k, i>>}
  BY PlacesNext
<1>2. /\ DOMAIN g = DOMAIN h \cup {id} /\ g[id] = Rest!Own(routes[k], i)
      /\ \A x \in DOMAIN h : x # id => g[x] = h[x]
  BY DEF Rest!Fill
<1>3. id \notin DOMAIN Annotations
  BY IdFacts
<1>4. \A ann \in DOMAIN Annotations : ann \in DOMAIN h /\ g[ann] = h[ann]
  BY <1>2, <1>3 DEF Rest!Filled
<1>5. ASSUME NEW ann \in DOMAIN Annotations
      PROVE  Rest!Users(ann) \cap PlacesTo(k, i) = Rest!Users(ann) \cap PlacesTo(k, i - 1)
  BY <1>1 DEF Rest!Users
<1>6. ASSUME NEW u \in PlacesTo(k, i), Rest!IsOwn(routes[u[1]], u[2])
      PROVE  /\ Rest!Id(routes[u[1]], u[2]) \in DOMAIN g
             /\ g[Rest!Id(routes[u[1]], u[2])] = Rest!Own(routes[u[1]], u[2])
  <2>1. CASE u = <<k, i>>
    BY <1>2, <2>1
  <2>2. CASE u \in PlacesTo(k, i - 1) /\ Rest!Id(routes[u[1]], u[2]) # id
    BY <1>2, <1>6, <2>2 DEF Rest!Filled
  <2>3. CASE Rest!Id(routes[u[1]], u[2]) = id
    <3>1. u[1] = k /\ u[2] = i
      BY <1>6, <2>3, OwnIdsDiffer, PlaceFacts DEF PlacesTo
    <3> QED
      BY <1>2, <3>1
  <2> QED
    BY <1>1, <2>1, <2>2, <2>3
<1> HIDE DEF g, id
<1>7. ASSUME NEW ann \in DOMAIN Annotations
      PROVE  IsRight(g, ann, PlacesTo(k, i))
  <2>1. IsRight(h, ann, PlacesTo(k, i - 1))
    BY DEF Rest!Filled, IsRight
  <2> QED
    BY <1>4, <1>5, <2>1 DEF IsRight, Rest!NameIsFirst
<1>8. DOMAIN Annotations \subseteq DOMAIN g
  BY <1>4, <1>2
<1>9. g = [x \in DOMAIN g |-> g[x]]
  BY Zenon DEF Rest!Fill, g
<1> QED
  BY <1>6, <1>7, <1>8, <1>9 DEF Rest!Filled, IsRight, g

LEMMA FillAnnotation ==
  ASSUME Rest!InterfacesAreSound, routes \in Interfaces, Rest!AnnotationsAreSound,
         NEW k \in DOMAIN routes, NEW i \in DOMAIN routes[k].params, NEW h,
         ~Rest!IsOwn(routes[k], i), Rest!Filled(h, PlacesTo(k, i - 1))
  PROVE  Rest!Filled(Rest!Fill(h, routes[k], i), PlacesTo(k, i))
<1> DEFINE g == Rest!Fill(h, routes[k], i)
           id == Rest!Id(routes[k], i)
           w == <<k, i>>
           p == routes[k].params[i]
           before == Rest!Users(id) \cap PlacesTo(k, i - 1)
<1>1. PlacesTo(k, i) = PlacesTo(k, i - 1) \cup {w} /\ w \notin PlacesTo(k, i - 1)
  BY PlacesNext
<1>2. id \in DOMAIN Annotations /\ id = p.ann
  BY IdFacts
<1>3. Rest!ParamOf(w) = p /\ w \in Rest!Users(id)
  BY <1>2, PlacesNext DEF Rest!ParamOf, Rest!Users
<1>4. /\ DOMAIN g = DOMAIN h \cup {id} /\ g[id] = Rest!FillIn(h[id], p)
      /\ \A x \in DOMAIN h : x # id => g[x] = h[x]
  BY DEF Rest!Fill
<1>5. ASSUME NEW u \in PlacesTo(k, i), Rest!IsOwn(routes[u[1]], u[2])
      PROVE  /\ Rest!Id(routes[u[1]], u[2]) \in DOMAIN g
             /\ g[Rest!Id(routes[u[1]], u[2])] = Rest!Own(routes[u[1]], u[2])
  <2>1. u # w /\ u \in PlacesTo(k, i - 1)
    BY <1>1, <1>5
  <2>2. u[1] \in DOMAIN routes /\ u[2] \in DOMAIN routes[u[1]].params
    BY <2>1, PlaceFacts DEF PlacesTo
  <2>3. Rest!Id(routes[u[1]], u[2]) # id
    BY <1>2, <1>5, <2>2, IdFacts
  <2> QED
    BY <1>4, <1>5, <2>1, <2>3 DEF Rest!Filled
<1>6. \A ann \in DOMAIN Annotations : ann \in DOMAIN h /\ IsRight(h, ann, PlacesTo(k, i - 1))
  BY DEF Rest!Filled, IsRight
<1>7. ASSUME NEW ann \in DOMAIN Annotations, ann # id
      PROVE  IsRight(g, ann, PlacesTo(k, i))
  <2>1. Rest!Users(ann) \cap PlacesTo(k, i) = Rest!Users(ann) \cap PlacesTo(k, i - 1)
    BY <1>1, <1>2, <1>3, <1>7 DEF Rest!Users
  <2>2. g[ann] = h[ann]
    BY <1>4, <1>6, <1>7
  <2> HIDE DEF g, id
  <2> QED
    BY <1>6, <2>1, <2>2 DEF IsRight, Rest!NameIsFirst
<1>8. Rest!Users(id) \cap PlacesTo(k, i) = before \cup {w}
  BY <1>1, <1>3
<1>9. p.name # None
  BY ParamFacts
<1>10. /\ g[id].in = h[id].in
       /\ g[id] = [in |-> g[id].in, type |-> g[id].type, optional |-> g[id].optional,
                    name |-> g[id].name, default |-> g[id].default]
       /\ g[id].optional \in BOOLEAN
       /\ g[id].name = IF h[id].name = None THEN p.name ELSE h[id].name
       /\ h[id].in \in {"query", "header"} =>
            /\ g[id].default = IF p.default # None THEN p.default ELSE h[id].default
            /\ h[id].optional => g[id].optional
            /\ p.default # None /\ p.default.kind = "none" => g[id].optional
  <2> HIDE DEF g, id, p
  <2>1. g[id].in = h[id].in
    BY <1>4 DEF Rest!FillIn
  <2>2. g[id] = [in |-> g[id].in, type |-> g[id].type, optional |-> g[id].optional,
                 name |-> g[id].name, default |-> g[id].default]
    <3>1. PICK a, b, c, d, e : g[id] = [in |-> a, type |-> b, optional |-> c, name |-> d, default |-> e]
      BY <1>4, Zenon DEF Rest!FillIn
    <3> DEFINE r == g[id]
    <3>2. r = [in |-> a, type |-> b, optional |-> c, name |-> d, default |-> e]
      BY <3>1
    <3> HIDE DEF r
    <3>3. r.in = a /\ r.type = b /\ r.optional = c /\ r.name = d /\ r.default = e
      BY <3>2
    <3>4. r = [in |-> r.in, type |-> r.type, optional |-> r.optional, name |-> r.name, default |-> r.default]
      BY <3>2, <3>3
    <3> QED
      BY <3>4 DEF r
  <2>3. g[id].name = IF h[id].name = None THEN p.name ELSE h[id].name
    BY <1>4 DEF Rest!FillIn
  <2>4. ASSUME h[id].in \in {"query", "header"}
        PROVE  g[id].default = IF p.default # None THEN p.default ELSE h[id].default
    BY <1>4, <2>4 DEF Rest!FillIn, Rest!Defaults
  <2>5. ASSUME h[id].in \in {"query", "header"}
        PROVE  /\ h[id].optional => g[id].optional
               /\ p.default # None /\ p.default.kind = "none" => g[id].optional
    <3>1. g[id].optional = (h[id].optional \/ (Rest!Defaults(h[id], p) /\ p.default.kind = "none"))
      BY <1>4 DEF Rest!FillIn
    <3>2. p.default # None => Rest!Defaults(h[id], p)
      BY <2>5 DEF Rest!Defaults
    <3> QED
      BY <3>1, <3>2, Zenon
  <2>6. g[id].optional \in BOOLEAN
    <3>1. g[id].optional = (h[id].optional \/ (Rest!Defaults(h[id], p) /\ p.default.kind = "none"))
      BY <1>4 DEF Rest!FillIn
    <3> QED
      BY <3>1
  <2> QED
    BY <2>1, <2>2, <2>3, <2>4, <2>5, <2>6
<1>11. \A u \in Rest!Places : Rest!Before(u, w) <=> u \in PlacesTo(k, i - 1)
  BY PlacesNext
<1> HIDE DEF g, id, p, w
<1>12. Rest!NameIsFirst(g, id, PlacesTo(k, i))
  <2>1. Rest!NameIsFirst(h, id, PlacesTo(k, i - 1))
    BY <1>2, <1>6 DEF IsRight
  <2>2. CASE Annotations[id].name # None
    BY <1>10, <2>1, <2>2 DEF Rest!NameIsFirst
  <2>3. CASE Annotations[id].name = None /\ h[id].name = None /\ before = {}
    <3>1. Rest!IsFirst(w, Rest!Users(id))
      BY <1>3, <1>11, <2>3 DEF Rest!IsFirst, Rest!Users
    <3>2. w \in Rest!Places /\ g[id].name = Rest!ParamOf(w).name
      BY <1>3, <1>10, <2>3 DEF Rest!Users
    <3> QED
      BY <2>3, <3>1, <3>2 DEF Rest!NameIsFirst
  <2>4. CASE Annotations[id].name = None /\ \E u \in Rest!Places :
               Rest!IsFirst(u, Rest!Users(id)) /\ h[id].name = Rest!ParamOf(u).name
    <3>1. PICK u \in Rest!Places :
            Rest!IsFirst(u, Rest!Users(id)) /\ h[id].name = Rest!ParamOf(u).name
      BY <2>4
    <3>2. Rest!ParamOf(u).name # None
      BY PlaceFacts, ParamFacts DEF Rest!ParamOf
    <3>3. g[id].name = Rest!ParamOf(u).name
      BY <1>10, <3>1, <3>2
    <3> QED
      BY <2>4, <3>1, <3>3 DEF Rest!NameIsFirst
  <2> QED
    BY <2>1, <2>2, <2>3, <2>4 DEF Rest!NameIsFirst
<1>13. ASSUME g[id].in \in {"query", "header"}
       PROVE  /\ \A u \in Rest!Places :
                   Rest!IsLast(u, Rest!WithDefault(Rest!Users(id) \cap PlacesTo(k, i)))
                     => g[id].default = Rest!ParamOf(u).default
              /\ \A u \in Rest!WithDefault(Rest!Users(id) \cap PlacesTo(k, i)) :
                   Rest!ParamOf(u).default.kind = "none" => g[id].optional
  <2>1. /\ \A u \in Rest!Places : Rest!IsLast(u, Rest!WithDefault(before)) => h[id].default = Rest!ParamOf(u).default
        /\ \A u \in Rest!WithDefault(before) : Rest!ParamOf(u).default.kind = "none" => h[id].optional
    BY <1>2, <1>6, <1>10, <1>13 DEF IsRight
  <2>2. before \subseteq Rest!Places /\ before \subseteq PlacesTo(k, i - 1)
    BY DEF Rest!Users
  <2> HIDE DEF before
  <2>3. CASE p.default = None
    <3>1. Rest!WithDefault(before \cup {w}) = Rest!WithDefault(before)
      BY <1>3, <2>3 DEF Rest!WithDefault
    <3> QED
      BY <1>8, <1>10, <1>13, <2>1, <2>3, <3>1
  <2>4. CASE p.default # None
    <3>1. Rest!WithDefault(before \cup {w}) = Rest!WithDefault(before) \cup {w}
      BY <1>3, <2>4 DEF Rest!WithDefault
    <3>2. \A u : Rest!IsLast(u, Rest!WithDefault(before) \cup {w}) => u = w
      <4>1. \A u \in Rest!WithDefault(before) : Rest!Before(u, w)
        BY <1>11, <2>2 DEF Rest!WithDefault
      <4> QED
        BY <4>1 DEF Rest!IsLast
    <3>3. g[id].default = Rest!ParamOf(w).default
      BY <1>3, <1>10, <1>13, <2>4
    <3>4. \A u \in Rest!WithDefault(before) \cup {w} : Rest!ParamOf(u).default.kind = "none" => g[id].optional
      BY <1>3, <1>10, <1>13, <2>1, <2>4
    <3> QED
      BY <1>8, <3>1, <3>2, <3>3, <3>4
  <2> QED
    BY <2>3, <2>4
<1>14. g[id].in = Annotations[id].in
  BY <1>2, <1>6, <1>10 DEF IsRight
<1>15. \/ g[id].default = Annotations[id].default
       \/ g[id].in # "body" /\ \E u \in Rest!WithDefault(Rest!Users(id)) : g[id].default = Rest!ParamOf(u).default
  <2>1. CASE h[id].in \in {"query", "header"} /\ p.default # None
    <3>1. w \in Rest!WithDefault(Rest!Users(id)) /\ g[id].in # "body" /\ g[id].default = Rest!ParamOf(w).default
      BY <1>3, <1>10, <2>1 DEF Rest!WithDefault
    <3> QED
      BY <3>1
  <2>2. CASE g[id].default = h[id].default
    BY <1>2, <1>6, <1>10, <2>2 DEF IsRight
  <2>3. ~(h[id].in \in {"query", "header"} /\ p.default # None) => g[id].default = h[id].default
    BY <1>4 DEF Rest!FillIn, Rest!Defaults
  <2> QED
    BY <2>1, <2>2, <2>3
<1>18. IsRight(g, id, PlacesTo(k, i))
  BY <1>10, <1>12, <1>13, <1>14, <1>15 DEF IsRight
<1>16. \A ann \in DOMAIN Annotations : IsRight(g, ann, PlacesTo(k, i)) /\ ann \in DOMAIN g
  BY <1>4, <1>6, <1>7, <1>18
<1>17. g = [x \in DOMAIN g |-> g[x]]
  BY DEF Rest!Fill, g
<1> QED
  BY <1>5, <1>16, <1>17 DEF Rest!Filled, IsRight, g

LEMMA PlacesEnd ==
  ASSUME Rest!InterfacesAreSound, routes \in Interfaces
  PROVE  /\ PlacesTo(1, 0) = {} /\ PlacesTo(Len(routes) + 1, 0) = Rest!Places
         /\ \A k \in DOMAIN routes : PlacesTo(k, Len(routes[k].params)) = PlacesTo(k + 1, 0)
<1>1. /\ \A u \in Rest!Places : /\ u[1] \in 1 .. Len(routes)
                               /\ u[2] \in 1 .. Len(routes[u[1]].params)
      /\ Len(routes) \in Nat /\ \A k \in DOMAIN routes : k \in Nat /\ Len(routes[k].params) \in Nat
  BY RouteFacts, PlaceFacts
<1>2. PlacesTo(1, 0) = {} /\ PlacesTo(Len(routes) + 1, 0) = Rest!Places
  BY <1>1 DEF PlacesTo
<1>3. ASSUME NEW k \in DOMAIN routes
      PROVE  PlacesTo(k, Len(routes[k].params)) = PlacesTo(k + 1, 0)
  <2>1. ASSUME NEW u \in Rest!Places
        PROVE  u[1] < k \/ (u[1] = k /\ u[2] <= Len(routes[k].params)) <=> u[1] < k + 1 \/ (u[1] = k + 1 /\ u[2] <= 0)
    BY <1>1
  <2> QED
    BY <2>1 DEF PlacesTo
<1> QED
  BY <1>2, <1>3

LEMMA FillsRoute ==
  ASSUME Rest!InterfacesAreSound, routes \in Interfaces, Rest!AnnotationsAreSound,
         NEW k \in DOMAIN routes, NEW h, Rest!Filled(h, PlacesTo(k, 0))
  PROVE  Rest!Filled(Rest!Resolving(h, routes[k])[Len(routes[k].params)], PlacesTo(k + 1, 0))
<1> DEFINE n == Len(routes[k].params)
           f == Rest!Resolving(h, routes[k])
           Q == {i \in 0 .. n : Rest!Filled(f[i], PlacesTo(k, i))}
<1>1. n \in Nat /\ n \in 0 .. n /\ DOMAIN routes[k].params = 1 .. n
  BY RouteFacts
<1>2. f[0] = h /\ \A i \in 1 .. n : f[i] = Rest!Fill(f[i - 1], routes[k], i)
  BY <1>1, Resolves
<1> HIDE DEF f, n
<1>3. 0 \in Q
  BY <1>1, <1>2
<1>4. ASSUME NEW i \in 1 .. n, i - 1 \in Q  PROVE  i \in Q
  <2>1. Rest!Filled(f[i - 1], PlacesTo(k, i - 1)) /\ i \in 0 .. n
    BY <1>1, <1>4
  <2>2. Rest!Filled(Rest!Fill(f[i - 1], routes[k], i), PlacesTo(k, i))
    BY <1>1, <2>1, FillOwn, FillAnnotation
  <2> QED
    BY <1>2, <2>1, <2>2
<1>5. n \in Q
  <2> HIDE DEF Q
  <2>1. \A i \in 1 .. n : i - 1 \in Q => i \in Q
    BY <1>4
  <2> QED
    BY <1>1, <1>3, <2>1, UpTo
<1>6. PlacesTo(k, n) = PlacesTo(k + 1, 0)
  BY PlacesEnd DEF n
<1> QED
  BY <1>5, <1>6 DEF f, n

LEMMA FillsAll ==
  ASSUME Rest!InterfacesAreSound, routes \in Interfaces, Rest!AnnotationsAreSound,
         NEW h, Rest!Filled(h, {})
  PROVE  \A k \in 0 .. Len(routes) : Rest!Filled(Rest!ResolvingAll(h)[k], PlacesTo(k + 1, 0))
<1> DEFINE n == Len(routes)
           f == Rest!ResolvingAll(h)
           Q == {k \in 0 .. n : Rest!Filled(f[k], PlacesTo(k + 1, 0))}
<1>1. n \in Nat /\ DOMAIN routes = 1 .. n
  BY RouteFacts
<1>2. f[0] = h /\ \A k \in 1 .. n : f[k] = Rest!Resolving(f[k - 1], routes[k])[Len(routes[k].params)]
  <2>1. /\ Rest!ResolvingAll(h)[0] = h
        /\ \A k \in 1 .. Len(routes) : Rest!ResolvingAll(h)[k] =
             Rest!Resolving(Rest!ResolvingAll(h)[k - 1], routes[k])[Len(routes[k].params)]
    <3>1. Len(routes) \in Nat
      BY <1>1
    <3> QED
      BY <3>1, ResolvesAll, Zenon
  <2> QED
    BY <2>1, Zenon
<1> HIDE DEF f, n
<1>3. 0 \in Q
  <2>1. 0 + 1 = 1 /\ 0 \in 0 .. n
    BY <1>1
  <2>2. Rest!Filled(f[0], PlacesTo(0 + 1, 0))
    BY <1>2, <2>1, PlacesEnd, Zenon
  <2> QED
    BY <2>1, <2>2
<1>4. ASSUME NEW k \in 1 .. n, k - 1 \in Q  PROVE  k \in Q
  <2>1. Rest!Filled(f[k - 1], PlacesTo(k, 0)) /\ k \in 0 .. n
    BY <1>1, <1>4
  <2>2. Rest!Filled(f[k], PlacesTo(k + 1, 0))
    BY <1>1, <1>2, <2>1, FillsRoute
  <2> QED
    BY <2>1, <2>2
<1>5. \A k \in 0 .. n : k \in Q
  <2> HIDE DEF Q
  <2>1. \A i \in 1 .. n : i - 1 \in Q => i \in Q
    BY <1>4
  <2> QED
    BY <1>1, <1>3, <2>1, UpTo
<1> QED
  BY <1>5 DEF f, n

-------------------------------------------------------------------------------
\* Resolving once more, from H in which every parameter is filled in: what an object y is
\* when those in `done' are filled in again.
SameObject(y, H, ann, done) ==
  /\ y[ann].in = H[ann].in /\ y[ann].type = H[ann].type
  /\ y[ann].optional = H[ann].optional /\ y[ann].name = H[ann].name
  /\ IF H[ann].in \in {"query", "header"} /\ Rest!WithDefault(Rest!Users(ann) \cap done) # {}
     THEN \E u \in Rest!Places : Rest!IsLast(u, Rest!WithDefault(Rest!Users(ann) \cap done))
     ELSE y[ann].default = H[ann].default
SameObjects(y, H, done) ==
  /\ y = [id \in DOMAIN H |-> y[id]]
  /\ \A id \in DOMAIN H : id \notin DOMAIN Annotations => y[id] = H[id]
  /\ \A ann \in DOMAIN Annotations : SameObject(y, H, ann, done)

LEMMA FillAgain ==
  ASSUME Rest!InterfacesAreSound, routes \in Interfaces, Rest!AnnotationsAreSound,
         NEW k \in DOMAIN routes, NEW i \in DOMAIN routes[k].params, NEW y, NEW H,
         Rest!Filled(H, Rest!Places), SameObjects(y, H, PlacesTo(k, i - 1))
  PROVE  SameObjects(Rest!Fill(y, routes[k], i), H, PlacesTo(k, i))
<1> DEFINE g == Rest!Fill(y, routes[k], i)
           id == Rest!Id(routes[k], i)
           w == <<k, i>>
           p == routes[k].params[i]
<1>1. PlacesTo(k, i) = PlacesTo(k, i - 1) \cup {w} /\ w \in Rest!Places
  BY PlacesNext
<1>2. IF Rest!IsOwn(routes[k], i) THEN id \notin DOMAIN Annotations
      ELSE id \in DOMAIN Annotations /\ id = p.ann
  BY IdFacts
<1>3. w \in Rest!Users(id) <=> ~Rest!IsOwn(routes[k], i)
  BY <1>1, <1>2 DEF Rest!ParamOf, Rest!Users
<1>4. id \in DOMAIN H /\ (Rest!IsOwn(routes[k], i) => H[id] = Rest!Own(routes[k], i))
  BY <1>1, <1>2 DEF Rest!Filled
<1>5. DOMAIN y = DOMAIN H
  BY DEF SameObjects
<1>6. g = [x \in DOMAIN y \cup {id} |-> IF x # id THEN y[x]
             ELSE IF Rest!IsOwn(routes[k], i) THEN Rest!Own(routes[k], i) ELSE Rest!FillIn(y[x], p)]
  BY DEF Rest!Fill
<1> HIDE DEF g
<1>7. g = [x \in DOMAIN H |-> g[x]]
  <2>1. DOMAIN y \cup {id} = DOMAIN H
    BY <1>4, <1>5
  <2> HIDE DEF id
  <2> QED
    BY <1>6, <2>1
<1>8. /\ \A x \in DOMAIN H : x # id => g[x] = y[x]
      /\ g[id] = IF Rest!IsOwn(routes[k], i) THEN Rest!Own(routes[k], i) ELSE Rest!FillIn(y[id], p)
  BY <1>4, <1>5, <1>6
<1>9. DOMAIN Annotations \subseteq DOMAIN H
  BY DEF Rest!Filled
<1> HIDE DEF id, w, p
<1>10. ASSUME NEW x \in DOMAIN H, x \notin DOMAIN Annotations
       PROVE  g[x] = H[x]
  BY <1>2, <1>4, <1>8, <1>10 DEF SameObjects
<1>11. ASSUME NEW ann \in DOMAIN Annotations, ann # id
       PROVE  SameObject(g, H, ann, PlacesTo(k, i))
  <2>1. Rest!Users(ann) \cap PlacesTo(k, i) = Rest!Users(ann) \cap PlacesTo(k, i - 1)
    BY <1>1, <1>2, <1>11 DEF Rest!Users, Rest!ParamOf, w, p
  <2>2. g[ann] = y[ann]
    BY <1>8, <1>9, <1>11
  <2> QED
    BY <2>1, <2>2 DEF SameObjects, SameObject
<1>12. ASSUME id \in DOMAIN Annotations
       PROVE  SameObject(g, H, id, PlacesTo(k, i))
  <2>1. ~Rest!IsOwn(routes[k], i) /\ w \in Rest!Users(id) /\ g[id] = Rest!FillIn(y[id], p)
    BY <1>2, <1>3, <1>8, <1>12
  <2>2. Rest!Users(id) \cap PlacesTo(k, i) = (Rest!Users(id) \cap PlacesTo(k, i - 1)) \cup {w}
    BY <1>1, <2>1
  <2>3. SameObject(y, H, id, PlacesTo(k, i - 1))
    BY <1>12 DEF SameObjects
  <2>4. g[id].in = y[id].in /\ g[id].type = y[id].type
    BY <2>1 DEF Rest!FillIn
  <2>5. g[id].name = H[id].name
    <3>1. H[id].name # None
      <4>1. Rest!NameIsFirst(H, id, Rest!Places) /\ w \in Rest!Users(id) \cap Rest!Places
        BY <1>1, <1>12, <2>1 DEF Rest!Filled
      <4>2. \A u \in Rest!Places : Rest!ParamOf(u).name # None
        BY PlaceFacts, ParamFacts DEF Rest!ParamOf
      <4> QED
        BY <4>1, <4>2 DEF Rest!NameIsFirst
    <3> QED
      BY <2>1, <2>3, <3>1 DEF Rest!FillIn, SameObject
  <2>6. g[id].optional = H[id].optional
    <3>1. g[id].optional = (y[id].optional \/ (Rest!Defaults(y[id], p) /\ p.default.kind = "none"))
      BY <2>1 DEF Rest!FillIn
    <3>2. y[id].optional = H[id].optional /\ y[id].in = H[id].in /\ H[id].optional \in BOOLEAN
      BY <1>12, <2>3 DEF SameObject, Rest!Filled
    <3>3. ASSUME Rest!Defaults(y[id], p), p.default.kind = "none"  PROVE H[id].optional
      <4>1. w \in Rest!WithDefault(Rest!Users(id) \cap Rest!Places) /\ Rest!ParamOf(w) = p
        BY <1>1, <2>1, <3>3 DEF Rest!WithDefault, Rest!Defaults, Rest!ParamOf, w, p
      <4>2. H[id].in \in {"query", "header"}
        BY <3>2, <3>3 DEF Rest!Defaults
      <4> QED
        BY <1>12, <3>3, <4>1, <4>2 DEF Rest!Filled
    <3> QED
      BY <3>1, <3>2, <3>3
  <2>7. IF H[id].in \in {"query", "header"} /\ Rest!WithDefault(Rest!Users(id) \cap PlacesTo(k, i)) # {}
        THEN \E u \in Rest!Places : Rest!IsLast(u, Rest!WithDefault(Rest!Users(id) \cap PlacesTo(k, i)))
        ELSE g[id].default = H[id].default
    <3> DEFINE before == Rest!Users(id) \cap PlacesTo(k, i - 1)
    <3>1. Rest!ParamOf(w) = p
      BY DEF Rest!ParamOf, w, p
    <3>2. \A u \in Rest!Places : Rest!Before(u, w) => u \in PlacesTo(k, i - 1)
      BY PlacesNext DEF w
    <3>3. g[id].default = IF Rest!Defaults(y[id], p) THEN p.default ELSE y[id].default
      BY <2>1 DEF Rest!FillIn
    <3>4. y[id].in = H[id].in
      BY <2>3 DEF SameObject
    <3>5. CASE p.default = None
      <4>1. Rest!WithDefault(before \cup {w}) = Rest!WithDefault(before)
        BY <3>1, <3>5 DEF Rest!WithDefault
      <4>2. g[id].default = y[id].default
        BY <3>3, <3>5 DEF Rest!Defaults
      <4> QED
        BY <2>2, <2>3, <4>1, <4>2 DEF SameObject
    <3>6. CASE p.default # None
      <4>1. w \in Rest!WithDefault(before \cup {w})
        BY <3>1, <3>6 DEF Rest!WithDefault
      <4>2. \A v \in Rest!WithDefault(before \cup {w}) : ~Rest!Before(w, v)
        <5>1. ~Rest!Before(w, w)
          <6>1. w[1] \in Nat /\ w[2] \in Nat
            BY RouteFacts DEF w
          <6> QED
            BY <6>1 DEF Rest!Before
        <5>2. ASSUME NEW v \in PlacesTo(k, i - 1)  PROVE ~Rest!Before(w, v)
          <6>1. w[1] = k /\ w[2] = i /\ k \in Nat /\ i \in Nat /\ v[1] \in Nat /\ v[2] \in Nat
            BY RouteFacts, PlaceFacts DEF w, PlacesTo
          <6>2. v[1] < k \/ (v[1] = k /\ v[2] <= i - 1)
            BY <5>2 DEF PlacesTo
          <6> QED
            BY <6>1, <6>2 DEF Rest!Before
        <5> QED
          BY <5>1, <5>2 DEF Rest!WithDefault
      <4>3. Rest!IsLast(w, Rest!WithDefault(before \cup {w}))
        BY <4>1, <4>2 DEF Rest!IsLast
      <4>4. H[id].in \notin {"query", "header"} => g[id].default = H[id].default
        BY <2>3, <3>3, <3>4 DEF Rest!Defaults, SameObject
      <4> QED
        BY <1>1, <2>2, <4>1, <4>3, <4>4
    <3> QED
      BY <3>5, <3>6
  <2> QED
    BY <2>3, <2>4, <2>5, <2>6, <2>7 DEF SameObject
<1> QED
  BY <1>7, <1>10, <1>11, <1>12 DEF SameObjects, g

LEMMA RouteAgain ==
  ASSUME Rest!InterfacesAreSound, routes \in Interfaces, Rest!AnnotationsAreSound,
         NEW k \in DOMAIN routes, NEW y, NEW H, Rest!Filled(H, Rest!Places), SameObjects(y, H, PlacesTo(k, 0))
  PROVE  SameObjects(Rest!Resolving(y, routes[k])[Len(routes[k].params)], H, PlacesTo(k + 1, 0))
<1> DEFINE n == Len(routes[k].params)
           f == Rest!Resolving(y, routes[k])
           Q == {i \in 0 .. n : SameObjects(f[i], H, PlacesTo(k, i))}
<1>1. n \in Nat /\ n \in 0 .. n /\ DOMAIN routes[k].params = 1 .. n
  BY RouteFacts
<1>2. f[0] = y /\ \A i \in 1 .. n : f[i] = Rest!Fill(f[i - 1], routes[k], i)
  BY <1>1, Resolves
<1> HIDE DEF f, n
<1>3. 0 \in Q
  BY <1>1, <1>2
<1>4. ASSUME NEW i \in 1 .. n, i - 1 \in Q  PROVE  i \in Q
  <2>1. SameObjects(f[i - 1], H, PlacesTo(k, i - 1)) /\ i \in 0 .. n
    BY <1>1, <1>4
  <2>2. SameObjects(Rest!Fill(f[i - 1], routes[k], i), H, PlacesTo(k, i))
    BY <1>1, <2>1, FillAgain
  <2> QED
    BY <1>2, <2>1, <2>2
<1>5. n \in Q
  <2> HIDE DEF Q
  <2>1. \A i \in 1 .. n : i - 1 \in Q => i \in Q
    BY <1>4
  <2> QED
    BY <1>1, <1>3, <2>1, UpTo
<1>6. PlacesTo(k, n) = PlacesTo(k + 1, 0)
  BY PlacesEnd DEF n
<1> QED
  BY <1>5, <1>6 DEF f, n

LEMMA FilledIsFilled ==
  ASSUME NEW h, Rest!Filled(h, Rest!Places)  PROVE  Rest!Filled(h, {})
<1>1. \A ann : Rest!WithDefault(Rest!Users(ann) \cap {}) = {} /\ Rest!Users(ann) \cap {} = {}
  BY DEF Rest!WithDefault
<1>2. \A u : ~Rest!IsLast(u, {})
  BY DEF Rest!IsLast
<1>3. ASSUME NEW ann \in DOMAIN Annotations
      PROVE  IsRight(h, ann, {})
  <2>1. IsRight(h, ann, Rest!Places)
    BY DEF Rest!Filled, IsRight
  <2>2. Rest!NameIsFirst(h, ann, {})
    BY <1>1, <2>1 DEF IsRight, Rest!NameIsFirst
  <2> QED
    BY <1>1, <1>2, <2>1, <2>2 DEF IsRight
<1> QED
  BY <1>3 DEF Rest!Filled, IsRight

LEMMA SameAtEnd ==
  ASSUME Rest!InterfacesAreSound, routes \in Interfaces, Rest!AnnotationsAreSound,
         NEW H, Rest!Filled(H, Rest!Places)
  PROVE  SameObjects(Rest!ResolvingAll(H)[Len(routes)], H, Rest!Places)
<1> DEFINE n == Len(routes)
           f == Rest!ResolvingAll(H)
           Q == {k \in 0 .. n : SameObjects(f[k], H, PlacesTo(k + 1, 0))}
<1>1. n \in Nat /\ n \in 0 .. n /\ DOMAIN routes = 1 .. n /\ 0 + 1 = 1 /\ 0 \in 0 .. n
  BY RouteFacts
<1>2. f[0] = H /\ \A k \in 1 .. n : f[k] = Rest!Resolving(f[k - 1], routes[k])[Len(routes[k].params)]
  <2>1. Len(routes) \in Nat
    BY <1>1
  <2> QED
    BY <2>1, ResolvesAll, Zenon
<1> HIDE DEF f
<1>3. 0 \in Q
  <2>1. \A ann : Rest!WithDefault(Rest!Users(ann) \cap {}) = {}
    BY DEF Rest!WithDefault
  <2>2. \A ann \in DOMAIN Annotations : SameObject(H, H, ann, {})
    BY <2>1 DEF SameObject
  <2>3. SameObjects(H, H, {})
    BY <2>2 DEF SameObjects, Rest!Filled
  <2>4. SameObjects(f[0], H, PlacesTo(0 + 1, 0))
    BY <1>1, <1>2, <2>3, PlacesEnd, Zenon
  <2> QED
    BY <1>1, <2>4
<1>4. ASSUME NEW k \in 1 .. n, k - 1 \in Q  PROVE  k \in Q
  <2>1. (k - 1) + 1 = k /\ k \in 0 .. n
    BY <1>1
  <2>2. SameObjects(f[k - 1], H, PlacesTo((k - 1) + 1, 0))
    BY <1>4
  <2>3. SameObjects(f[k - 1], H, PlacesTo(k, 0))
    BY <2>1, <2>2, Zenon
  <2>4. SameObjects(f[k], H, PlacesTo(k + 1, 0))
    BY <1>1, <1>2, <2>3, RouteAgain
  <2> QED
    BY <2>1, <2>4
<1>5. n \in Q
  <2> HIDE DEF Q, n
  <2>1. \A i \in 1 .. n : i - 1 \in Q => i \in Q
    BY <1>4
  <2> QED
    BY <1>1, <1>3, <2>1, UpTo
<1> QED
  BY <1>5, PlacesEnd DEF f

\* So that nothing has changed; and of the parameters with a default there is a last one.
LEMMA LastExists ==
  ASSUME Rest!InterfacesAreSound, routes \in Interfaces, Rest!AnnotationsAreSound,
         NEW H, Rest!Filled(H, Rest!Places), NEW ann \in DOMAIN Annotations,
         H[ann].in \in {"query", "header"}, Rest!WithDefault(Rest!Users(ann)) # {}
  PROVE  \E u \in Rest!Places : /\ Rest!IsLast(u, Rest!WithDefault(Rest!Users(ann)))
                                /\ H[ann].default = Rest!ParamOf(u).default
<1>1. SameObject(Rest!ResolvingAll(H)[Len(routes)], H, ann, Rest!Places)
  BY SameAtEnd DEF SameObjects
<1>2. Rest!Users(ann) \cap Rest!Places = Rest!Users(ann)
  BY DEF Rest!Users
<1>3. PICK u \in Rest!Places : Rest!IsLast(u, Rest!WithDefault(Rest!Users(ann)))
  BY <1>1, <1>2 DEF SameObject
<1>4. H[ann].default = Rest!ParamOf(u).default
  BY <1>2, <1>3 DEF Rest!Filled
<1> QED
  BY <1>3, <1>4

LEMMA AllAgain ==
  ASSUME Rest!InterfacesAreSound, routes \in Interfaces, Rest!AnnotationsAreSound,
         NEW H, Rest!Filled(H, Rest!Places)
  PROVE  Rest!ResolvingAll(H)[Len(routes)] = H
<1> DEFINE n == Len(routes)
           y == Rest!ResolvingAll(H)[n]
<1>1. Len(routes) \in 0 .. Len(routes)
  BY RouteFacts
<1>6. SameObjects(y, H, Rest!Places)
  BY SameAtEnd
<1>7. Rest!Filled(y, Rest!Places)
  <2>1. Rest!Filled(H, {})
    BY FilledIsFilled
  <2>2. Rest!Filled(y, PlacesTo(n + 1, 0))
    BY <1>1, <2>1, FillsAll
  <2> QED
    BY <2>2, PlacesEnd
<1> HIDE DEF y
<1>8. ASSUME NEW ann \in DOMAIN Annotations
      PROVE  y[ann] = H[ann]
  <2>1. SameObject(y, H, ann, Rest!Places) /\ IsRight(H, ann, Rest!Places) /\ IsRight(y, ann, Rest!Places)
    BY <1>6, <1>7 DEF SameObjects, Rest!Filled, IsRight
  <2>2. y[ann].default = H[ann].default
    BY <2>1 DEF SameObject, IsRight
  <2>3. /\ y[ann].in = H[ann].in /\ y[ann].type = H[ann].type
        /\ y[ann].optional = H[ann].optional /\ y[ann].name = H[ann].name
    BY <2>1 DEF SameObject
  <2>4. /\ H[ann] = [in |-> H[ann].in, type |-> H[ann].type, optional |-> H[ann].optional,
                     name |-> H[ann].name, default |-> H[ann].default]
        /\ y[ann] = [in |-> y[ann].in, type |-> y[ann].type, optional |-> y[ann].optional,
                     name |-> y[ann].name, default |-> y[ann].default]
    BY <2>1 DEF IsRight
  <2> QED
    BY <2>2, <2>3, <2>4, Zenon
<1>9. /\ y = [id \in DOMAIN H |-> y[id]] /\ H = [id \in DOMAIN H |-> H[id]]
      /\ \A id \in DOMAIN H : y[id] = H[id]
  BY <1>6, <1>8 DEF SameObjects, Rest!Filled
<1>10. y = H
  BY <1>9
<1> QED
  BY <1>10 DEF y

\* Where a parameter goes does not change once it is filled in.
PlaceOf(u) ==
  IF Rest!IsOwn(routes[u[1]], u[2]) THEN Rest!Own(routes[u[1]], u[2]).in ELSE Annotations[Rest!ParamOf(u).ann].in

LEMMA PlaceStays ==
  ASSUME Rest!InterfacesAreSound, routes \in Interfaces,
         NEW h, NEW done \in SUBSET Rest!Places, Rest!Filled(h, done), NEW u \in done
  PROVE  h[Rest!Id(routes[u[1]], u[2])].in = PlaceOf(u)
<1>1. u[1] \in DOMAIN routes /\ u[2] \in DOMAIN routes[u[1]].params
  BY PlaceFacts
<1>2. CASE Rest!IsOwn(routes[u[1]], u[2])
  <2>1. h[Rest!Id(routes[u[1]], u[2])] = Rest!Own(routes[u[1]], u[2])
    BY <1>2 DEF Rest!Filled
  <2> QED
    BY <1>2, <2>1 DEF PlaceOf
<1>3. CASE ~Rest!IsOwn(routes[u[1]], u[2])
  <2>1. /\ Rest!Id(routes[u[1]], u[2]) = Rest!ParamOf(u).ann
        /\ Rest!Id(routes[u[1]], u[2]) \in DOMAIN Annotations
    BY <1>1, <1>3, IdFacts DEF Rest!ParamOf
  <2>2. \A ann \in DOMAIN Annotations : h[ann].in = Annotations[ann].in
    BY DEF Rest!Filled
  <2> QED
    BY <1>3, <2>1, <2>2 DEF PlaceOf
<1> QED
  BY <1>2, <1>3

-------------------------------------------------------------------------------
\* As long as the routes stay.
LEMMA RoutesStay ==
  ASSUME UNCHANGED routes
  PROVE  /\ Rest!Places' = Rest!Places /\ Rest!MethodNames' = Rest!MethodNames
         /\ \A u : Rest!ParamOf(u)' = Rest!ParamOf(u)
         /\ \A ann : Rest!Users(ann)' = Rest!Users(ann)
         /\ \A S : Rest!WithDefault(S)' = Rest!WithDefault(S)
         /\ \A m : Rest!Method(m)' = Rest!Method(m)
         /\ \A m, i : Rest!ParamName(m, i)' = Rest!ParamName(m, i)
<1> USE DEF Rest!Places, Rest!MethodNames, Rest!ParamOf, Rest!Users, Rest!WithDefault, Rest!Method, Rest!ParamName
<1>1. Rest!Places' = Rest!Places /\ Rest!MethodNames' = Rest!MethodNames
  OBVIOUS
<1>2. \A u : Rest!ParamOf(u)' = Rest!ParamOf(u)
  OBVIOUS
<1>3. \A ann : Rest!Users(ann)' = Rest!Users(ann)
  OBVIOUS
<1>4. \A S : Rest!WithDefault(S)' = Rest!WithDefault(S)
  OBVIOUS
<1>5. \A m : Rest!Method(m)' = Rest!Method(m)
  OBVIOUS
<1>6. \A m, i : Rest!ParamName(m, i)' = Rest!ParamName(m, i)
  OBVIOUS
<1> QED
  BY <1>1, <1>2, <1>3, <1>4, <1>5, <1>6

LEMMA FilledStays ==
  ASSUME UNCHANGED routes, NEW h, NEW done
  PROVE  Rest!Filled(h, done)' <=> Rest!Filled(h, done)
BY RoutesStay DEF Rest!Filled, Rest!NameIsFirst, Rest!IsFirst, Rest!IsLast, Rest!Before, Rest!Places, Rest!Users, Rest!WithDefault, Rest!ParamOf

LEMMA CallStays ==
  ASSUME UNCHANGED <<routes, heap, resolved>>
  PROVE  /\ \A m : Rest!Objects(m)' = Rest!Objects(m)
         /\ Rest!OneBody' <=> Rest!OneBody
         /\ \A m, args : Rest!Sent(m, args)' = Rest!Sent(m, args)
         /\ \A m, args : Rest!Accepts(m, args)' <=> Rest!Accepts(m, args)
<1>1. \A m : Rest!Objects(m)' = Rest!Objects(m)
  BY DEF Rest!Objects
<1>2. Rest!OneBody' <=> Rest!OneBody
  BY DEF Rest!OneBody
<1>3. \A m, args : Rest!Given(m, args)' = Rest!Given(m, args)
  BY <1>1, RoutesStay DEF Rest!Given
<1>4. \A m, args : Rest!Lacking(m, args)' = Rest!Lacking(m, args)
  BY <1>1, <1>3, RoutesStay DEF Rest!Lacking
<1>5. \A m, args, in, n : Rest!At(m, args, in, n)' = Rest!At(m, args, in, n)
  BY <1>1, <1>3, RoutesStay DEF Rest!At
<1>6. \A m, args, in : Rest!Dict(m, args, in)' = Rest!Dict(m, args, in)
  BY <1>1, <1>3, <1>5, RoutesStay DEF Rest!Dict
<1>7. \A m, args : Rest!Sent(m, args)' = Rest!Sent(m, args)
  BY <1>1, <1>3, <1>6, RoutesStay DEF Rest!Sent
<1>8. \A m, args : Rest!Accepts(m, args)' <=> Rest!Accepts(m, args)
  BY <1>1, <1>3, <1>4, RoutesStay DEF Rest!Accepts
<1> QED
  BY <1>1, <1>2, <1>7, <1>8

LEMMA VisitedStays ==
  ASSUME UNCHANGED <<routes, heap, resolved, request>>
  PROVE  \A m : /\ Rest!Visited(m)' = Rest!Visited(m)
                /\ Rest!Bad(m)' = Rest!Bad(m)
                /\ Rest!Called(m)' = Rest!Called(m)
<1>1. \A object : Rest!Visit(object)' = Rest!Visit(object)
  BY DEF Rest!Visit
<1>2. \A m : Rest!Visited(m)' = Rest!Visited(m)
  BY <1>1, CallStays DEF Rest!Visited
<1>3. \A m : Rest!Bad(m)' = Rest!Bad(m)
  BY <1>2, CallStays DEF Rest!Bad
<1>4. \A m : Rest!Called(m)' = Rest!Called(m)
  BY <1>2, RoutesStay DEF Rest!Called
<1> QED
  BY <1>2, <1>3, <1>4

LEMMA AnswerStays ==
  ASSUME UNCHANGED <<routes, heap, resolved, call, request, response, ran>>
  PROVE  /\ Rest!SentAsCalled' <=> Rest!SentAsCalled
         /\ Rest!Refused' <=> Rest!Refused
         /\ Rest!Served' <=> Rest!Served
         /\ Rest!Received' = Rest!Received
<1>1. Rest!SentAsCalled' <=> Rest!SentAsCalled
  BY CallStays, RoutesStay DEF Rest!SentAsCalled
<1>2. Rest!Refused' <=> Rest!Refused
  BY DEF Rest!Refused
<1>4. Rest!Served' <=> Rest!Served
  BY VisitedStays, RoutesStay DEF Rest!Served, Rest!Results
<1>5. Rest!Received' = Rest!Received
  BY RoutesStay DEF Rest!Received
<1> QED
  BY <1>1, <1>2, <1>4, <1>5

-------------------------------------------------------------------------------
\* What a proof needs of the constants.
RestIsSound ==
  Rest!InterfacesAreSound /\ Rest!AnnotationsAreSound /\ Rest!ValuesAreJson /\ Rest!ExceptionsAreTheirs

LEMMA RestInit == ASSUME RestIsSound, Rest!Init  PROVE Rest!IInv
<1> USE DEF Rest!Init
<1>1. \A ann : Rest!WithDefault(Rest!Users(ann) \cap {}) = {} /\ Rest!Users(ann) \cap {} = {}
  BY DEF Rest!WithDefault
<1>2. \A u : ~Rest!IsLast(u, {})
  BY DEF Rest!IsLast
<1>3. ASSUME NEW ann \in DOMAIN Annotations
      PROVE  IsRight(heap, ann, {})
  BY <1>1, <1>2 DEF RestIsSound, Rest!AnnotationsAreSound, IsRight, Rest!NameIsFirst
<1>4. Rest!Filled(heap, {})
  BY <1>3 DEF RestIsSound, Rest!AnnotationsAreSound, Rest!Filled, IsRight
<1> QED
  BY <1>4 DEF Rest!IInv, Rest!RoutesAreReady, Rest!CallIsRight

LEMMA FewNumbers == ASSUME NEW n \in Nat  PROVE IsFiniteSet(1 .. n)
<1>1. 1 \in Int /\ n \in Int
  OBVIOUS
<1> QED
  BY <1>1, FS_Interval, Zenon

LEMMA GetRoutesKeeps == ASSUME RestIsSound, Rest!IInv, Rest!GetRoutes  PROVE Rest!IInv'
<1> DEFINE n == Len(routes)
           heaps == Rest!ResolvingAll(heap)
<1>1. /\ phase = "resolve" /\ UNCHANGED <<routes, call, request, response, ran, end>>
      /\ phase' = IF \E k \in DOMAIN routes : Rest!Cardinality(Rest!Bodies(heaps[k], routes[k])) > 1
                  THEN "TypeError" ELSE "idle"
      /\ heap' = heaps[n]
      /\ resolved' = [m \in Rest!MethodNames |->
                       [i \in DOMAIN Rest!Method(m).params |-> Rest!Id(Rest!Method(m), i)]]
  BY DEF Rest!GetRoutes
<1>2. routes \in Interfaces /\ Rest!Filled(heap, {}) /\ ran = None
  BY <1>1 DEF Rest!IInv, Rest!RoutesAreReady, Rest!CallIsRight
<1>3. \A k \in 0 .. n : Rest!Filled(heaps[k], PlacesTo(k + 1, 0))
  BY <1>2, FillsAll DEF RestIsSound
<1>4. n \in Nat /\ DOMAIN routes = 1 .. n /\ n \in 0 .. n /\ 1 .. n \subseteq 0 .. n
  BY <1>2, RouteFacts DEF RestIsSound
<1>5. Rest!Filled(heaps[n], Rest!Places)
  BY <1>2, <1>3, <1>4, PlacesEnd DEF RestIsSound
<1> HIDE DEF heaps
<1>6. Rest!Filled(heap, Rest!Places)'
  BY <1>1, <1>5, FilledStays, RoutesStay
<1>7. ASSUME phase' = "idle"  PROVE Rest!OneBody'
  <2>1. ASSUME NEW k \in DOMAIN routes, NEW i \in DOMAIN routes[k].params, NEW j \in DOMAIN routes[k].params,
               heaps[n][Rest!Id(routes[k], i)].in = "body", heaps[n][Rest!Id(routes[k], j)].in = "body"
        PROVE  i = j
    <3> DEFINE u == <<k, i>>
               v == <<k, j>>
    <3>1. u \in Rest!Places /\ v \in Rest!Places
      BY PlaceFacts
    <3>2. PlaceOf(u) = "body" /\ PlaceOf(v) = "body"
      BY <1>2, <1>5, <2>1, <3>1, PlaceStays DEF RestIsSound
    <3>3. u \in PlacesTo(k + 1, 0) /\ v \in PlacesTo(k + 1, 0) /\ PlacesTo(k + 1, 0) \subseteq Rest!Places
      BY <1>4, <3>1 DEF PlacesTo
    <3>4. Rest!Filled(heaps[k], PlacesTo(k + 1, 0))
      BY <1>3, <1>4
    <3>5. heaps[k][Rest!Id(routes[k], i)].in = "body" /\ heaps[k][Rest!Id(routes[k], j)].in = "body"
      BY <1>2, <3>2, <3>3, <3>4, PlaceStays DEF RestIsSound
    <3> DEFINE B == Rest!Bodies(heaps[k], routes[k])
    <3>6. i \in B /\ j \in B
      BY <3>5 DEF Rest!Bodies
    <3>7. IsFiniteSet(B)
      <4>1. DOMAIN routes[k].params = 1 .. Len(routes[k].params) /\ Len(routes[k].params) \in Nat
        BY <1>2, RouteFacts DEF RestIsSound
      <4>2. IsFiniteSet(DOMAIN routes[k].params)
        <5>1. IsFiniteSet(1 .. Len(routes[k].params))
          BY <4>1, FewNumbers, Zenon
        <5> QED
          BY <4>1, <5>1, Zenon
      <4>3. B \subseteq DOMAIN routes[k].params
        BY DEF Rest!Bodies
      <4> QED
        BY <4>2, <4>3, FS_Subset
    <3>8. ~(Cardinality(B) > 1)
      <4>1. Cardinality(B) = Rest!Cardinality(B)
        BY DEF Cardinality, Rest!Cardinality
      <4> QED
        BY <1>1, <1>7, <4>1
    <3> HIDE DEF B
    <3>9. Cardinality(B \ {i}) = Cardinality(B) - 1 /\ IsFiniteSet(B \ {i})
      BY <3>6, <3>7, FS_RemoveElement
    <3>10. Cardinality(B \ {i}) = 0
      BY <3>7, <3>8, <3>9, FS_CardinalityType
    <3>11. B \ {i} = {}
      BY <3>9, <3>10, FS_EmptySet
    <3> QED
      BY <3>6, <3>11
  <2>2. ASSUME NEW r \in Rest!ToSet(routes), NEW i \in DOMAIN r.params, NEW j \in DOMAIN r.params,
               heaps[n][Rest!Id(r, i)].in = "body", heaps[n][Rest!Id(r, j)].in = "body"
        PROVE  i = j
    <3>1. PICK k \in DOMAIN routes : routes[k] = r
      BY DEF Rest!ToSet
    <3> QED
      BY <2>1, <2>2, <3>1
  <2> QED
    BY <1>1, <2>2 DEF Rest!OneBody
<1>8. Rest!RoutesAreReady'
  <2>1. phase' \in {"TypeError", "idle"} /\ routes' \in Interfaces
    BY <1>1, <1>2
  <2>2. (resolved = [m \in Rest!MethodNames |->
                       [i \in DOMAIN Rest!Method(m).params |-> Rest!Id(Rest!Method(m), i)]])'
    BY <1>1, RoutesStay
  <2> QED
    BY <1>6, <1>7, <2>1, <2>2 DEF Rest!RoutesAreReady
<1>9. Rest!CallIsRight'
  BY <1>1, <1>2 DEF Rest!CallIsRight
<1> QED
  BY <1>8, <1>9 DEF Rest!IInv

Ready == phase \in {"idle", "sent", "answered", "done"}

LEMMA MethodFacts ==
  ASSUME RestIsSound, Rest!RoutesAreReady, Ready, NEW m \in Rest!MethodNames
  PROVE  /\ \E k \in DOMAIN routes : Rest!Method(m) = routes[k]
         /\ Rest!Method(m) \in Rest!ToSet(routes)
         /\ DOMAIN Rest!Objects(m) = DOMAIN Rest!Method(m).params
         /\ \A i \in DOMAIN Rest!Method(m).params : Rest!Objects(m)[i] = heap[Rest!Id(Rest!Method(m), i)]
         /\ \A i, j \in DOMAIN Rest!Method(m).params : Rest!ParamName(m, i) = Rest!ParamName(m, j) => i = j
         /\ DOMAIN Rest!Method(m).params \subseteq Nat
<1>1. PICK k \in DOMAIN routes : routes[k].name = m
  BY DEF Rest!MethodNames
<1>2. \E l \in DOMAIN routes : routes[l].name = m /\ Rest!Method(m) = routes[l]
  BY <1>1 DEF Rest!Method
<1>3. PICK l \in DOMAIN routes : Rest!Method(m) = routes[l]
  BY <1>2
<1>4. /\ routes \in Interfaces
      /\ resolved = [x \in Rest!MethodNames |->
                       [i \in DOMAIN Rest!Method(x).params |-> Rest!Id(Rest!Method(x), i)]]
  BY DEF Rest!RoutesAreReady, Ready
<1>5. resolved[m] = [i \in DOMAIN Rest!Method(m).params |-> Rest!Id(Rest!Method(m), i)]
  BY <1>4
<1>6. /\ DOMAIN Rest!Objects(m) = DOMAIN Rest!Method(m).params
      /\ \A i \in DOMAIN Rest!Method(m).params : Rest!Objects(m)[i] = heap[Rest!Id(Rest!Method(m), i)]
  BY <1>5 DEF Rest!Objects
<1>7. \A i, j \in DOMAIN Rest!Method(m).params : Rest!ParamName(m, i) = Rest!ParamName(m, j) => i = j
  BY <1>3, <1>4, RouteFacts DEF RestIsSound, Rest!ParamName
<1>8. DOMAIN Rest!Method(m).params \subseteq Nat
  BY <1>3, <1>4, RouteFacts DEF RestIsSound
<1> QED
  BY <1>3, <1>6, <1>7, <1>8 DEF Rest!ToSet

LEMMA ObjectFacts ==
  ASSUME RestIsSound, routes \in Interfaces, NEW h, Rest!Filled(h, Rest!Places),
         NEW k \in DOMAIN routes, NEW i \in DOMAIN routes[k].params
  PROVE  LET object == h[Rest!Id(routes[k], i)] IN
         /\ object.in \in {"path", "query", "header", "body"} /\ object.optional \in BOOLEAN
         /\ object.default # None => /\ object.default.kind # "error" /\ ~Rest!IsOwn(routes[k], i)
                                     /\ object.in \in {"query", "header"}
<1> DEFINE id == Rest!Id(routes[k], i)
<1>1. <<k, i>> \in Rest!Places
  BY PlaceFacts
<1>2. CASE Rest!IsOwn(routes[k], i)
  <2>1. h[id] = Rest!Own(routes[k], i)
    BY <1>1, <1>2 DEF Rest!Filled
  <2>2. h[id].in \in {"path", "body"} /\ h[id].optional = FALSE /\ h[id].default = None
    BY <2>1 DEF Rest!Own
  <2> QED
    BY <2>2
<1>3. CASE ~Rest!IsOwn(routes[k], i)
  <2>1. id \in DOMAIN Annotations
    BY <1>3, IdFacts DEF RestIsSound
  <2> HIDE DEF id
  <2>2. IsRight(h, id, Rest!Places)
    BY <2>1 DEF Rest!Filled, IsRight
  <2>3. /\ h[id].in = Annotations[id].in /\ h[id].optional \in BOOLEAN
        /\ Annotations[id].in \in {"query", "header", "body"}
        /\ IF Annotations[id].in = "body" THEN Annotations[id].default = None
           ELSE Annotations[id].default # None => Annotations[id].default.kind # "error"
    BY <2>1, <2>2 DEF IsRight, RestIsSound, Rest!AnnotationsAreSound
  <2>4. \A u \in Rest!WithDefault(Rest!Users(id)) : Rest!ParamOf(u).default.kind # "error"
    <3>1. \A u \in Rest!Places : Rest!ParamOf(u).default # None => Rest!ParamOf(u).default.kind # "error"
      BY PlaceFacts, ParamFacts DEF Rest!ParamOf, RestIsSound
    <3> QED
      BY <3>1 DEF Rest!WithDefault, Rest!Users
  <2>5. h[id].default # None => h[id].default.kind # "error" /\ h[id].in \in {"query", "header"}
    BY <2>2, <2>3, <2>4 DEF IsRight
  <2> QED
    BY <1>3, <2>3, <2>5 DEF id
<1> QED
  BY <1>2, <1>3

\* The body of a request is the argument of the one parameter that is the body.
LEMMA BodyFacts ==
  ASSUME RestIsSound, Rest!RoutesAreReady, Ready, NEW m \in Rest!MethodNames,
         NEW args, args \in [DOMAIN args -> Values], Rest!Accepts(m, args),
         NEW i \in DOMAIN Rest!Method(m).params, Rest!Objects(m)[i].in = "body"
  PROVE  /\ i \in Rest!Given(m, args)
         /\ Rest!Sent(m, args).body = {args[Rest!ParamName(m, i)]}
<1>1. PICK k \in DOMAIN routes : Rest!Method(m) = routes[k]
  BY MethodFacts
<1>2. routes \in Interfaces /\ Rest!Filled(heap, Rest!Places) /\ Rest!OneBody
  BY DEF Rest!RoutesAreReady, Ready
<1>3. Rest!Objects(m)[i].default = None
  BY <1>1, <1>2, MethodFacts, ObjectFacts
<1>4. i \in Rest!Given(m, args)
  BY <1>3, MethodFacts DEF Rest!Accepts, Rest!Lacking
<1>5. \A j \in Rest!Given(m, args) : Rest!Objects(m)[j].in = "body" => i = j
  BY <1>2, MethodFacts DEF Rest!OneBody, Rest!Given
<1>6. {j \in Rest!Given(m, args) : Rest!Objects(m)[j].in = "body"} = {i}
  BY <1>4, <1>5
<1>7. Rest!Sent(m, args).body = {args[Rest!ParamName(m, j)] :
                                 j \in {j \in Rest!Given(m, args) : Rest!Objects(m)[j].in = "body"}}
  BY DEF Rest!Sent
<1> QED
  BY <1>4, <1>6, <1>7

LEMMA DecodeFacts ==
  ASSUME RestIsSound, NEW text
  PROVE  Rest!Decode(text).kind # "error" /\ Rest!Value("error", text).kind = "error"
BY DEF RestIsSound, Rest!ValuesAreJson, Rest!Decode, Rest!Value

\* The errors with which a parameter is refused.
LEMMA VisitFacts ==
  ASSUME RestIsSound, Rest!RoutesAreReady, Ready, Rest!SentAsCalled,
         NEW i \in DOMAIN Rest!Method(call.method).params,
         Rest!Visit(Rest!Objects(call.method)[i]).kind = "error"
  PROVE  Rest!Visit(Rest!Objects(call.method)[i]).text \in {"400", "500"}
<1> DEFINE m == call.method
           object == Rest!Objects(m)[i]
           v == Rest!Visit(object)
<1>1. /\ m \in Rest!MethodNames /\ call.args \in [DOMAIN call.args -> Values]
      /\ Rest!Accepts(m, call.args) /\ request = Rest!Sent(m, call.args)
  BY DEF Rest!SentAsCalled
<1>2. routes \in Interfaces /\ Rest!Filled(heap, Rest!Places)
  BY DEF Rest!RoutesAreReady, Ready
<1>3. PICK k \in DOMAIN routes : Rest!Method(m) = routes[k]
  BY <1>1, MethodFacts
<1>4. object.default # None => object.default.kind # "error"
  BY <1>1, <1>2, <1>3, MethodFacts, ObjectFacts
<1>5. ASSUME object.in = "body"
      PROVE  (CHOOSE x \in request.body : TRUE).kind # "error"
  <2>1. i \in Rest!Given(m, call.args) /\ request.body = {call.args[Rest!ParamName(m, i)]}
    BY <1>1, <1>5, BodyFacts, Zenon
  <2>2. call.args[Rest!ParamName(m, i)] \in Values
    BY <1>1, <2>1 DEF Rest!Given
  <2>3. (CHOOSE x \in request.body : TRUE) \in request.body
    BY <2>1
  <2>4. \A x \in Values : x.kind # "error"
    BY DEF RestIsSound, Rest!ValuesAreJson
  <2>5. (CHOOSE x \in request.body : TRUE) = call.args[Rest!ParamName(m, i)]
    BY <2>1, <2>3
  <2> QED
    BY <2>2, <2>4, <2>5, Zenon
<1>6. \A x : Rest!Taken(object, x) = x \/ Rest!Taken(object, x) = Rest!Value("error", "500")
  BY DEF Rest!Taken
<1>7. v.kind = "error"
  OBVIOUS
<1> HIDE DEF object
<1>8. v \in {Rest!Value("error", "400"), Rest!Value("error", "500")}
  <2>1. CASE object.in = "body"
    <3>1. v = Rest!Taken(object, CHOOSE x \in request.body : TRUE)
      BY <2>1 DEF Rest!Visit
    <3> QED
      BY <1>5, <1>6, <1>7, <2>1, <3>1
  <2>2. CASE object.in # "body"
    <3> DEFINE d == Rest!Decode(request[object.in][object.name].text)
    <3>1. \/ v = object.default /\ object.default # None
          \/ v \in {Rest!Value("error", "400"), Rest!Value("error", "500")}
          \/ v = Rest!Taken(object, d)
      BY <2>2 DEF Rest!Visit
    <3>2. d.kind # "error"
      BY DecodeFacts
    <3> HIDE DEF v, d
    <3> QED
      BY <1>4, <1>6, <1>7, <3>1, <3>2
  <2> QED
    BY <2>1, <2>2
<1>9. v.text \in {"400", "500"}
  BY <1>8 DEF Rest!Value
<1> QED
  BY <1>9 DEF object

LEMMA ReadyStays ==
  ASSUME Rest!RoutesAreReady, UNCHANGED <<routes, heap, resolved>>, Ready,
         phase' \in {"sent", "answered", "done"}
  PROVE  Rest!RoutesAreReady'
<1>1. Rest!Filled(heap, Rest!Places)
  BY DEF Rest!RoutesAreReady, Ready
<1>2. Rest!Filled(heap, Rest!Places)'
  BY <1>1, FilledStays, RoutesStay
<1>3. (resolved = [m \in Rest!MethodNames |->
                     [i \in DOMAIN Rest!Method(m).params |-> Rest!Id(Rest!Method(m), i)]])'
  BY RoutesStay DEF Rest!RoutesAreReady, Ready
<1> QED
  BY <1>2, <1>3, CallStays DEF Rest!RoutesAreReady, Ready

LEMMA GetRoutesAgainKeeps == ASSUME RestIsSound, Rest!IInv, Rest!GetRoutesAgain  PROVE Rest!IInv'
<1>1. /\ phase = "idle" /\ ran = None /\ phase' = "resolve"
      /\ UNCHANGED <<routes, heap, resolved, call, request, response, ran, end>>
  BY DEF Rest!GetRoutesAgain
<1>2. routes \in Interfaces /\ Rest!Filled(heap, {})
  BY <1>1, FilledIsFilled DEF Rest!IInv, Rest!RoutesAreReady
<1>3. Rest!Filled(heap, {})'
  BY <1>1, <1>2, FilledStays
<1> QED
  BY <1>1, <1>2, <1>3 DEF Rest!IInv, Rest!RoutesAreReady, Rest!CallIsRight

LEMMA DispatchKeeps ==
  ASSUME RestIsSound, Rest!IInv, NEW m \in Rest!MethodNames,
         NEW given \in SUBSET Rest!ParamNames(Rest!Method(m)), NEW args \in [given -> Values],
         Rest!Dispatch(m, args)
  PROVE  Rest!IInv'
<1>1. /\ phase = "idle" /\ call' = [method |-> m, args |-> args]
      /\ UNCHANGED <<routes, heap, resolved, response, ran>>
      /\ \/ Rest!Accepts(m, args) /\ request' = Rest!Sent(m, args) /\ phase' = "sent"
         \/ phase' = "done" /\ end' = [raises |-> "client"]
  BY DEF Rest!Dispatch, Rest!Ended
<1>2. Rest!RoutesAreReady'
  BY <1>1, ReadyStays DEF Rest!IInv, Ready
<1>3. ran' = None
  BY <1>1 DEF Rest!IInv, Rest!CallIsRight
<1>4. ASSUME phase' = "sent"  PROVE Rest!SentAsCalled'
  <2>1. Rest!Accepts(m, args) /\ request' = Rest!Sent(m, args)
    BY <1>1, <1>4
  <2>2. Rest!Accepts(m, args)' /\ request' = Rest!Sent(m, args)'
    BY <1>1, <2>1, CallStays
  <2>3. call'.method = m /\ call'.args = args
    BY <1>1
  <2>4. args \in [DOMAIN args -> Values] /\ m \in Rest!MethodNames'
    BY <1>1, RoutesStay
  <2> QED
    BY <2>2, <2>3, <2>4 DEF Rest!SentAsCalled
<1> QED
  BY <1>1, <1>2, <1>3, <1>4 DEF Rest!IInv, Rest!CallIsRight

LEMMA ServeKeeps ==
  ASSUME RestIsSound, Rest!IInv, NEW result \in Rest!Results, Rest!Serve(result)
  PROVE  Rest!IInv'
<1> DEFINE m == call.method
           first == Rest!Visited(m)[Rest!Min(Rest!Bad(m))]
<1>1. phase = "sent" /\ Rest!SentAsCalled /\ ran = None /\ Rest!RoutesAreReady /\ Ready
  BY DEF Rest!IInv, Rest!CallIsRight, Rest!Serve, Ready
<1>2. request.method = m /\ m \in Rest!MethodNames
  BY <1>1 DEF Rest!SentAsCalled, Rest!Sent
<1>3. /\ phase' = "answered" /\ UNCHANGED <<routes, heap, resolved, call, request, end>>
      /\ \/ response' = Rest!Response("404", None) /\ UNCHANGED ran
         \/ /\ Rest!Bad(m) # {} /\ UNCHANGED ran
            /\ response' = Rest!Failure(first.text, IF first.text = "400" THEN "BadRequest" ELSE "ServiceException")
         \/ /\ Rest!Bad(m) = {} /\ ran' = [args |-> Rest!Called(m), result |-> result]
            /\ response' = Rest!Answer(Rest!Method(m).returns, result)
  BY <1>2 DEF Rest!Serve
<1> HIDE DEF m, first
<1>4. Rest!RoutesAreReady'
  BY <1>1, <1>3, ReadyStays
<1>5. Rest!SentAsCalled'
  BY <1>1, <1>3, CallStays, RoutesStay DEF Rest!SentAsCalled
<1>6. CASE response' = Rest!Response("404", None) /\ UNCHANGED ran
  BY <1>1, <1>3, <1>4, <1>5, <1>6 DEF Rest!IInv, Rest!CallIsRight, Rest!Refused
<1>7. CASE Rest!Bad(m) # {} /\ UNCHANGED ran
           /\ response' = Rest!Failure(first.text, IF first.text = "400" THEN "BadRequest" ELSE "ServiceException")
  <2>1. DOMAIN Rest!Objects(m) = DOMAIN Rest!Method(m).params /\ DOMAIN Rest!Objects(m) \subseteq Nat
    BY <1>1, <1>2, MethodFacts
  <2>2. Rest!Bad(m) \subseteq Nat
    BY <2>1 DEF Rest!Bad
  <2>3. Rest!Min(Rest!Bad(m)) \in Rest!Bad(m)
    BY <1>7, <2>2, LeastNumber
  <2> DEFINE i == Rest!Min(Rest!Bad(m))
  <2>4. i \in DOMAIN Rest!Method(m).params /\ first = Rest!Visit(Rest!Objects(m)[i]) /\ first.kind = "error"
    BY <2>1, <2>3 DEF Rest!Bad, Rest!Visited, first
  <2> HIDE DEF i
  <2>5. first.text \in {"400", "500"}
    BY <1>1, <2>4, VisitFacts DEF m
  <2>6. Rest!Refused'
    BY <1>1, <1>7, <2>5 DEF Rest!Refused
  <2> QED
    BY <1>3, <1>4, <1>5, <2>6 DEF Rest!IInv, Rest!CallIsRight
<1>8. CASE Rest!Bad(m) = {} /\ ran' = [args |-> Rest!Called(m), result |-> result]
           /\ response' = Rest!Answer(Rest!Method(m).returns, result)
  <2>1. Rest!Bad(m)' = {} /\ ran' = [args |-> Rest!Called(m), result |-> result]'
        /\ response' = Rest!Answer(Rest!Method(m).returns, result)'
    BY <1>3, <1>8, VisitedStays, RoutesStay DEF m
  <2>2. Rest!Served'
    BY <2>1 DEF Rest!Served, Rest!Results, m
  <2> QED
    BY <1>3, <1>4, <1>5, <2>2 DEF Rest!IInv, Rest!CallIsRight
<1> QED
  BY <1>3, <1>6, <1>7, <1>8

LEMMA EndKeeps ==
  ASSUME RestIsSound, Rest!IInv, Rest!Receive \/ Rest!Disconnect
  PROVE  Rest!IInv'
<1>1. /\ phase \in {"sent", "answered"} /\ phase' = "done"
      /\ UNCHANGED <<routes, heap, resolved, call, request, response, ran>>
      /\ \/ end' = [raises |-> "ConnectionError"]
         \/ phase = "answered" /\ end' = Rest!Received
  BY DEF Rest!Receive, Rest!Disconnect, Rest!Ended
<1>2. Rest!RoutesAreReady'
  BY <1>1, ReadyStays DEF Rest!IInv, Ready
<1>3. CASE end' = [raises |-> "ConnectionError"]
  BY <1>1, <1>2, <1>3 DEF Rest!IInv, Rest!CallIsRight
<1>4. CASE phase = "answered" /\ end' = Rest!Received
  BY <1>1, <1>2, <1>4, AnswerStays DEF Rest!IInv, Rest!CallIsRight
<1> QED
  BY <1>1, <1>3, <1>4

LEMMA RestStep ==
  ASSUME RestIsSound, Rest!IInv, [Rest!Next]_(Rest!vars)  PROVE Rest!IInv'
<1>1. CASE UNCHANGED Rest!vars
  <2>1. UNCHANGED <<routes, heap, resolved, phase, call, request, response, ran, end>>
    BY <1>1 DEF Rest!vars
  <2>2. Rest!Filled(heap, Rest!Places)' <=> Rest!Filled(heap, Rest!Places)
    BY <2>1, FilledStays, RoutesStay
  <2>3. Rest!Filled(heap, {})' <=> Rest!Filled(heap, {})
    BY <2>1, FilledStays
  <2>4. Rest!RoutesAreReady'
    BY <2>1, <2>2, <2>3, CallStays, RoutesStay DEF Rest!IInv, Rest!RoutesAreReady
  <2>5. Rest!CallIsRight'
    BY <2>1, AnswerStays DEF Rest!IInv, Rest!CallIsRight
  <2> QED
    BY <2>4, <2>5 DEF Rest!IInv
<1> QED
  BY <1>1, GetRoutesKeeps, GetRoutesAgainKeeps, DispatchKeeps, ServeKeeps, EndKeeps DEF Rest!Next

-------------------------------------------------------------------------------
\* What the invariant means.
LEMMA InvMeansResolvedOnce == ASSUME RestIsSound, Rest!IInv  PROVE Rest!ResolvedOnce
BY AllAgain DEF RestIsSound, Rest!IInv, Rest!RoutesAreReady, Rest!ResolvedOnce

LEMMA InvMeansNamesAreKept == ASSUME RestIsSound, Rest!IInv  PROVE Rest!NamesAreKept
<1> SUFFICES ASSUME phase = "idle", NEW r \in Rest!ToSet(routes), NEW i \in DOMAIN r.params
             PROVE  LET name == heap[Rest!Id(r, i)].name IN
                    IF Rest!IsOwn(r, i) THEN name = r.params[i].name
                    ELSE IF Annotations[r.params[i].ann].name # None
                    THEN name = Annotations[r.params[i].ann].name
                    ELSE \E u \in Rest!Places :
                           Rest!IsFirst(u, Rest!Users(r.params[i].ann)) /\ name = Rest!ParamOf(u).name
  BY DEF Rest!NamesAreKept
<1>1. routes \in Interfaces /\ Rest!Filled(heap, Rest!Places)
  BY DEF Rest!IInv, Rest!RoutesAreReady
<1>2. PICK k \in DOMAIN routes : routes[k] = r
  BY DEF Rest!ToSet
<1>3. <<k, i>> \in Rest!Places
  BY <1>2, PlaceFacts
<1>4. CASE Rest!IsOwn(r, i)
  <2>1. heap[Rest!Id(r, i)] = Rest!Own(r, i)
    BY <1>1, <1>2, <1>3, <1>4 DEF Rest!Filled
  <2> QED
    BY <1>4, <2>1 DEF Rest!Own
<1>5. CASE ~Rest!IsOwn(r, i)
  <2>1. Rest!Id(r, i) = r.params[i].ann /\ r.params[i].ann \in DOMAIN Annotations
    BY <1>1, <1>2, <1>5, IdFacts DEF RestIsSound
  <2>2. Rest!NameIsFirst(heap, r.params[i].ann, Rest!Places)
    BY <1>1, <2>1 DEF Rest!Filled
  <2>3. <<k, i>> \in Rest!Users(r.params[i].ann) \cap Rest!Places
    BY <1>2, <1>3, <1>5 DEF Rest!Users, Rest!ParamOf
  <2> QED
    BY <1>5, <2>1, <2>2, <2>3 DEF Rest!NameIsFirst
<1> QED
  BY <1>4, <1>5

\* What came of a call that the implementation got.
LEMMA ReceivedFacts ==
  ASSUME RestIsSound, Rest!Served,
         Rest!Method(call.method).returns # "void" \/ "raises" \in DOMAIN Rest!Received
  PROVE  Rest!Received \in {ran.result, [raises |-> "ServiceException"]}
<1> DEFINE returns == Rest!Method(call.method).returns
<1>1. PICK result \in Rest!Results : ran.result = result /\ response = Rest!Answer(returns, result)
  BY DEF Rest!Served
<1>2. Rest!Received = IF response.status = "404" /\ response.body = None THEN [raises |-> "HTTPError"]
                      ELSE IF response.status \notin {"200", "201"} THEN response.body
                      ELSE IF returns = "void" THEN [value |-> Rest!Value("none", "null")]
                      ELSE response.body
  BY DEF Rest!Received
<1>3. returns = "void" => Rest!Received # [value |-> Rest!Value("none", "null")]
  <2>1. "raises" \notin DOMAIN [value |-> Rest!Value("none", "null")]
    OBVIOUS
  <2> QED
    BY <2>1
<1>4. \A status, body : /\ Rest!Response(status, body).status = status
                        /\ Rest!Response(status, body).body = body
  BY DEF Rest!Response
<1> HIDE DEF returns
<1>6. CASE "raises" \in DOMAIN result /\ result.raises \in DOMAIN Exceptions
  <2>1. result = [raises |-> result.raises] /\ result # None
    BY <1>6 DEF RestIsSound, Rest!ExceptionsAreTheirs, Rest!Results
  <2>2. response = Rest!Response(Exceptions[result.raises], [raises |-> result.raises])
    BY <1>1, <1>6 DEF Rest!Answer, Rest!Failure
  <2>3. response.body = result
    BY <1>4, <2>1, <2>2
  <2> QED
    BY <1>1, <1>2, <1>3, <2>1, <2>3
<1>7. ASSUME response = Rest!Response("500", [raises |-> "ServiceException"])
      PROVE  Rest!Received = [raises |-> "ServiceException"]
  BY <1>2, <1>4, <1>7
<1>8. CASE "raises" \in DOMAIN result /\ result.raises \notin DOMAIN Exceptions
  BY <1>1, <1>7, <1>8 DEF Rest!Answer, Rest!Failure
<1>9. CASE "raises" \notin DOMAIN result
  <2>1. CASE returns = "void"
    <3>1. response = Rest!Response("201", None)
      BY <1>1, <1>9, <2>1 DEF Rest!Answer
    <3> QED
      BY <1>2, <1>3, <1>4, <2>1, <3>1
  <2>2. CASE returns # "void" /\ response = Rest!Response("200", result)
    BY <1>1, <1>2, <1>4, <2>2
  <2> QED
    BY <1>1, <1>7, <1>9, <2>1, <2>2 DEF Rest!Answer, Rest!Failure
<1> QED
  BY <1>6, <1>8, <1>9

LEMMA InvMeansErrorsAreTold == ASSUME RestIsSound, Rest!IInv  PROVE Rest!ErrorsAreTold
<1> SUFFICES ASSUME phase = "done", "raises" \in DOMAIN end
             PROVE  end.raises \in {"client", "BadRequest", "HTTPError"} \cup DOMAIN Exceptions =>
                      ran = None \/ ran.result = end
  BY DEF Rest!ErrorsAreTold
<1>1. DOMAIN Exceptions \cap {"ServiceException", "ConnectionError"} = {}
  BY DEF RestIsSound, Rest!ExceptionsAreTheirs
<1>2. CASE end = [raises |-> "ConnectionError"]
  BY <1>1, <1>2
<1>3. CASE end = Rest!Received /\ Rest!Served
  <2>1. end \in {ran.result, [raises |-> "ServiceException"]}
    BY <1>3, ReceivedFacts
  <2> QED
    BY <1>1, <2>1
<1> QED
  BY <1>2, <1>3 DEF Rest!IInv, Rest!CallIsRight, Rest!Refused

\* A text is read as what was sent, unless it is the string `null'.
LEMMA TakenFacts ==
  ASSUME RestIsSound, NEW object, object.optional \in BOOLEAN, NEW v \in Values, Rest!Fits(object, v),
         Rest!Taken(object, Rest!Decode(v.text)).kind # "error"
  PROVE  LET taken == Rest!Taken(object, Rest!Decode(v.text)) IN
         taken = v \/ (object.optional /\ v = Rest!Value("str", "null"))
<1> DEFINE d == Rest!Decode(v.text)
<1>1. /\ v = [kind |-> v.kind, text |-> v.text] /\ v.kind # "error"
      /\ v.kind # "str" => v.text \in DOMAIN Literals /\ Literals[v.text] = v.kind
      /\ v.text \in DOMAIN Literals => (Literals[v.text] = "none" => v.text = "null")
  BY DEF RestIsSound, Rest!ValuesAreJson
<1>2. Rest!Fits(object, d) /\ Rest!Taken(object, d) = d
  BY DEF Rest!Taken, Rest!Value
<1>3. d = IF v.text \in DOMAIN Literals THEN Rest!Value(Literals[v.text], v.text) ELSE Rest!Value("str", v.text)
  BY DEF Rest!Decode
<1> HIDE DEF d
<1>4. v = Rest!Value(v.kind, v.text)
  BY <1>1, Zenon DEF Rest!Value
<1>5. CASE v.kind # "str"
  BY <1>1, <1>2, <1>3, <1>4, <1>5 DEF d
<1>6. CASE v.kind = "str" /\ v.text \notin DOMAIN Literals
  BY <1>2, <1>3, <1>4, <1>6 DEF d
<1>7. CASE v.kind = "str" /\ v.text \in DOMAIN Literals
  <2>1. d = Rest!Value(Literals[v.text], v.text) /\ d.kind = Literals[v.text]
    BY <1>3, <1>7 DEF Rest!Value
  <2>2. object.type = "str"
    BY <1>7 DEF Rest!Fits
  <2>3. Literals[v.text] = "str" \/ (object.optional /\ Literals[v.text] = "none")
    BY <1>2, <2>1, <2>2 DEF Rest!Fits
  <2>4. CASE Literals[v.text] = "str"
    BY <1>2, <1>4, <1>7, <2>1, <2>4 DEF d
  <2>5. CASE object.optional /\ Literals[v.text] = "none"
    BY <1>1, <1>4, <1>7, <2>5
  <2> QED
    BY <2>3, <2>4, <2>5
<1> QED
  BY <1>5, <1>6, <1>7

\* What a parameter that clashes with no other gets: the argument, or the default if there is none.
LEMMA VisitIsArgument ==
  ASSUME RestIsSound, Rest!RoutesAreReady, Ready, Rest!SentAsCalled,
         ~Rest!Clash(Rest!Method(call.method)), NEW i \in DOMAIN Rest!Method(call.method).params,
         Rest!Visit(Rest!Objects(call.method)[i]).kind # "error"
  PROVE  LET n == Rest!ParamName(call.method, i)
             object == Rest!Objects(call.method)[i]
         IN  IF n \in DOMAIN call.args
             THEN \/ Rest!Visit(object) = call.args[n]
                  \/ object.optional /\ call.args[n] = Rest!Value("str", "null")
             ELSE /\ Rest!Visit(object) = object.default /\ object.default # None
                  /\ Rest!Method(call.method).params[i].default # None
<1> DEFINE m == call.method
           args == call.args
           r == Rest!Method(m)
           n == Rest!ParamName(m, i)
           object == Rest!Objects(m)[i]
<1>1. /\ m \in Rest!MethodNames /\ args \in [DOMAIN args -> Values]
      /\ Rest!Accepts(m, args) /\ request = Rest!Sent(m, args)
  BY DEF Rest!SentAsCalled
<1>2. routes \in Interfaces /\ Rest!Filled(heap, Rest!Places)
  BY DEF Rest!RoutesAreReady, Ready
<1>3. PICK k \in DOMAIN routes : r = routes[k]
  BY <1>1, MethodFacts
<1>4. /\ DOMAIN Rest!Objects(m) = DOMAIN r.params /\ DOMAIN r.params \subseteq Nat
      /\ \A j \in DOMAIN r.params : Rest!Objects(m)[j] = heap[Rest!Id(r, j)]
  BY <1>1, MethodFacts
<1>5. /\ object.in \in {"path", "query", "header", "body"} /\ object.optional \in BOOLEAN
      /\ object.default # None => object.in \in {"query", "header"}
  BY <1>2, <1>3, <1>4, ObjectFacts
<1>6. \A j \in DOMAIN r.params :
        Rest!Objects(m)[j].in = object.in /\ Rest!Objects(m)[j].name = object.name => i = j
  BY <1>4 DEF Rest!Clash
<1>7. \A v : Rest!Taken(object, v).kind # "error" => Rest!Taken(object, v) = v
  BY DEF Rest!Taken, Rest!Value
<1>8. ASSUME object.in # "body"  PROVE request[object.in] = Rest!Dict(m, args, object.in)
  BY <1>1, <1>5, <1>8 DEF Rest!Sent
<1>9. Rest!Given(m, args) = {j \in DOMAIN r.params : Rest!ParamName(m, j) \in DOMAIN args}
  BY <1>4 DEF Rest!Given
<1>10. DOMAIN Rest!Dict(m, args, object.in) =
         {Rest!Objects(m)[j].name : j \in {j \in Rest!Given(m, args) : Rest!Objects(m)[j].in = object.in}}
  BY DEF Rest!Dict
<1>11. Rest!Visit(object).kind # "error"
  OBVIOUS
<1>12. CASE n \in DOMAIN args
  <2>1. i \in Rest!Given(m, args) /\ args[n] \in Values /\ Rest!Fits(object, args[n])
    BY <1>1, <1>9, <1>12 DEF Rest!Accepts
  <2>2. CASE object.in = "body"
    <3>1. request.body = {args[n]}
      BY <1>1, <2>2, BodyFacts
    <3>2. (CHOOSE v \in request.body : TRUE) = args[n]
      BY <3>1
    <3> HIDE DEF object
    <3>3. Rest!Visit(object) = Rest!Taken(object, args[n])
      BY <2>2, <3>2 DEF Rest!Visit
    <3> QED
      BY <1>7, <1>11, <1>12, <3>3 DEF object
  <2>3. CASE object.in # "body"
    <3> DEFINE at == Rest!At(m, args, object.in, object.name)
    <3>1. at = {i}
      BY <1>6, <1>9, <2>1 DEF Rest!At
    <3>2. Rest!Max(at) = i
      BY <1>4, <3>1 DEF Rest!Max
    <3>3. object.name \in DOMAIN Rest!Dict(m, args, object.in)
      BY <1>10, <2>1
    <3>4. Rest!Dict(m, args, object.in)[object.name] = args[n]
      BY <3>2, <3>3 DEF Rest!Dict
    <3> HIDE DEF object
    <3>5. Rest!Visit(object) = Rest!Taken(object, Rest!Decode(args[n].text))
      BY <1>8, <1>11, <2>3, <3>3, <3>4 DEF Rest!Visit, Rest!Value
    <3>6. \/ Rest!Visit(object) = args[n]
          \/ object.optional /\ args[n] = Rest!Value("str", "null")
      BY <1>5, <1>11, <2>1, <3>5, TakenFacts
    <3> QED
      BY <1>12, <3>6 DEF object
  <2> QED
    BY <2>2, <2>3
<1>13. CASE n \notin DOMAIN args
  <2>1. i \notin Rest!Given(m, args)
    BY <1>9, <1>13
  <2>2. r.params[i].default # None /\ object.default # None
    BY <1>1, <1>4, <2>1 DEF Rest!Accepts, Rest!Lacking
  <2>3. object.in # "body" /\ object.name \notin DOMAIN request[object.in]
    BY <1>5, <1>6, <1>8, <1>9, <1>10, <2>1, <2>2
  <2> HIDE DEF object
  <2>4. Rest!Visit(object) = object.default
    BY <2>2, <2>3 DEF Rest!Visit
  <2> QED
    BY <1>13, <2>2, <2>4 DEF object
<1> QED
  BY <1>12, <1>13

LEMMA InvMeansCallIsLocal == ASSUME RestIsSound, Rest!IInv  PROVE Rest!CallIsLocal
<1> DEFINE r == Rest!Method(call.method)
<1> SUFFICES ASSUME phase = "done", "value" \in DOMAIN end
             PROVE  /\ r.returns # "void" => end = ran.result
                    /\ ~Rest!Clash(r) => \A i \in DOMAIN r.params :
                         LET n == r.params[i].name IN
                         IF n \in DOMAIN call.args
                         THEN \/ ran.args[n] = call.args[n]
                              \/ heap[Rest!Id(r, i)].optional /\ call.args[n] = Rest!Value("str", "null")
                         ELSE \E u \in Rest!Places :
                                /\ Rest!IsLast(u, Rest!WithDefault(Rest!Users(Rest!Id(r, i))))
                                /\ ran.args[n] = Rest!ParamOf(u).default
  BY DEF Rest!CallIsLocal
<1>1. Rest!RoutesAreReady /\ Ready /\ routes \in Interfaces /\ Rest!Filled(heap, Rest!Places)
  BY DEF Rest!IInv, Rest!RoutesAreReady, Ready
<1>2. \A e : "value" \notin DOMAIN [raises |-> e]
  OBVIOUS
<1>3. Rest!Refused => "value" \notin DOMAIN Rest!Received
  BY <1>2 DEF Rest!Refused, Rest!Received, Rest!Response, Rest!Failure
<1>4. end = Rest!Received /\ Rest!SentAsCalled /\ Rest!Served
  BY <1>2, <1>3 DEF Rest!IInv, Rest!CallIsRight
<1>5. r.returns # "void" => end = ran.result
  BY <1>2, <1>4, ReceivedFacts
<1>6. ASSUME ~Rest!Clash(r), NEW i \in DOMAIN r.params
      PROVE  LET n == r.params[i].name IN
             IF n \in DOMAIN call.args
             THEN \/ ran.args[n] = call.args[n]
                  \/ heap[Rest!Id(r, i)].optional /\ call.args[n] = Rest!Value("str", "null")
             ELSE \E u \in Rest!Places :
                    /\ Rest!IsLast(u, Rest!WithDefault(Rest!Users(Rest!Id(r, i))))
                    /\ ran.args[n] = Rest!ParamOf(u).default
  <2> DEFINE m == call.method
             n == r.params[i].name
             object == Rest!Objects(m)[i]
  <2>1. m \in Rest!MethodNames
    BY <1>4 DEF Rest!SentAsCalled
  <2>2. PICK k \in DOMAIN routes : r = routes[k]
    BY <1>1, <2>1, MethodFacts
  <2>3. /\ DOMAIN Rest!Objects(m) = DOMAIN r.params /\ object = heap[Rest!Id(r, i)]
        /\ \A j \in DOMAIN r.params : r.params[j].name = n => j = i
    BY <1>1, <2>1, MethodFacts DEF Rest!ParamName
  <2>4. Rest!IndexOf(r, n) = i
    BY <2>3 DEF Rest!IndexOf
  <2>5. Rest!Visited(m)[i] = Rest!Visit(object) /\ Rest!Visit(object).kind # "error"
    BY <1>4, <2>3 DEF Rest!Served, Rest!Bad, Rest!Visited
  <2>6. ran.args[n] = Rest!Visit(object)
    <3>1. n \in Rest!ParamNames(r)
      BY DEF Rest!ParamNames
    <3>2. ran.args = Rest!Called(m)
      BY <1>4 DEF Rest!Served
    <3> QED
      BY <2>4, <2>5, <3>1, <3>2 DEF Rest!Called
  <2>7. n = Rest!ParamName(m, i)
    BY DEF Rest!ParamName
  <2>8. IF n \in DOMAIN call.args
        THEN \/ Rest!Visit(object) = call.args[n]
             \/ object.optional /\ call.args[n] = Rest!Value("str", "null")
        ELSE Rest!Visit(object) = object.default /\ object.default # None /\ r.params[i].default # None
    BY <1>1, <1>4, <1>6, <2>5, <2>7, VisitIsArgument
  <2>9. ASSUME n \notin DOMAIN call.args
        PROVE  \E u \in Rest!Places : /\ Rest!IsLast(u, Rest!WithDefault(Rest!Users(Rest!Id(r, i))))
                                      /\ ran.args[n] = Rest!ParamOf(u).default
    <3>1. Rest!Visit(object) = object.default /\ object.default # None /\ r.params[i].default # None
      BY <2>8, <2>9
    <3>2. ~Rest!IsOwn(r, i) /\ object.in \in {"query", "header"}
      BY <1>1, <2>2, <2>3, <3>1, ObjectFacts
    <3>3. Rest!Id(r, i) = r.params[i].ann /\ r.params[i].ann \in DOMAIN Annotations
      BY <1>1, <2>2, <3>2, IdFacts DEF RestIsSound
    <3>4. <<k, i>> \in Rest!WithDefault(Rest!Users(Rest!Id(r, i)))
      BY <2>2, <3>1, <3>2, <3>3, PlaceFacts DEF Rest!WithDefault, Rest!Users, Rest!ParamOf
    <3>5. \E u \in Rest!Places : /\ Rest!IsLast(u, Rest!WithDefault(Rest!Users(Rest!Id(r, i))))
                                 /\ heap[Rest!Id(r, i)].default = Rest!ParamOf(u).default
      BY <1>1, <2>3, <3>2, <3>3, <3>4, LastExists DEF RestIsSound
    <3> QED
      BY <2>3, <2>6, <3>1, <3>5
  <2> QED
    BY <2>3, <2>6, <2>8, <2>9
<1> QED
  BY <1>5, <1>6

\* A call that returns has called the implementation with the arguments of its caller and
\* returns what came of it, the exceptions of the implementation are the caller's, and the
\* side that resolves the routes second finds them as the first did, for any interfaces,
\* annotations, values and exceptions (rest/__init__.py:335-375, requests_client.py:68-150,
\* flask.py:52-166).
THEOREM CallsAreTheirOwn ==
  ASSUME RestIsSound
  PROVE  Rest!Spec => [](Rest!CallIsLocal /\ Rest!ErrorsAreTold /\ Rest!ResolvedOnce /\ Rest!NamesAreKept)
<1>1. Rest!Init => Rest!IInv
  BY RestInit
<1>2. Rest!IInv /\ [Rest!Next]_(Rest!vars) => Rest!IInv'
  BY RestStep
<1>3. Rest!IInv => Rest!CallIsLocal /\ Rest!ErrorsAreTold /\ Rest!ResolvedOnce /\ Rest!NamesAreKept
  BY InvMeansCallIsLocal, InvMeansErrorsAreTold, InvMeansResolvedOnce, InvMeansNamesAreKept
<1> QED
  BY <1>1, <1>2, <1>3, PTL DEF Rest!Spec
================================================================================
