------------------------------- MODULE Deconflict ------------------------------
(***************************************************************************)
(* nr.metaclass: which metaclasses conflict, a metaclass that combines     *)
(* them, the essential bases of a class, and copies of classes.  A world   *)
(* has a parent for each class, a parent for each metaclass, and the       *)
(* metaclass of each class; None is the exception that the code raises.    *)
(***************************************************************************)
EXTENDS Naturals, Sequences, SequencesExt, FiniteSets, Functions

CONSTANTS None

\* What Python does: a class is a subclass of itself and of its parent's parents; a class
\* with several bases has a method resolution order unless a base is given twice or comes
\* before a subclass of its own; its metaclass must be a subclass of those of its bases.
IsSub(parent, x, y) ==
  LET up[c \in DOMAIN parent] == {c} \cup IF parent[c] = None THEN {} ELSE up[parent[c]] IN y \in up[x]
HasMro(parent, bases) ==
  \A i, j \in DOMAIN bases : i < j => ~IsSub(parent, bases[j], bases[i])
Winners(w, metas) == {m \in metas : \A n \in metas : IsSub(w.mparent, m, n)}
MetasOf(w, bases) == [i \in DOMAIN bases |-> w.meta[bases[i]]]

UniqueAndChain(iterables) ==
  FoldLeft(LAMBDA seen, x : IF x \in ToSet(seen) THEN seen ELSE Append(seen, x), <<>>, FlattenSeq(iterables))

GetConflictingMetaclasses(w, metas, bases) ==
  LET all == ToSet(UniqueAndChain(<<metas, MetasOf(w, bases)>>)) IN
  {x \in all : \E y \in all : ~IsSub(w.mparent, x, y) /\ ~IsSub(w.mparent, y, x)}

\* The metaclasses that the new one is made of, which are in the order of the bases.
ResolveMetaclassConflict(w, metas, bases) ==
  LET all == UniqueAndChain(<<metas, MetasOf(w, bases)>>) IN
  IF HasMro(w.mparent, all) THEN all ELSE None

Below(w, classes, y) == {i \in DOMAIN classes : classes[i] # y /\ IsSub(w.parent, classes[i], y)}
\* A parent is removed once for each of its children: the second time is a ValueError.
ReduceMro(w, classes) ==
  IF \E i \in DOMAIN classes : Cardinality(Below(w, classes, classes[i])) > 1 THEN None
  ELSE SelectSeq(classes, LAMBDA y : Below(w, classes, y) = {})

\* The bases, and what the metaclass of a class of them is made of.
DeconflictBases(w, classes) ==
  LET bases == ReduceMro(w, classes) IN
  IF bases = None THEN None
  ELSE IF GetConflictingMetaclasses(w, <<>>, bases) = {}
  THEN [bases |-> bases, meta |-> SetToSeq(Winners(w, ToSet(MetasOf(w, bases))))]
  ELSE LET meta == ResolveMetaclassConflict(w, <<>>, bases) IN
       IF meta = None \/ ~HasMro(w.parent, bases) THEN None ELSE [bases |-> bases, meta |-> meta]
DeconflictedBase(w, classes) ==
  LET result == DeconflictBases(w, classes) IN
  IF result # None /\ HasMro(w.parent, result.bases) THEN result ELSE None

\* copy_class() with new bases: the metaclasses that its metaclass is made of.  The one of
\* the class is left out when those of the bases conflict.
CopyClass(w, cls, newBases, resolve, reduce) ==
  LET bases == IF reduce THEN ReduceMro(w, newBases) ELSE newBases IN
  IF bases = None \/ ~HasMro(w.parent, bases) THEN None
  ELSE IF resolve /\ GetConflictingMetaclasses(w, <<>>, bases) # {}
  THEN ResolveMetaclassConflict(w, <<>>, bases)
  ELSE LET winners == Winners(w, {w.meta[cls]} \cup ToSet(MetasOf(w, bases))) IN
       IF winners = {} THEN None ELSE SetToSeq(winners)

-------------------------------------------------------------------------------
\* There is no conflict exactly when one of the metaclasses derives from all of them, so
\* that Python accepts the bases.
ConflictsAreReal(w, bases) ==
  GetConflictingMetaclasses(w, <<>>, bases) = {} <=> Winners(w, ToSet(MetasOf(w, bases))) # {}

\* What is left of the bases derives from each of them, and none of it from another
\* (deconflict.py:64-75); it fails only for a class with two subclasses among them.
ReducedIsEssential(w, classes) ==
  LET r == ReduceMro(w, classes) IN
  IF r = None THEN \E y \in ToSet(classes) : Cardinality(Below(w, classes, y)) > 1
  ELSE /\ \A y \in ToSet(classes) : \E x \in ToSet(r) : IsSub(w.parent, x, y)
       /\ \A x, y \in ToSet(r) : x # y => ~IsSub(w.parent, x, y)

\* The metaclass of the bases that are returned derives from that of each; when it cannot be
\* made, one metaclass comes before a subclass of its own (deconflict.py:59).
ResolvedDerivesFromAll(w, classes) ==
  LET r == DeconflictBases(w, classes) IN
  IF r # None THEN \A m \in ToSet(MetasOf(w, classes)) : \E n \in ToSet(r.meta) : IsSub(w.mparent, n, m)
  ELSE \/ ReduceMro(w, classes) = None
       \/ LET b == ReduceMro(w, classes) IN
          \/ Cardinality(ToSet(b)) < Len(b)
          \/ \E i, j \in DOMAIN b : i < j /\ IsSub(w.mparent, w.meta[b[j]], w.meta[b[i]])

\* A copy has a metaclass that derives from those of its bases; asked to resolve conflicts,
\* it fails only where one comes before a subclass of its own, or where the bases agree
\* with each other and not with the class (copy.py:69-72).
CopyDerivesFromAll(w, cls, classes) ==
  LET r == CopyClass(w, cls, classes, TRUE, FALSE) IN
  IF r # None THEN \A m \in ToSet(MetasOf(w, classes)) : \E n \in ToSet(r) : IsSub(w.mparent, n, m)
  ELSE \/ ~HasMro(w.parent, classes) \/ ~HasMro(w.mparent, UniqueAndChain(<<MetasOf(w, classes)>>))
       \/ /\ GetConflictingMetaclasses(w, <<>>, classes) = {}
          /\ GetConflictingMetaclasses(w, <<w.meta[cls]>>, classes) # {}
================================================================================
