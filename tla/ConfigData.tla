------------------------------ MODULE ConfigData -------------------------------
(***************************************************************************)
(* nr.config: transform.py, util.py and jinja.py, the functions on nested  *)
(* data.  A value is one of [num |-> n], [str |-> parts], [list |-> seq]   *)
(* and [map |-> function]; a part of a string is [text |-> t] or           *)
(* [var |-> accessors], and an accessor is [key |-> k], [idx |-> i] or     *)
(* [all |-> TRUE].  [error |-> e] is an exception.  Strings are not taken   *)
(* apart into characters.                                                  *)
(***************************************************************************)
EXTENDS Naturals, Sequences, SequencesExt, FiniteSets, Functions, TLC

CONSTANTS MaxDepth       \* bound: the recursion limit

Is(kind, value) == kind \in DOMAIN value
Error(e) == [error |-> e]
Failed(values) == {v \in values : Is("error", v)}
\* The first exception, if there is one.
FirstError(seq) == SelectSeq(seq, LAMBDA v : Is("error", v))[1]
AsList(seq) == IF Failed(ToSet(seq)) = {} THEN [list |-> seq] ELSE FirstError(seq)
Joined(seq) == IF Failed(ToSet(seq)) # {} THEN FirstError(seq)
               ELSE [str |-> FoldLeft(LAMBDA s, p : s \o p.str, <<>>, seq)]

-------------------------------------------------------------------------------
\* AccessorList.__call__().
Item(data, a) ==
  IF Is("key", a)
  THEN IF ~Is("map", data) THEN Error("TypeError")
       ELSE IF a.key \in DOMAIN data.map THEN data.map[a.key] ELSE Error("KeyError")
  ELSE IF Is("map", data) THEN Error("KeyError")
       ELSE IF ~Is("list", data) THEN Error("TypeError")
       ELSE IF a.idx + 1 \in DOMAIN data.list THEN data.list[a.idx + 1] ELSE Error("KeyError")

\* A wildcard takes the elements of a list, and the keys of a dict.
KeysOf(data) == LET keys == SetToSeq(DOMAIN data.map) IN
  [i \in DOMAIN keys |-> [str |-> <<[text |-> keys[i]]>>]]
RECURSIVE Access(_, _)
Access(data, items) ==
  IF items = <<>> \/ Is("error", data) THEN data
  ELSE IF ~Is("all", items[1]) THEN Access(Item(data, items[1]), Tail(items))
  ELSE IF ~Is("list", data) /\ ~Is("map", data) THEN Error("TypeError")
  ELSE LET all == IF Is("list", data) THEN data.list ELSE KeysOf(data)
       IN  AsList([i \in DOMAIN all |-> Access(all[i], Tail(items))])

\* BoxedValue.accessor_list: the keys up to the root, or to one that is false.
Truthy(a) == IF Is("idx", a) THEN a.idx # 0 ELSE a.key # ""
AccessorListOf(path) ==
  LET falsy == {i \in DOMAIN path : ~Truthy(path[i])}
      from == IF falsy = {} THEN 0 ELSE CHOOSE i \in falsy : \A j \in falsy : j <= i
  IN  SubSeq(path, from + 1, Len(path))

\* Mutant: the keys stop at the parent, which is left out.
ResolveFromHere(variable, path, resolver) ==
  LET items == IF resolver.relative THEN AccessorListOf(path) \o variable ELSE variable
  IN  Access(resolver.data, items)

\* DefaultVariableResolver.resolve(), at the place `path'; and the first that resolves.
Resolve(variable, path, resolver) ==
  LET items == IF resolver.relative THEN AccessorListOf(Front(path)) \o variable ELSE variable
  IN  IF resolver.relative /\ path = <<>> THEN Error("AttributeError")  \* nothing is beside the root
      ELSE Access(resolver.data, items)
ResolveAny(variable, path, resolvers) ==
  LET Step(found, r) == IF found = Error("KeyError") THEN Resolve(variable, path, r) ELSE found
  IN  FoldLeft(Step, Error("KeyError"), resolvers)

\* Substitution.transform_value().
InString(v) ==
  IF v = Error("KeyError") THEN [str |-> <<>>]
  ELSE IF Is("str", v) \/ Is("error", v) THEN v ELSE Error("Substitution.Error")
Or(v, default) == IF v = Error("KeyError") THEN default ELSE v
Substitute(value, path, resolvers, default) ==
  IF ~Is("str", value) THEN value
  ELSE IF \A p \in ToSet(value.str) : Is("text", p) THEN value
  ELSE IF Len(value.str) = 1 THEN Or(ResolveAny(value.str[1].var, path, resolvers), default)
  ELSE Joined([i \in DOMAIN value.str |->
                 IF Is("text", value.str[i]) THEN [str |-> <<value.str[i]>>]
                 ELSE InString(ResolveAny(value.str[i].var, path, resolvers))])

\* Transformer._transform(): what a value is replaced with is transformed as well.
AsMap(entries) ==
  IF Failed(Range(entries)) = {} THEN [map |-> entries] ELSE CHOOSE e \in Failed(Range(entries)) : TRUE

RECURSIVE Inside(_, _, _, _)
Inside(v, path, resolvers, default) ==
  LET Sub(x, a) == Inside(Substitute(x, Append(path, a), resolvers, default),
                          Append(path, a), resolvers, default)
  IN  IF Len(path) > MaxDepth THEN Error("RecursionError")
      ELSE IF Is("map", v) THEN AsMap([k \in DOMAIN v.map |-> Sub(v.map[k], [key |-> k])])
      ELSE IF Is("list", v) THEN AsList([i \in DOMAIN v.list |-> Sub(v.list[i], [idx |-> i - 1])])
      ELSE v
Transform(value, resolvers, default) ==
  Inside(Substitute(value, <<>>, resolvers, default), <<>>, resolvers, default)

-------------------------------------------------------------------------------
\* util.merge_dicts(): a key of b that has the marker is taken out of a.
Marker == [str |-> <<[var |-> <<[key |-> "exclude"]>>]>>]
RECURSIVE Merge(_, _)
Merge(a, b) ==
  IF ~Is("map", a) THEN b
  ELSE IF ~Is("map", b) THEN Error("ValueError")
  ELSE AsMap([k \in (DOMAIN a.map \cup DOMAIN b.map) \ {x \in DOMAIN b.map : b.map[x] = Marker} |->
                IF k \notin DOMAIN b.map THEN a.map[k]
                ELSE IF k \in DOMAIN a.map THEN Merge(a.map[k], b.map[k]) ELSE b.map[k]])

\* jinja.merge_dicts(), of dicts; and load_yaml_files().
RECURSIVE MergeJinja(_, _)
MergeJinja(a, b) ==
  [map |-> [k \in DOMAIN a.map \cup DOMAIN b.map |->
     IF k \notin DOMAIN b.map THEN a.map[k]
     ELSE IF k \in DOMAIN a.map /\ Is("map", a.map[k]) /\ Is("map", b.map[k])
     THEN MergeJinja(a.map[k], b.map[k]) ELSE b.map[k]]]
LoadYamlFiles(files) == FoldLeft(MergeJinja, [map |-> <<>>], files)

\* An expression is a variable, `exclude' if nothing else has the name, and attributes of
\* it.  What is not there is an undefined value, whose attributes raise.
Exclude == [exclude |-> TRUE]
Undefined == [undefined |-> TRUE]
Variables(context) == [map |-> context.map @@ ("exclude" :> Exclude)]
Attribute(v, a) ==
  IF Is("error", v) THEN v
  ELSE IF v = Undefined THEN Error("UndefinedError")
  ELSE IF Is("error", Item(v, a)) THEN Undefined ELSE Item(v, a)
Expression(part, context) == FoldLeft(Attribute, Variables(context), part.var)

\* Environment.eval(): a string that begins and ends with an expression is what its last
\* expression is, undefined or not; any other is a string, of scalars.
Scalar(v) == IF Is("str", v) \/ Is("error", v) THEN v
             ELSE IF Is("num", v) THEN [str |-> <<[text |-> ToString(v.num)]>>]
             ELSE Error("PartialTypeError")
LastOf(seq) == IF Failed(ToSet(seq)) = {} THEN Last(seq) ELSE FirstError(seq)
Eval(parts, context) ==
  IF parts # <<>> /\ Is("var", Head(parts)) /\ Is("var", Last(parts))
  THEN LastOf([i \in DOMAIN SelectSeq(parts, LAMBDA p : Is("var", p)) |->
                 Expression(SelectSeq(parts, LAMBDA p : Is("var", p))[i], context)])
  ELSE Joined([i \in DOMAIN parts |-> IF Is("text", parts[i]) THEN [str |-> <<parts[i]>>]
                                      ELSE Scalar(Expression(parts[i], context))])

\* render(): the payload is its own context, before the context; _map_values() leaves out
\* what is excluded.
Included(entries) == Restrict(entries, {k \in DOMAIN entries : entries[k] # Exclude})
RECURSIVE MapValues(_, _)
MapValues(x, context) ==
  IF Is("map", x) THEN AsMap(Included([k \in DOMAIN x.map |-> MapValues(x.map[k], context)]))
  ELSE IF Is("list", x)
  THEN AsList(SelectSeq([i \in DOMAIN x.list |-> MapValues(x.list[i], context)], LAMBDA y : y # Exclude))
  ELSE IF Is("str", x) THEN Eval(x.str, context) ELSE x
Render(payload, context) == MapValues(payload, [map |-> payload.map @@ context.map])

-------------------------------------------------------------------------------
\* Every place of a value, and what is there.
RECURSIVE Places(_)
Places(v) ==
  {<<>>} \cup IF Is("map", v) THEN UNION {{<<[key |-> k]>> \o p : p \in Places(v.map[k])} : k \in DOMAIN v.map}
               ELSE IF Is("list", v) THEN UNION {{<<[idx |-> i - 1]>> \o p : p \in Places(v.list[i])} : i \in DOMAIN v.list}
               ELSE {}

\* A relative variable is looked up next to the value it is in; but not below the first
\* element of a list, whose index ends the path to the root (transform.py:47-54).
RelativeIsBeside(value, path, variable) ==
  path # <<>> /\ (\A i \in 1 .. Len(path) - 1 : Truthy(path[i])) =>
    Resolve(variable, path, [data |-> value, relative |-> TRUE]) = Access(Access(value, Front(path)), variable)

\* Transforming replaces variables and nothing else: every place of the data is a place
\* of the result, and what has no variable is there as it was.
OnlyVariablesChange(value, resolvers) ==
  \A r \in {Transform(value, resolvers, [num |-> 0])} : ~Is("error", r) =>
    \A p \in Places(value) : \A x \in {Access(value, p)}, y \in {Access(r, p)} :
      /\ ~Is("error", y)
      /\ Is("num", x) \/ (Is("str", x) /\ \A q \in ToSet(x.str) : Is("text", q)) => y = x
      /\ Is("map", x) => Is("map", y) /\ DOMAIN y.map = DOMAIN x.map
      /\ Is("list", x) => Is("list", y) /\ Len(y.list) = Len(x.list)

\* Merging twice changes nothing more; what is excluded is gone, except below a key that
\* the first did not have, where the marker stays as a string (util.py:85-115).
MergeIsStable(a, b) ==
  \A r \in {Merge(a, b)} : ~Is("error", r) =>
    /\ Merge(r, b) = r \/ \E p \in Places(b) : Access(b, p) = Marker
    /\ \A p \in Places(b) : p # <<>> /\ Access(b, p) = Marker =>
         (Is("error", Access(r, p)) <=> Len(p) = 1 \/ Is("map", Access(a, Front(p))))

\* The last file that has a scalar or a list at a place, or a dict, has the say there.
LastFileWins(files) ==
  \A r \in {LoadYamlFiles(files)} : \A p \in Places(Last(files)) :
    \A x \in {Access(Last(files), p)} : ~Is("map", x) => Access(r, p) = x

\* What is rendered holds no excluded value at any depth; and a variable on its own is what
\* the payload says, of any type and as it is written there, or else the context
\* (jinja.py:75-96, 154-194).
RenderExcludes(payload, context) ==
  \A r \in {Render(payload, context)} : ~Is("error", r) =>
    /\ \A p \in Places(r) : Access(r, p) # Exclude
    /\ \A k \in DOMAIN payload.map, x \in DOMAIN payload.map \cup DOMAIN context.map :
         payload.map[k] = [str |-> <<[var |-> <<[key |-> x]>>]>>] =>
           r.map[k] = IF x \in DOMAIN payload.map THEN payload.map[x] ELSE context.map[x]
===============================================================================
