------------------------------ MODULE NameRewriter -----------------------------
(***************************************************************************)
(* nr.pylang.ast: dynamic_eval.py.  A statement has a kind, the name it is *)
(* about, the names it uses, its parameters and its body; the rewriter     *)
(* goes through the statements with a stack of frames and says of each use *)
(* of a name whether it becomes a subscript of the mapping.                *)
(* Augmented and annotated assignments, which no method visits, are left   *)
(* out.                                                                    *)
(***************************************************************************)
EXTENDS Naturals, Sequences, SequencesExt, FiniteSets, Functions

CONSTANTS DataVar, Builtins, None

Frame(of) == [of |-> of, external |-> {}, vars |-> {}]
Start(module) == [stack |-> <<Frame(module)>>, uses |-> <<>>]     \* __init__()

\* __is_local(), from the innermost frame.
IsLocal(stack, name, inherit) ==
  \/ name = DataVar
  \/ LET knows == {i \in DOMAIN stack : name \in stack[i].external \cup stack[i].vars}
         i == CHOOSE j \in knows : \A k \in knows : k <= j
     IN  knows # {} /\ name \notin stack[i].external /\ (inherit \/ i = Len(stack))

Top(s) == s.stack[Len(s.stack)]
AddVariable(s, name) ==
  IF name \in Top(s).external THEN s ELSE [s EXCEPT !.stack[Len(s.stack)].vars = @ \cup {name}]
AddVariables(s, names) == FoldLeft(AddVariable, s, names)
AddExternal(s, name) == [s EXCEPT !.stack[Len(s.stack)].external = @ \cup {name}]
Push(s, node) == [s EXCEPT !.stack = Append(@, Frame(node))]
Pop(s) == [s EXCEPT !.stack = Front(@)]

Use(s, name, context, subscript) ==
  [s EXCEPT !.uses = Append(@, [name |-> name, context |-> context, subscript |-> subscript,
                                scopes |-> [i \in DOMAIN s.stack |-> s.stack[i].of]])]

\* visit_Name(); the options say which contexts are rewritten.
VisitName(s, name, context, options) ==
  Use(s, name, context, ~IsLocal(s.stack, name, options.inherit) /\ context \in options.contexts)
VisitNames(s, names, options) ==
  FoldLeft(LAMBDA t, name : VisitName(t, name, "load", options), s, names)

\* A definition is assigned to the mapping where its name is external.
Define(s, node, options) ==
  IF ~IsLocal(s.stack, node.name, TRUE) /\ "store" \in options.contexts
  THEN Use(s, node.name, "store", TRUE) ELSE s

Enter(s, node, options) ==
  AddVariables(Push(Define(AddVariable(s, node.name), node, options), node), node.params)

\* The visit_ methods.
RECURSIVE Visit(_, _, _)
Visit(s, node, options) ==
  LET Body(t) == FoldLeft(LAMBDA u, n : Visit(u, n, options), t, node.body) IN
  CASE node.kind = "load" -> VisitNames(s, node.uses, options)
    [] node.kind = "del" -> VisitName(s, node.name, "del", options)
    [] node.kind \in {"assign", "for"} ->    \* `with' too: the target, then the rest
         Body(VisitNames(VisitName(AddVariable(s, node.name), node.name, "store", options),
                         node.uses, options))
    [] node.kind = "import" ->
         IF "store" \in options.contexts THEN Use(s, node.name, "store", TRUE) ELSE s
    [] node.kind = "except" -> Body(AddVariable(s, node.name))
    [] node.kind = "global" -> AddExternal(s, node.name)
    [] node.kind = "comp" ->                 \* the element, then the target and what it is of
         Pop(VisitName(VisitNames(AddVariable(Push(s, node), node.name), node.uses, options),
                       node.name, "store", options))
    [] node.kind = "def" -> Pop(Body(VisitNames(Enter(s, node, options), node.uses, options)))
    [] node.kind = "class" ->
         Pop(Body(VisitNames(AddVariables(Enter(s, node, options), <<"super", "__class__">>),
                             node.uses, options)))

Rewrite(module, options) ==
  FoldLeft(LAMBDA s, n : Visit(s, n, options), Start(module), module.body).uses

-------------------------------------------------------------------------------
\* DynamicMapping, over a mapping of the caller's that may not let go of its keys.
Mapping(data, keeps) == [data |-> data, deleted |-> {}, keeps |-> keeps, raised |-> None]
GetItem(m, key) ==
  IF key \in m.deleted THEN None
  ELSE IF key \in DOMAIN m.data THEN m.data[key]
  ELSE IF key \in Builtins THEN "builtin" ELSE None
SetItem(m, key, value) ==
  [m EXCEPT !.deleted = @ \ {key}, !.raised = None,
            !.data = [k \in DOMAIN m.data \cup {key} |-> IF k = key THEN value ELSE m.data[k]]]
DelItem(m, key) ==
  IF m.keeps THEN [m EXCEPT !.deleted = @ \cup {key}, !.raised = None]
  ELSE IF key \notin DOMAIN m.data THEN [m EXCEPT !.raised = "UnboundLocalError"]
  ELSE [m EXCEPT !.data = Restrict(@, DOMAIN @ \ {key}), !.deleted = @ \cup {key}, !.raised = None]
Run(m, steps) ==
  FoldLeft(LAMBDA n, s : IF s[2] = None THEN DelItem(n, s[1]) ELSE SetItem(n, s[1], s[2]), m, steps)

-------------------------------------------------------------------------------
\* What Python binds in a scope, and whether a name is a global one in it.
RECURSIVE Binds(_)
Binds(body) == UNION {
  (IF n.kind \in {"assign", "for", "except", "import", "def", "class"} THEN {n.name} ELSE {})
    \cup (IF n.kind \in {"for", "except"} THEN Binds(n.body) ELSE {}) : n \in ToSet(body)}
Declared(scope) == {n.name : n \in {x \in ToSet(scope.body) : x.kind = "global"}}
BoundIn(scope) == (Binds(scope.body) \cup ToSet(scope.params)
                     \cup IF scope.kind = "comp" THEN {scope.name} ELSE {}) \ Declared(scope)
IsGlobal(use) ==
  LET inner == Len(use.scopes)
      knows == {i \in 2 .. inner : /\ use.scopes[i].kind # "class" \/ i = inner
                                   /\ use.name \in BoundIn(use.scopes[i]) \cup Declared(use.scopes[i])}
  IN  knows = {} \/ use.name \in Declared(use.scopes[CHOOSE i \in knows : \A j \in knows : j <= i])

\* A name that becomes a subscript is a global one: unless it is imported, or a scope
\* around it binds it only further on (dynamic_eval.py:88-117, 166-267).
RECURSIVE Imports(_)
Imports(body) == UNION {(IF n.kind = "import" THEN {n.name} ELSE {}) \cup Imports(n.body) : n \in ToSet(body)}
BoundLate(scope, name) ==
  /\ name \in Binds(scope.body)
  /\ name \notin Binds(<<scope.body[1]>>) \/ scope.body[1].kind \in {"for", "except"}
OnlyGlobalsAreRewritten(module, options) ==
  \A u \in ToSet(Rewrite(module, options)) :
    u.subscript => \/ IsGlobal(u) \/ ~options.inherit
                   \/ u.name \in Imports(module.body)
                   \/ \E i \in DOMAIN u.scopes : BoundLate(u.scopes[i], u.name)

\* What the module itself assigns or defines is not rewritten, there or in its functions:
\* the first frame is pushed for the module as well (dynamic_eval.py:83-89).
ModuleNamesStay(module, options) ==
  \A u \in ToSet(Rewrite(module, options)) :
    Len(u.scopes) = 1 /\ u.subscript =>
      u.context = "load" \/ u.name \in Imports(module.body) \cup Declared(module) \/ u.context = "del"

\* What was set last is what is read, and what was deleted last is gone, the builtin of
\* the name too; to delete what is not there is an error, unless the caller's mapping
\* keeps its keys (dynamic_eval.py:341-385).
LastStepIsSeen(data, keeps, steps) ==
  LET m == Run(Mapping(data, keeps), steps) IN
  \A key \in DOMAIN data \cup Builtins \cup {s[1] : s \in ToSet(steps)} :
    LET took(i) == steps[i][2] # None \/ Run(Mapping(data, keeps), SubSeq(steps, 1, i)).raised = None
        mine == {i \in DOMAIN steps : steps[i][1] = key /\ took(i)}
        last == CHOOSE i \in mine : \A j \in mine : j <= i
    IN  GetItem(m, key) = IF mine # {} THEN steps[last][2]
                          ELSE IF key \in DOMAIN data THEN data[key]
                          ELSE IF key \in Builtins THEN "builtin" ELSE None
===============================================================================
